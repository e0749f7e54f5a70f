----------------------------- MODULE WL_ApiProofs -----------------------------
(***************************************************************************)
(* Proofs about WL_Api, for any number of tasks, partitions, entries and     *)
(* heap blocks, and any number of failing mounts.  IInv is inductive and     *)
(* implies the three invariants that make the handle table correct.          *)
(***************************************************************************)
EXTENDS WL_Api, TLAPS, WellFoundedInduction

(* Where s_instances_lock is held.                                           *)
LockedPcs == {"mount_init", "mount_fail", "flush", "clear"}

InMount(t) == call[t].pc \in MountPcs

(* The entry's object has been destroyed and the entry not yet cleared.      *)
Cleared(h) == \E t \in Tasks : call[t].pc = "clear" /\ call[t].h = h

(* Only the holder of s_instances_lock is in the functions it protects.      *)
TableInv == \A t \in Tasks : call[t].pc \in LockedPcs => tableLock = t

IdleInv == \A t \in Tasks : call[t].pc = "idle" => call[t] = Idle

(* A mount has a partition nobody else has, an object that is in no entry    *)
(* and, until it fails, a free entry.                                        *)
MountInv ==
  /\ \A t \in Tasks : InMount(t) =>
       /\ call[t].p # None
       /\ \A h \in Handles : mounted[h] # call[t].p
       /\ call[t].o # None => /\ heap[call[t].o] = call[t].p
                              /\ \A h \in Handles : instance[h] # call[t].o
       /\ IF call[t].pc = "mount_init"
          THEN call[t].o # None /\ call[t].h # None /\ instance[call[t].h] = None
          ELSE call[t].h = None
  /\ \A t, u \in Tasks : InMount(t) /\ InMount(u) /\ call[t].p = call[u].p => t = u

(* A data call has a handle that stays mounted.                              *)
UseInv ==
  \A t \in Tasks : call[t].pc \in UsePcs =>
    /\ call[t].h # None /\ mounted[call[t].h] # None /\ call[t].p = mounted[call[t].h]
    /\ call[t].pc = "use" => lock[call[t].h] = t /\ call[t].o = instance[call[t].h]

UnmountInv ==
  \A t \in Tasks : call[t].pc \in UnmountPcs =>
    /\ call[t].h # None /\ mounted[call[t].h] # None
    /\ call[t].pc = "flush" => call[t].o = instance[call[t].h]

(* Only data calls share a handle.                                           *)
ExclusiveInv ==
  \A t, u \in Tasks :
    t # u /\ call[t].h # None /\ call[t].h = call[u].h => call[t].pc \in UsePcs

(* The entries agree with the handles the client has; their objects are      *)
(* different and drive the partitions that were mounted.                     *)
EntryInv ==
  /\ \A h \in Handles :
       /\ (instance[h] = None) <=> (mounted[h] = None)
       /\ instance[h] # None => heap[instance[h]] = IF Cleared(h) THEN None ELSE mounted[h]
  /\ \A g, h \in Handles : instance[g] # None /\ instance[g] = instance[h] => g = h
  /\ \A g, h \in Handles : mounted[g] # None /\ mounted[g] = mounted[h] => g = h

(* Whatever is allocated is in an entry or in the hands of a mount.          *)
HeapInv ==
  \A o \in Objects : heap[o] # None =>
    \/ \E h \in Handles : instance[h] = o
    \/ \E t \in Tasks : InMount(t) /\ call[t].o = o

(* The inductive invariant.                                                  *)
IInv == /\ TypeOK /\ TableInv /\ IdleInv /\ MountInv /\ UseInv /\ UnmountInv
        /\ ExclusiveInv /\ EntryInv /\ HeapInv

-------------------------------------------------------------------------------
Pcs == {"idle"} \cup MountPcs \cup UsePcs \cup UnmountPcs
Calls == [pc : Pcs, h : Handles \cup {None}, p : Partitions \cup {None},
          o : Objects \cup {None}]

(* The fields of a call.                                                     *)
LEMMA CallTypes ==
  ASSUME TypeOK, NEW t \in Tasks
  PROVE  /\ call[t].pc \in Pcs
         /\ call[t].h \in Handles \cup {None} /\ call[t].p \in Partitions \cup {None}
         /\ call[t].o \in Objects \cup {None}
  BY Zenon DEF TypeOK, Pcs

(* Going on in one task's call keeps the type of the calls.                  *)
LEMMA SetPc ==
  ASSUME NEW f \in [Tasks -> Calls], NEW t \in Tasks, NEW a \in Pcs
  PROVE  [f EXCEPT ![t].pc = a] \in [Tasks -> Calls]
  BY Zenon DEF Calls

(* So does going on with another entry.                                      *)
LEMMA SetPcH ==
  ASSUME NEW f \in [Tasks -> Calls], NEW t \in Tasks, NEW a \in Pcs,
         NEW b \in Handles \cup {None}
  PROVE  [f EXCEPT ![t].pc = a, ![t].h = b] \in [Tasks -> Calls]
  BY Zenon DEF Calls

(* So does going on with an object.                                          *)
LEMMA SetPcO ==
  ASSUME NEW f \in [Tasks -> Calls], NEW t \in Tasks, NEW a \in Pcs,
         NEW b \in Objects \cup {None}
  PROVE  [f EXCEPT ![t].pc = a, ![t].o = b] \in [Tasks -> Calls]
  BY Zenon DEF Calls

(* A mount that succeeds moves its object from the task to the entry.        *)
LEMMA MountInitKeeps ==
  ASSUME IInv, NEW t \in Tasks, MountInit(t)
  PROVE  IInv'
  <1> USE NoneAssumption, HandlesAssumption, FailsAssumption
      DEF IInv, MountPcs, UsePcs, UnmountPcs
  <1>0. /\ call'[t].pc = "idle" /\ call'[t].h = None /\ call'[t].p = None
        /\ call'[t].o = None
        /\ \A u \in Tasks : u # t => call'[u] = call[u]
    BY DEF MountInit, TypeOK, Idle, IdleInv
  <1>1. TypeOK'
    BY CallTypes DEF MountInit, TypeOK, Pcs, Idle, IdleInv, MountInv, InMount,
       UnmountInv, UseInv
  <1>2. TableInv'
    BY <1>0, CallTypes DEF MountInit, TableInv, LockedPcs, Pcs
  <1>3. IdleInv'
    BY <1>0, CallTypes DEF MountInit, TypeOK, IdleInv, Idle
  <1>4. MountInv'
    BY <1>0, CallTypes DEF MountInit, MountInv, InMount, EntryInv, TypeOK, TableInv,
       LockedPcs, UnmountInv
  <1>5. UseInv'
    BY <1>0, CallTypes DEF MountInit, UseInv, TypeOK, ExclusiveInv, EntryInv,
       MountInv, InMount
  <1>6. UnmountInv'
    BY <1>0, CallTypes DEF MountInit, UnmountInv, TypeOK, ExclusiveInv, EntryInv,
       MountInv, InMount
  <1>7. ExclusiveInv'
    <2> SUFFICES ASSUME NEW u \in Tasks, NEW v \in Tasks, u # v, call'[u].h # None,
                        call'[u].h = call'[v].h
                 PROVE  call'[u].pc \in UsePcs
      BY DEF ExclusiveInv
    <2>1. CASE u # t /\ v # t
      BY <1>0, <2>1 DEF ExclusiveInv
    <2>2. CASE u = t
      BY <1>0, <2>2 DEF MountInit, ExclusiveInv
    <2>3. CASE v = t
      BY <1>0, <2>3 DEF MountInit, ExclusiveInv
    <2> QED BY <2>1, <2>2, <2>3
  <1>8. EntryInv'
    BY <1>0, CallTypes DEF MountInit, EntryInv, Cleared, MountInv, InMount, TypeOK,
       TableInv, LockedPcs, UnmountInv, ExclusiveInv
  <1>9. HeapInv'
    BY <1>0, CallTypes DEF MountInit, HeapInv, EntryInv, Cleared, MountInv, InMount,
       TypeOK, UnmountInv
  <1> QED BY <1>1, <1>2, <1>3, <1>4, <1>5, <1>6, <1>7, <1>8, <1>9

(* A mount whose init() fails keeps its object and gives up the entry.       *)
LEMMA MountInitFailsKeeps ==
  ASSUME IInv, NEW t \in Tasks, MountInitFails(t)
  PROVE  IInv'
  <1> USE NoneAssumption, HandlesAssumption, FailsAssumption
      DEF IInv, MountPcs, UsePcs, UnmountPcs
  <1>0. /\ call'[t].pc = "mount_fail" /\ call'[t].h = None /\ call'[t].p = call[t].p
        /\ call'[t].o = call[t].o
        /\ \A u \in Tasks : u # t => call'[u] = call[u]
    BY DEF MountInitFails, TypeOK, Idle, IdleInv
  <1>1. TypeOK'
    <2>1. call \in [Tasks -> Calls]
      BY Zenon DEF TypeOK, Calls, Pcs
    <2>3. call' \in [Tasks -> Calls]
      BY <2>1, SetPcH, "mount_fail" \in Pcs DEF MountInitFails, Pcs
    <2> QED BY <2>3, CallTypes DEF MountInitFails, TypeOK, Calls, Pcs
  <1>2. TableInv'
    BY <1>0, CallTypes DEF MountInitFails, TableInv, LockedPcs, Pcs
  <1>3. IdleInv'
    BY <1>0, CallTypes DEF IdleInv, Idle
  <1>4. MountInv'
    BY <1>0, CallTypes DEF MountInitFails, MountInv, InMount, EntryInv, TypeOK,
       TableInv, LockedPcs, UnmountInv
  <1>5. UseInv'
    BY <1>0, CallTypes DEF MountInitFails, UseInv, TypeOK, ExclusiveInv, EntryInv,
       MountInv, InMount
  <1>6. UnmountInv'
    BY <1>0, CallTypes DEF MountInitFails, UnmountInv, TypeOK, ExclusiveInv, EntryInv,
       MountInv, InMount
  <1>7. ExclusiveInv'
    <2> SUFFICES ASSUME NEW u \in Tasks, NEW v \in Tasks, u # v, call'[u].h # None,
                        call'[u].h = call'[v].h
                 PROVE  call'[u].pc \in UsePcs
      BY DEF ExclusiveInv
    <2>1. CASE u # t /\ v # t
      BY <1>0, <2>1 DEF ExclusiveInv
    <2>2. CASE u = t
      BY <1>0, <2>2 DEF MountInitFails, ExclusiveInv
    <2>3. CASE v = t
      BY <1>0, <2>3 DEF MountInitFails, ExclusiveInv
    <2> QED BY <2>1, <2>2, <2>3
  <1>8. EntryInv'
    BY <1>0, CallTypes DEF MountInitFails, EntryInv, Cleared, MountInv, InMount,
       TypeOK, TableInv, LockedPcs, UnmountInv, ExclusiveInv
  <1>9. HeapInv'
    BY <1>0, CallTypes DEF MountInitFails, HeapInv, EntryInv, Cleared, MountInv,
       InMount, TypeOK, UnmountInv
  <1> QED BY <1>1, <1>2, <1>3, <1>4, <1>5, <1>6, <1>7, <1>8, <1>9

(* The table is released; the object is still in the hands of the task.      *)
LEMMA MountFailKeeps ==
  ASSUME IInv, NEW t \in Tasks, MountFail(t)
  PROVE  IInv'
  <1> USE NoneAssumption, HandlesAssumption, FailsAssumption
      DEF IInv, MountPcs, UsePcs, UnmountPcs
  <1>0. /\ call'[t].pc = "mount_free" /\ call'[t].h = call[t].h /\ call'[t].p = call[t].p
        /\ call'[t].o = call[t].o
        /\ \A u \in Tasks : u # t => call'[u] = call[u]
    BY DEF MountFail, TypeOK, Idle, IdleInv
  <1>1. TypeOK'
    <2>1. call \in [Tasks -> Calls]
      BY Zenon DEF TypeOK, Calls, Pcs
    <2>3. call' \in [Tasks -> Calls]
      BY <2>1, SetPc, "mount_free" \in Pcs DEF MountFail, Pcs
    <2> QED BY <2>3, CallTypes DEF MountFail, TypeOK, Calls, Pcs
  <1>2. TableInv'
    BY <1>0, CallTypes DEF MountFail, TableInv, LockedPcs, Pcs
  <1>3. IdleInv'
    BY <1>0, CallTypes DEF IdleInv, Idle
  <1>4. MountInv'
    BY <1>0, CallTypes DEF MountFail, MountInv, InMount, EntryInv, TypeOK, TableInv,
       LockedPcs, UnmountInv
  <1>5. UseInv'
    BY <1>0, CallTypes DEF MountFail, UseInv, TypeOK, ExclusiveInv, EntryInv,
       MountInv, InMount
  <1>6. UnmountInv'
    BY <1>0, CallTypes DEF MountFail, UnmountInv, TypeOK, ExclusiveInv, EntryInv,
       MountInv, InMount
  <1>7. ExclusiveInv'
    <2> SUFFICES ASSUME NEW u \in Tasks, NEW v \in Tasks, u # v, call'[u].h # None,
                        call'[u].h = call'[v].h
                 PROVE  call'[u].pc \in UsePcs
      BY DEF ExclusiveInv
    <2>1. CASE u # t /\ v # t
      BY <1>0, <2>1 DEF ExclusiveInv
    <2>2. CASE u = t
      BY <1>0, <2>2 DEF MountFail, ExclusiveInv
    <2>3. CASE v = t
      BY <1>0, <2>3 DEF MountFail, ExclusiveInv
    <2> QED BY <2>1, <2>2, <2>3
  <1>8. EntryInv'
    BY <1>0, CallTypes DEF MountFail, EntryInv, Cleared, MountInv, InMount, TypeOK,
       TableInv, LockedPcs, UnmountInv, ExclusiveInv
  <1>9. HeapInv'
    BY <1>0, CallTypes DEF MountFail, HeapInv, EntryInv, Cleared, MountInv, InMount,
       TypeOK, UnmountInv
  <1> QED BY <1>1, <1>2, <1>3, <1>4, <1>5, <1>6, <1>7, <1>8, <1>9

(* The error path frees the object of this mount and no other.               *)
LEMMA MountFreeKeeps ==
  ASSUME IInv, NEW t \in Tasks, MountFree(t)
  PROVE  IInv'
  <1> USE NoneAssumption, HandlesAssumption, FailsAssumption
      DEF IInv, MountPcs, UsePcs, UnmountPcs
  <1>0. /\ call'[t].pc = "idle" /\ call'[t].h = None /\ call'[t].p = None
        /\ call'[t].o = None
        /\ \A u \in Tasks : u # t => call'[u] = call[u]
    BY DEF MountFree, TypeOK, Idle, IdleInv
  <1>1. TypeOK'
    BY CallTypes DEF MountFree, TypeOK, Pcs, Idle, IdleInv, MountInv, InMount,
       UnmountInv, UseInv
  <1>2. TableInv'
    BY <1>0, CallTypes DEF MountFree, TableInv, LockedPcs, Pcs
  <1>3. IdleInv'
    BY <1>0, CallTypes DEF MountFree, TypeOK, IdleInv, Idle
  <1>4. MountInv'
    BY <1>0, CallTypes DEF MountFree, MountInv, InMount, EntryInv, TypeOK, TableInv,
       LockedPcs, UnmountInv
  <1>5. UseInv'
    BY <1>0, CallTypes DEF MountFree, UseInv, TypeOK, ExclusiveInv, EntryInv,
       MountInv, InMount
  <1>6. UnmountInv'
    BY <1>0, CallTypes DEF MountFree, UnmountInv, TypeOK, ExclusiveInv, EntryInv,
       MountInv, InMount
  <1>7. ExclusiveInv'
    <2> SUFFICES ASSUME NEW u \in Tasks, NEW v \in Tasks, u # v, call'[u].h # None,
                        call'[u].h = call'[v].h
                 PROVE  call'[u].pc \in UsePcs
      BY DEF ExclusiveInv
    <2>1. CASE u # t /\ v # t
      BY <1>0, <2>1 DEF ExclusiveInv
    <2>2. CASE u = t
      BY <1>0, <2>2 DEF MountFree, ExclusiveInv
    <2>3. CASE v = t
      BY <1>0, <2>3 DEF MountFree, ExclusiveInv
    <2> QED BY <2>1, <2>2, <2>3
  <1>8. EntryInv'
    BY <1>0, CallTypes DEF MountFree, EntryInv, Cleared, MountInv, InMount, TypeOK,
       TableInv, LockedPcs, UnmountInv, ExclusiveInv
  <1>9. HeapInv'
    BY <1>0, CallTypes DEF MountFree, HeapInv, EntryInv, Cleared, MountInv, InMount,
       TypeOK, UnmountInv
  <1> QED BY <1>1, <1>2, <1>3, <1>4, <1>5, <1>6, <1>7, <1>8, <1>9

(* A data call begins on a handle that nobody is unmounting.                 *)
LEMMA UseKeeps ==
  ASSUME IInv, NEW t \in Tasks, NEW h \in Handles, Use(t, h)
  PROVE  IInv'
  <1> USE NoneAssumption, HandlesAssumption, FailsAssumption
      DEF IInv, MountPcs, UsePcs, UnmountPcs
  <1>0. /\ call'[t].pc = "use_lock" /\ call'[t].h = h /\ call'[t].p = mounted[h]
        /\ call'[t].o = None
        /\ \A u \in Tasks : u # t => call'[u] = call[u]
    BY DEF Use, TypeOK, Idle, IdleInv
  <1>1. TypeOK'
    BY CallTypes DEF Use, TypeOK, Pcs, Idle, IdleInv, MountInv, InMount, UnmountInv,
       UseInv
  <1>2. TableInv'
    BY <1>0, CallTypes DEF Use, TableInv, LockedPcs, Pcs
  <1>3. IdleInv'
    BY <1>0, CallTypes DEF IdleInv, Idle
  <1>4. MountInv'
    BY <1>0, CallTypes DEF Use, MountInv, InMount, EntryInv, TypeOK, TableInv,
       LockedPcs, UnmountInv
  <1>5. UseInv'
    BY <1>0, CallTypes DEF Use, UseInv, TypeOK, ExclusiveInv, EntryInv, MountInv,
       InMount
  <1>6. UnmountInv'
    BY <1>0, CallTypes DEF Use, UnmountInv, TypeOK, ExclusiveInv, EntryInv, MountInv,
       InMount
  <1>7. ExclusiveInv'
    <2> SUFFICES ASSUME NEW u \in Tasks, NEW v \in Tasks, u # v, call'[u].h # None,
                        call'[u].h = call'[v].h
                 PROVE  call'[u].pc \in UsePcs
      BY DEF ExclusiveInv
    <2>1. CASE u # t /\ v # t
      BY <1>0, <2>1 DEF ExclusiveInv
    <2>2. CASE u = t
      BY <1>0, <2>2 DEF Use, ExclusiveInv
    <2>3. CASE v = t
      BY <1>0, <2>3, ZenonT(60) DEF Use, ExclusiveInv
    <2> QED BY <2>1, <2>2, <2>3
  <1>8. EntryInv'
    BY <1>0, CallTypes DEF Use, EntryInv, Cleared, MountInv, InMount, TypeOK,
       TableInv, LockedPcs, UnmountInv, ExclusiveInv
  <1>9. HeapInv'
    BY <1>0, CallTypes DEF Use, HeapInv, EntryInv, Cleared, MountInv, InMount, TypeOK,
       UnmountInv
  <1> QED BY <1>1, <1>2, <1>3, <1>4, <1>5, <1>6, <1>7, <1>8, <1>9

(* The entry checked before is still the one the call finds under its lock.  *)
LEMMA UseLockKeeps ==
  ASSUME IInv, NEW t \in Tasks, UseLock(t)
  PROVE  IInv'
  <1> USE NoneAssumption, HandlesAssumption, FailsAssumption
      DEF IInv, MountPcs, UsePcs, UnmountPcs
  <1>0. /\ call'[t].pc = "use" /\ call'[t].h = call[t].h /\ call'[t].p = call[t].p
        /\ call'[t].o = instance[call[t].h]
        /\ \A u \in Tasks : u # t => call'[u] = call[u]
    BY DEF UseLock, TypeOK, Idle, IdleInv
  <1>1. TypeOK'
    <2>1. call \in [Tasks -> Calls]
      BY Zenon DEF TypeOK, Calls, Pcs
    <2>2. instance[call[t].h] \in Objects \cup {None}
      BY CallTypes DEF UseLock, UseInv, TypeOK
    <2>3. call' \in [Tasks -> Calls]
      BY <2>1, <2>2, SetPcO, "use" \in Pcs DEF UseLock, Pcs
    <2> QED BY <2>3, CallTypes DEF UseLock, TypeOK, Calls, Pcs
  <1>2. TableInv'
    BY <1>0, CallTypes DEF UseLock, TableInv, LockedPcs, Pcs
  <1>3. IdleInv'
    BY <1>0, CallTypes DEF IdleInv, Idle
  <1>4. MountInv'
    BY <1>0, CallTypes DEF UseLock, MountInv, InMount, EntryInv, TypeOK, TableInv,
       LockedPcs, UnmountInv
  <1>5. UseInv'
    BY <1>0, CallTypes DEF UseLock, UseInv, TypeOK, ExclusiveInv, EntryInv, MountInv,
       InMount
  <1>6. UnmountInv'
    BY <1>0, CallTypes DEF UseLock, UnmountInv, TypeOK, ExclusiveInv, EntryInv,
       MountInv, InMount
  <1>7. ExclusiveInv'
    <2> SUFFICES ASSUME NEW u \in Tasks, NEW v \in Tasks, u # v, call'[u].h # None,
                        call'[u].h = call'[v].h
                 PROVE  call'[u].pc \in UsePcs
      BY DEF ExclusiveInv
    <2>1. CASE u # t /\ v # t
      BY <1>0, <2>1 DEF ExclusiveInv
    <2>2. CASE u = t
      BY <1>0, <2>2 DEF UseLock, ExclusiveInv
    <2>3. CASE v = t
      BY <1>0, <2>3, ZenonT(60) DEF UseLock, ExclusiveInv
    <2> QED BY <2>1, <2>2, <2>3
  <1>8. EntryInv'
    <2>1. \A h \in Handles : Cleared(h)' <=> Cleared(h)
      BY <1>0 DEF UseLock, Cleared
    <2> QED BY <2>1 DEF UseLock, EntryInv
  <1>9. HeapInv'
    <2>1. \A u \in Tasks : InMount(u) => InMount(u)' /\ call'[u].o = call[u].o
      BY <1>0 DEF UseLock, InMount
    <2> QED BY <2>1 DEF UseLock, HeapInv
  <1> QED BY <1>1, <1>2, <1>3, <1>4, <1>5, <1>6, <1>7, <1>8, <1>9

(* A data call ends.                                                         *)
LEMMA UseDoneKeeps ==
  ASSUME IInv, NEW t \in Tasks, UseDone(t)
  PROVE  IInv'
  <1> USE NoneAssumption, HandlesAssumption, FailsAssumption
      DEF IInv, MountPcs, UsePcs, UnmountPcs
  <1>0. /\ call'[t].pc = "idle" /\ call'[t].h = None /\ call'[t].p = None
        /\ call'[t].o = None
        /\ \A u \in Tasks : u # t => call'[u] = call[u]
    BY DEF UseDone, TypeOK, Idle, IdleInv
  <1>1. TypeOK'
    BY CallTypes DEF UseDone, TypeOK, Pcs, Idle, IdleInv, MountInv, InMount,
       UnmountInv, UseInv
  <1>2. TableInv'
    BY <1>0, CallTypes DEF UseDone, TableInv, LockedPcs, Pcs
  <1>3. IdleInv'
    BY <1>0, CallTypes DEF UseDone, TypeOK, IdleInv, Idle
  <1>4. MountInv'
    BY <1>0, CallTypes DEF UseDone, MountInv, InMount, EntryInv, TypeOK, TableInv,
       LockedPcs, UnmountInv
  <1>5. UseInv'
    BY <1>0, CallTypes DEF UseDone, UseInv, TypeOK, ExclusiveInv, EntryInv, MountInv,
       InMount
  <1>6. UnmountInv'
    BY <1>0, CallTypes DEF UseDone, UnmountInv, TypeOK, ExclusiveInv, EntryInv,
       MountInv, InMount
  <1>7. ExclusiveInv'
    <2> SUFFICES ASSUME NEW u \in Tasks, NEW v \in Tasks, u # v, call'[u].h # None,
                        call'[u].h = call'[v].h
                 PROVE  call'[u].pc \in UsePcs
      BY DEF ExclusiveInv
    <2>1. CASE u # t /\ v # t
      BY <1>0, <2>1 DEF ExclusiveInv
    <2>2. CASE u = t
      BY <1>0, <2>2 DEF UseDone, ExclusiveInv
    <2>3. CASE v = t
      BY <1>0, <2>3 DEF UseDone, ExclusiveInv
    <2> QED BY <2>1, <2>2, <2>3
  <1>8. EntryInv'
    BY <1>0, CallTypes DEF UseDone, EntryInv, Cleared, MountInv, InMount, TypeOK,
       TableInv, LockedPcs, UnmountInv, ExclusiveInv
  <1>9. HeapInv'
    BY <1>0, CallTypes DEF UseDone, HeapInv, EntryInv, Cleared, MountInv, InMount,
       TypeOK, UnmountInv
  <1> QED BY <1>1, <1>2, <1>3, <1>4, <1>5, <1>6, <1>7, <1>8, <1>9

(* An unmount begins on a handle that nobody uses.                           *)
LEMMA UnmountKeeps ==
  ASSUME IInv, NEW t \in Tasks, NEW h \in Handles, Unmount(t, h)
  PROVE  IInv'
  <1> USE NoneAssumption, HandlesAssumption, FailsAssumption
      DEF IInv, MountPcs, UsePcs, UnmountPcs
  <1>0. /\ call'[t].pc = "unmount" /\ call'[t].h = h /\ call'[t].p = None
        /\ call'[t].o = None
        /\ \A u \in Tasks : u # t => call'[u] = call[u]
    BY DEF Unmount, TypeOK, Idle, IdleInv
  <1>1. TypeOK'
    BY CallTypes DEF Unmount, TypeOK, Pcs, Idle, IdleInv, MountInv, InMount,
       UnmountInv, UseInv
  <1>2. TableInv'
    BY <1>0, CallTypes DEF Unmount, TableInv, LockedPcs, Pcs
  <1>3. IdleInv'
    BY <1>0, CallTypes DEF IdleInv, Idle
  <1>4. MountInv'
    BY <1>0, CallTypes DEF Unmount, MountInv, InMount, EntryInv, TypeOK, TableInv,
       LockedPcs, UnmountInv
  <1>5. UseInv'
    BY <1>0, CallTypes DEF Unmount, UseInv, TypeOK, ExclusiveInv, EntryInv, MountInv,
       InMount
  <1>6. UnmountInv'
    BY <1>0, CallTypes DEF Unmount, UnmountInv, TypeOK, ExclusiveInv, EntryInv,
       MountInv, InMount
  <1>7. ExclusiveInv'
    <2> SUFFICES ASSUME NEW u \in Tasks, NEW v \in Tasks, u # v, call'[u].h # None,
                        call'[u].h = call'[v].h
                 PROVE  call'[u].pc \in UsePcs
      BY DEF ExclusiveInv
    <2>1. CASE u # t /\ v # t
      BY <1>0, <2>1 DEF ExclusiveInv
    <2>2. CASE u = t
      BY <1>0, <2>2, ZenonT(60) DEF Unmount, ExclusiveInv
    <2>3. CASE v = t
      BY <1>0, <2>3, ZenonT(60) DEF Unmount, ExclusiveInv
    <2> QED BY <2>1, <2>2, <2>3
  <1>8. EntryInv'
    BY <1>0, CallTypes DEF Unmount, EntryInv, Cleared, MountInv, InMount, TypeOK,
       TableInv, LockedPcs, UnmountInv, ExclusiveInv
  <1>9. HeapInv'
    BY <1>0, CallTypes DEF Unmount, HeapInv, EntryInv, Cleared, MountInv, InMount,
       TypeOK, UnmountInv
  <1> QED BY <1>1, <1>2, <1>3, <1>4, <1>5, <1>6, <1>7, <1>8, <1>9

(* wl_unmount takes the table lock.                                          *)
LEMMA UnmountBeginKeeps ==
  ASSUME IInv, NEW t \in Tasks, UnmountBegin(t)
  PROVE  IInv'
  <1> USE NoneAssumption, HandlesAssumption, FailsAssumption
      DEF IInv, MountPcs, UsePcs, UnmountPcs
  <1>0. /\ call'[t].pc = "flush" /\ call'[t].h = call[t].h /\ call'[t].p = call[t].p
        /\ call'[t].o = instance[call[t].h]
        /\ \A u \in Tasks : u # t => call'[u] = call[u]
    BY DEF UnmountBegin, TypeOK, Idle, IdleInv
  <1>1. TypeOK'
    <2>1. call \in [Tasks -> Calls]
      BY Zenon DEF TypeOK, Calls, Pcs
    <2>2. instance[call[t].h] \in Objects \cup {None}
      BY CallTypes DEF UnmountBegin, UnmountInv, TypeOK
    <2>3. call' \in [Tasks -> Calls]
      BY <2>1, <2>2, SetPcO, "flush" \in Pcs DEF UnmountBegin, Pcs
    <2> QED BY <2>3, CallTypes DEF UnmountBegin, TypeOK, Calls, Pcs
  <1>2. TableInv'
    BY <1>0, CallTypes DEF UnmountBegin, TableInv, LockedPcs, Pcs
  <1>3. IdleInv'
    BY <1>0, CallTypes DEF IdleInv, Idle
  <1>4. MountInv'
    BY <1>0, CallTypes DEF UnmountBegin, MountInv, InMount, EntryInv, TypeOK,
       TableInv, LockedPcs, UnmountInv
  <1>5. UseInv'
    BY <1>0, CallTypes DEF UnmountBegin, UseInv, TypeOK, ExclusiveInv, EntryInv,
       MountInv, InMount
  <1>6. UnmountInv'
    BY <1>0, CallTypes DEF UnmountBegin, UnmountInv, TypeOK, ExclusiveInv, EntryInv,
       MountInv, InMount
  <1>7. ExclusiveInv'
    <2> SUFFICES ASSUME NEW u \in Tasks, NEW v \in Tasks, u # v, call'[u].h # None,
                        call'[u].h = call'[v].h
                 PROVE  call'[u].pc \in UsePcs
      BY DEF ExclusiveInv
    <2>1. CASE u # t /\ v # t
      BY <1>0, <2>1 DEF ExclusiveInv
    <2>2. CASE u = t
      BY <1>0, <2>2, ZenonT(60) DEF UnmountBegin, ExclusiveInv
    <2>3. CASE v = t
      BY <1>0, <2>3, ZenonT(60) DEF UnmountBegin, ExclusiveInv
    <2> QED BY <2>1, <2>2, <2>3
  <1>8. EntryInv'
    <2>1. \A h \in Handles : Cleared(h)' <=> Cleared(h)
      BY <1>0 DEF UnmountBegin, Cleared
    <2> QED BY <2>1 DEF UnmountBegin, EntryInv
  <1>9. HeapInv'
    <2>1. \A u \in Tasks : InMount(u) => InMount(u)' /\ call'[u].o = call[u].o
      BY <1>0 DEF UnmountBegin, InMount
    <2> QED BY <2>1 DEF UnmountBegin, HeapInv
  <1> QED BY <1>1, <1>2, <1>3, <1>4, <1>5, <1>6, <1>7, <1>8, <1>9

(* The object that wl_unmount destroys is the one of its entry.              *)
LEMMA UnmountFreeKeeps ==
  ASSUME IInv, NEW t \in Tasks, UnmountFree(t)
  PROVE  IInv'
  <1> USE NoneAssumption, HandlesAssumption, FailsAssumption
      DEF IInv, MountPcs, UsePcs, UnmountPcs
  <1>0. /\ call'[t].pc = "clear" /\ call'[t].h = call[t].h /\ call'[t].p = call[t].p
        /\ call'[t].o = call[t].o
        /\ \A u \in Tasks : u # t => call'[u] = call[u]
    BY DEF UnmountFree, TypeOK, Idle, IdleInv
  <1>1. TypeOK'
    <2>1. call \in [Tasks -> Calls]
      BY Zenon DEF TypeOK, Calls, Pcs
    <2>3. call' \in [Tasks -> Calls]
      BY <2>1, SetPc, "clear" \in Pcs DEF UnmountFree, Pcs
    <2> QED BY <2>3, CallTypes DEF UnmountFree, TypeOK, Calls, Pcs, UnmountInv
  <1>2. TableInv'
    BY <1>0, CallTypes DEF UnmountFree, TableInv, LockedPcs, Pcs
  <1>3. IdleInv'
    BY <1>0, CallTypes DEF IdleInv, Idle
  <1>4. MountInv'
    BY <1>0, CallTypes DEF UnmountFree, MountInv, InMount, EntryInv, TypeOK, TableInv,
       LockedPcs, UnmountInv
  <1>5. UseInv'
    BY <1>0, CallTypes DEF UnmountFree, UseInv, TypeOK, ExclusiveInv, EntryInv,
       MountInv, InMount
  <1>6. UnmountInv'
    BY <1>0, CallTypes DEF UnmountFree, UnmountInv, TypeOK, ExclusiveInv, EntryInv,
       MountInv, InMount
  <1>7. ExclusiveInv'
    <2> SUFFICES ASSUME NEW u \in Tasks, NEW v \in Tasks, u # v, call'[u].h # None,
                        call'[u].h = call'[v].h
                 PROVE  call'[u].pc \in UsePcs
      BY DEF ExclusiveInv
    <2>1. CASE u # t /\ v # t
      BY <1>0, <2>1 DEF ExclusiveInv
    <2>2. CASE u = t
      BY <1>0, <2>2 DEF UnmountFree, ExclusiveInv
    <2>3. CASE v = t
      BY <1>0, <2>3 DEF UnmountFree, ExclusiveInv
    <2> QED BY <2>1, <2>2, <2>3
  <1>8. EntryInv'
    BY <1>0, CallTypes DEF UnmountFree, EntryInv, Cleared, MountInv, InMount, TypeOK,
       TableInv, LockedPcs, UnmountInv, ExclusiveInv
  <1>9. HeapInv'
    BY <1>0, CallTypes DEF UnmountFree, HeapInv, EntryInv, Cleared, MountInv, InMount,
       TypeOK, UnmountInv
  <1> QED BY <1>1, <1>2, <1>3, <1>4, <1>5, <1>6, <1>7, <1>8, <1>9

(* wl_unmount clears its entry.                                              *)
LEMMA UnmountClearKeeps ==
  ASSUME IInv, NEW t \in Tasks, UnmountClear(t)
  PROVE  IInv'
  <1> USE NoneAssumption, HandlesAssumption, FailsAssumption
      DEF IInv, MountPcs, UsePcs, UnmountPcs
  <1>0. /\ call'[t].pc = "idle" /\ call'[t].h = None /\ call'[t].p = None
        /\ call'[t].o = None
        /\ \A u \in Tasks : u # t => call'[u] = call[u]
    BY DEF UnmountClear, TypeOK, Idle, IdleInv
  <1>1. TypeOK'
    BY CallTypes DEF UnmountClear, TypeOK, Pcs, Idle, IdleInv, MountInv, InMount,
       UnmountInv, UseInv
  <1>2. TableInv'
    BY <1>0, CallTypes DEF UnmountClear, TableInv, LockedPcs, Pcs
  <1>3. IdleInv'
    BY <1>0, CallTypes DEF UnmountClear, TypeOK, IdleInv, Idle
  <1>4. MountInv'
    BY <1>0, CallTypes DEF UnmountClear, MountInv, InMount, EntryInv, TypeOK,
       TableInv, LockedPcs, UnmountInv
  <1>5. UseInv'
    BY <1>0, CallTypes DEF UnmountClear, UseInv, TypeOK, ExclusiveInv, EntryInv,
       MountInv, InMount
  <1>6. UnmountInv'
    BY <1>0, CallTypes DEF UnmountClear, UnmountInv, TypeOK, ExclusiveInv, EntryInv,
       MountInv, InMount
  <1>7. ExclusiveInv'
    <2> SUFFICES ASSUME NEW u \in Tasks, NEW v \in Tasks, u # v, call'[u].h # None,
                        call'[u].h = call'[v].h
                 PROVE  call'[u].pc \in UsePcs
      BY DEF ExclusiveInv
    <2>1. CASE u # t /\ v # t
      BY <1>0, <2>1 DEF ExclusiveInv
    <2>2. CASE u = t
      BY <1>0, <2>2 DEF UnmountClear, ExclusiveInv
    <2>3. CASE v = t
      BY <1>0, <2>3 DEF UnmountClear, ExclusiveInv
    <2> QED BY <2>1, <2>2, <2>3
  <1>8. EntryInv'
    BY <1>0, CallTypes DEF UnmountClear, EntryInv, Cleared, MountInv, InMount, TypeOK,
       TableInv, LockedPcs, UnmountInv, ExclusiveInv
  <1>9. HeapInv'
    BY <1>0, CallTypes DEF UnmountClear, HeapInv, EntryInv, Cleared, MountInv,
       InMount, TypeOK, UnmountInv
  <1> QED BY <1>1, <1>2, <1>3, <1>4, <1>5, <1>6, <1>7, <1>8, <1>9

(* The entry that wl_mount takes is a free one.                              *)
LEMMA FirstFree ==
  ASSUME NEW free \in SUBSET Handles, free # {}
  PROVE  (CHOOSE h \in free : \A g \in free : h <= g) \in free
  <1>1. free \subseteq Nat
    BY HandlesAssumption DEF Handles
  <1>2. \A m, k \in Nat : <<m, k>> \notin OpToRel(<, Nat) => k <= m
    BY DEF OpToRel
  <1>3. PICK h \in free : \A g \in free : ~(<<g, h>> \in OpToRel(<, Nat))
    BY <1>1, NatLessThanWellFounded, WFMin
  <1>4. \A g \in free : h <= g
    BY <1>1, <1>2, <1>3, Zenon
  <1> QED BY <1>4, Zenon

(* wl_mount begins: it is refused, fails to allocate, or has a free entry    *)
(* and a fresh object.                                                       *)
LEMMA MountKeeps ==
  ASSUME IInv, NEW t \in Tasks, NEW p \in Partitions, Mount(t, p)
  PROVE  IInv'
  <1> USE NoneAssumption, FailsAssumption DEF IInv, MountPcs, UsePcs, UnmountPcs
  <1>1. /\ call[t] = Idle /\ tableLock = None /\ tableLock' = t
        /\ \A u \in Tasks : call[u].p # p
        /\ \A h \in Handles : mounted[h] # p
        /\ UNCHANGED <<instance, lock, mounted>>
    BY DEF Mount
  <1>2. \A u \in Tasks : call[u].pc \notin LockedPcs
    BY <1>1 DEF TableInv
  <1>3. CASE call' = [call EXCEPT ![t] = MountRefused(p)] /\ heap' = heap /\ fails' \in 0 .. MaxFails
    <2>1. /\ call'[t].pc = "mount_fail" /\ call'[t].h = None /\ call'[t].p = p
          /\ call'[t].o = None
          /\ \A u \in Tasks : u # t => call'[u] = call[u]
      BY <1>3 DEF MountRefused, Idle, TypeOK
    <2>2. TypeOK'
      BY <1>1, <1>3 DEF TypeOK, MountRefused, Idle
    <2>3. TableInv' /\ IdleInv' /\ UseInv' /\ UnmountInv' /\ ExclusiveInv'
      BY <1>1, <1>2, <2>1 DEF TableInv, IdleInv, Idle, LockedPcs, UseInv, UnmountInv, ExclusiveInv
    <2>4. MountInv'
      BY <1>1, <1>3, <2>1 DEF MountInv, InMount
    <2>5. EntryInv'
      BY <1>1, <1>2, <1>3, <2>1 DEF EntryInv, Cleared, LockedPcs
    <2>6. HeapInv'
      BY <1>1, <1>3, <2>1 DEF HeapInv, InMount, Idle
    <2> QED BY <2>2, <2>3, <2>4, <2>5, <2>6
  <1>4. ASSUME NEW o \in Objects, NEW h \in Handles, heap[o] = None, instance[h] = None,
               heap' = [heap EXCEPT ![o] = p], fails' = fails,
               call' = [call EXCEPT ![t] = [pc |-> "mount_init", h |-> h, p |-> p, o |-> o]]
        PROVE  IInv'
    <2>1. /\ call'[t].pc = "mount_init" /\ call'[t].h = h /\ call'[t].p = p
          /\ call'[t].o = o
          /\ \A u \in Tasks : u # t => call'[u] = call[u]
      BY <1>4 DEF TypeOK
    <2>2. TypeOK'
      BY <1>1, <1>4 DEF TypeOK
    <2>3. TableInv' /\ IdleInv' /\ UseInv' /\ UnmountInv'
      BY <1>1, <1>2, <2>1 DEF TableInv, IdleInv, LockedPcs, UseInv, UnmountInv
    <2>4. \A u \in Tasks : call[u].h # h
      <3> SUFFICES ASSUME NEW u \in Tasks, call[u].h = h PROVE FALSE
        OBVIOUS
      <3>1. h # None
        BY HandlesAssumption DEF Handles
      <3>2. mounted[h] = None
        BY <1>4 DEF EntryInv
      <3>3. call[u].pc \in UsePcs \/ call[u].pc \in UnmountPcs \/ InMount(u) \/ call[u].pc = "idle"
        BY CallTypes DEF InMount, Pcs
      <3> QED
        BY <1>2, <3>1, <3>2, <3>3 DEF UseInv, UnmountInv, MountInv, InMount, IdleInv, Idle, LockedPcs
    <2>5. ExclusiveInv'
      BY <2>1, <2>4 DEF ExclusiveInv
    <2>6. \A g \in Handles : instance[g] # None => heap[instance[g]] # None
      BY <1>2 DEF EntryInv, Cleared, LockedPcs
    <2>7. MountInv'
      <3>1. \A g \in Handles : instance[g] # o
        BY <1>4, <2>6
      <3>2. \A u \in Tasks : InMount(u)' <=> (u = t \/ InMount(u))
        BY <1>1, <2>1 DEF InMount, Idle
      <3>3. heap'[o] = p /\ \A q \in Objects : heap[q] # None => heap'[q] = heap[q]
        BY <1>4 DEF TypeOK
      <3>4. ASSUME NEW u \in Tasks, InMount(u), call[u].o # None
            PROVE  heap'[call[u].o] = heap[call[u].o]
        BY <3>3, <3>4, CallTypes DEF MountInv
      <3>5. ASSUME NEW u \in Tasks, InMount(u), u # t
            PROVE  /\ call[u].p # None /\ call[u].p # p
                   /\ \A g \in Handles : mounted[g] # call[u].p
                   /\ call[u].o # None => /\ heap'[call[u].o] = call[u].p
                                          /\ \A g \in Handles : instance[g] # call[u].o
                   /\ call[u].pc # "mount_init" /\ call[u].h = None
        BY <1>1, <1>2, <3>4, <3>5 DEF MountInv, LockedPcs
      <3>6. ASSUME NEW u \in Tasks, InMount(u)', NEW v \in Tasks, InMount(v)',
                   call'[u].p = call'[v].p
            PROVE  u = v
        BY <2>1, <3>2, <3>5, <3>6 DEF MountInv
      <3> HIDE DEF MountPcs
      <3>7. ASSUME NEW u \in Tasks, InMount(u)'
            PROVE  /\ call'[u].p # None
                   /\ \A g \in Handles : mounted[g] # call'[u].p
                   /\ call'[u].o # None => /\ heap'[call'[u].o] = call'[u].p
                                           /\ \A g \in Handles : instance[g] # call'[u].o
                   /\ IF call'[u].pc = "mount_init"
                      THEN call'[u].o # None /\ call'[u].h # None /\ instance[call'[u].h] = None
                      ELSE call'[u].h = None
        <4>1. CASE u = t
          BY <1>1, <1>4, <2>1, <3>1, <3>3, <4>1, HandlesAssumption DEF Handles
        <4>2. CASE u # t
          BY <2>1, <3>2, <3>5, <3>7, <4>2
        <4> QED BY <4>1, <4>2
      <3> QED BY <1>1, <3>6, <3>7 DEF MountInv
    <2>8. EntryInv'
      BY <1>1, <1>2, <1>4, <2>1, <2>6 DEF EntryInv, Cleared, LockedPcs, TypeOK
    <2>9. HeapInv'
      BY <1>1, <1>4, <2>1 DEF HeapInv, InMount, Idle, TypeOK
    <2> QED BY <2>2, <2>3, <2>5, <2>7, <2>8, <2>9
  <1>5. FreeEntries # {} => (CHOOSE h \in FreeEntries : \A g \in FreeEntries : h <= g) \in FreeEntries
    BY FirstFree DEF FreeEntries
  <1>6. CASE call' = [call EXCEPT ![t] = MountRefused(p)] /\ UNCHANGED heap
    <2>1. fails' = fails \/ (fails < MaxFails /\ fails' = fails + 1)
      BY DEF Mount
    <2>2. fails' \in 0 .. MaxFails
      BY <2>1 DEF TypeOK
    <2> QED BY <1>3, <1>6, <2>2
  <1>7. CASE ~(call' = [call EXCEPT ![t] = MountRefused(p)] /\ UNCHANGED heap)
    <2> DEFINE first == CHOOSE h \in FreeEntries : \A g \in FreeEntries : h <= g
    <2>1. PICK o \in Objects :
            /\ FreeEntries # {} /\ heap[o] = None
            /\ heap' = [heap EXCEPT ![o] = p]
            /\ call' = [call EXCEPT ![t] = [pc |-> "mount_init", h |-> first, p |-> p, o |-> o]]
            /\ UNCHANGED fails
      BY <1>7 DEF Mount
    <2>2. first \in Handles /\ instance[first] = None
      BY <1>5, <2>1 DEF FreeEntries
    <2> HIDE DEF first
    <2> QED BY <1>4, <2>1, <2>2
  <1> QED BY <1>6, <1>7

(* Each step keeps the inductive invariant.                                  *)
LEMMA StepKeeps == IInv /\ [Next]_vars => IInv'
  <1> SUFFICES ASSUME IInv, [Next]_vars PROVE IInv'
    OBVIOUS
  <1>1. CASE UNCHANGED vars
    BY <1>1 DEF vars, IInv, TypeOK, TableInv, IdleInv, MountInv, UseInv, UnmountInv,
       ExclusiveInv, EntryInv, HeapInv, InMount, Cleared
  <1>2. ASSUME NEW t \in Tasks, NEW p \in Partitions, Mount(t, p) PROVE IInv'
    BY <1>2, MountKeeps
  <1>3. ASSUME NEW t \in Tasks, NEW h \in Handles, Use(t, h) \/ Unmount(t, h) PROVE IInv'
    BY <1>3, UseKeeps, UnmountKeeps
  <1>4. ASSUME NEW t \in Tasks, Waits(t) PROVE IInv'
    BY <1>4, UseLockKeeps, UnmountBeginKeeps DEF Waits
  <1>5. ASSUME NEW t \in Tasks, Runs(t) PROVE IInv'
    BY <1>5, MountInitKeeps, MountInitFailsKeeps, MountFailKeeps, MountFreeKeeps,
       UseDoneKeeps, UnmountFreeKeeps, UnmountClearKeeps DEF Runs
  <1> QED BY <1>1, <1>2, <1>3, <1>4, <1>5 DEF Next

(* IInv holds in every reachable state.                                      *)
LEMMA Inductive == Spec => []IInv
  <1>1. Init => IInv
    <2> SUFFICES ASSUME Init PROVE IInv
      OBVIOUS
    <2> USE NoneAssumption, FailsAssumption
    <2>1. \A t \in Tasks : call[t].pc = "idle" /\ call[t].h = None /\ call[t] = Idle
      BY DEF Init, Idle
    <2>2. TypeOK
      BY DEF Init, Idle, TypeOK
    <2> QED
      BY <2>1, <2>2 DEF Init, IInv, TableInv, IdleInv, MountInv, UseInv, UnmountInv,
         ExclusiveInv, EntryInv, HeapInv, InMount, MountPcs, UsePcs, UnmountPcs, LockedPcs
  <1> QED BY <1>1, StepKeeps, PTL DEF Spec

-------------------------------------------------------------------------------
(* The types of the variables.                                               *)
THEOREM TypeCorrect == Spec => []TypeOK
  <1>1. IInv => TypeOK
    BY DEF IInv
  <1> QED BY <1>1, Inductive, PTL

(* However many tasks call, one at most is inside the WL_Flash code of a     *)
(* partition: a mount, a data call or the flush of an unmount.               *)
THEOREM AlwaysOneDriver == Spec => []OneDriver
  <1>1. IInv => OneDriver
    <2> SUFFICES ASSUME IInv, NEW t \in Tasks, NEW u \in Tasks, NEW p \in Partitions,
                        Driving(t), Driving(u), heap[call[t].o] = p, heap[call[u].o] = p
                 PROVE  t = u
      BY DEF OneDriver
    <2> USE NoneAssumption DEF IInv, Driving, MountPcs, UsePcs, UnmountPcs
    <2>1. ASSUME NEW v \in Tasks, call[v].pc \in {"use", "flush"}, heap[call[v].o] = p
          PROVE  call[v].h \in Handles /\ mounted[call[v].h] = p
      BY <2>1, CallTypes DEF UseInv, UnmountInv, EntryInv, TypeOK
    <2>2. ASSUME NEW v \in Tasks, call[v].pc = "mount_init", heap[call[v].o] = p
          PROVE  InMount(v) /\ call[v].p = p /\ \A h \in Handles : mounted[h] # p
      BY <2>2 DEF MountInv, InMount
    <2>3. CASE call[t].pc = "mount_init" \/ call[u].pc = "mount_init"
      BY <2>1, <2>2, <2>3 DEF MountInv
    <2>4. CASE call[t].pc \in {"use", "flush"} /\ call[u].pc \in {"use", "flush"}
      <3>1. call[t].h = call[u].h /\ call[t].h # None
        BY <2>1, <2>4 DEF EntryInv, UseInv, UnmountInv
      <3> QED BY <2>4, <3>1 DEF ExclusiveInv, UseInv
    <2> QED BY <2>3, <2>4
  <1> QED BY <1>1, Inductive, PTL

(* A data call works on the object of the partition that its handle stood    *)
(* for, although handles, entries and heap blocks are reused.                *)
THEOREM AlwaysRightInstance == Spec => []RightInstance
  <1>1. IInv => RightInstance
    <2> SUFFICES ASSUME IInv, NEW t \in Tasks, call[t].pc = "use"
                 PROVE  heap[call[t].o] = call[t].p
      BY DEF RightInstance
    <2>1. /\ call[t].h \in Handles /\ mounted[call[t].h] # None
          /\ call[t].p = mounted[call[t].h] /\ call[t].o = instance[call[t].h]
      BY CallTypes DEF IInv, UseInv, UsePcs
    <2>2. ~Cleared(call[t].h)
      BY <2>1, NoneAssumption, HandlesAssumption DEF IInv, ExclusiveInv, Cleared, UsePcs, Handles
    <2> QED BY <2>1, <2>2 DEF IInv, EntryInv
  <1> QED BY <1>1, Inductive, PTL

(* With no mount or unmount in progress the table and the heap agree:        *)
(* nothing is leaked, nothing is in two entries.                             *)
THEOREM AlwaysNoLeak == Spec => []NoLeak
  <1>1. IInv => NoLeak
    <2> SUFFICES ASSUME IInv, \A t \in Tasks : call[t].pc \in {"idle"} \cup UsePcs
                 PROVE  /\ {o \in Objects : heap[o] # None} = {instance[h] : h \in Handles} \ {None}
                        /\ \A h \in Handles : (instance[h] = None) <=> (mounted[h] = None)
                        /\ \A g, h \in Handles : instance[g] = instance[h] /\ instance[g] # None => g = h
      BY DEF NoLeak
    <2>1. \A o \in Objects : heap[o] # None => \E h \in Handles : instance[h] = o
      BY DEF IInv, HeapInv, InMount, MountPcs, UsePcs
    <2>2. \A h \in Handles : instance[h] # None => instance[h] \in Objects /\ heap[instance[h]] # None
      BY DEF IInv, EntryInv, Cleared, TypeOK, UsePcs
    <2>3. None \notin Objects
      BY NoneAssumption
    <2>4. {o \in Objects : heap[o] # None} = {instance[h] : h \in Handles} \ {None}
      BY <2>1, <2>2, <2>3
    <2> QED BY <2>4 DEF IInv, EntryInv
  <1> QED BY <1>1, Inductive, PTL
===============================================================================
