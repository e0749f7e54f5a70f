-------------------------------- MODULE WL_Api --------------------------------
(***************************************************************************)
(* The handle table of the wear levelling component (components/             *)
(* wear_levelling/wear_levelling.cpp) under concurrent tasks: wl_mount and   *)
(* wl_unmount work under s_instances_lock, the data calls under the lock of  *)
(* their table entry, which they take only after check_handle looked at the  *)
(* entry without any lock.                                                   *)
(*                                                                           *)
(* The component does not protect itself from every order of calls.  The     *)
(* guards marked "client" are the rules its callers keep (FatFs unregisters  *)
(* the drive before wl_unmount): no data call on a handle while it is being  *)
(* unmounted, no second unmount of it, and a partition mounted once.         *)
(***************************************************************************)
EXTENDS Naturals, FiniteSets

CONSTANTS
  Tasks, Partitions,
  Objects,        \* where malloc may place a WL_Flash; blocks are reused
  MAX_WL_HANDLES,
  None,           \* NULL, no owner, WL_INVALID_HANDLE
  MaxFails        \* bound: how often malloc, config or init fails

ASSUME NoneAssumption == None \notin Tasks \cup Partitions \cup Objects \cup Nat
ASSUME HandlesAssumption == MAX_WL_HANDLES \in Nat \ {0}
ASSUME FailsAssumption == MaxFails \in Nat

Handles == 0 .. MAX_WL_HANDLES - 1

VARIABLES
  instance,     \* s_instances[h].instance
  lock,         \* holder of s_instances[h].lock
  tableLock,    \* holder of s_instances_lock
  heap,         \* the partition an allocated WL_Flash drives, None when free
  call,         \* each task's call: where it is, and its local variables
  mounted,      \* history: the partition the client reaches with a handle
  fails

vars == <<instance, lock, tableLock, heap, call, mounted, fails>>

Idle == [pc |-> "idle", h |-> None, p |-> None, o |-> None]

MountPcs   == {"mount_init", "mount_fail", "mount_free"}
UsePcs     == {"use_lock", "use"}
UnmountPcs == {"unmount", "flush", "clear"}

TypeOK ==
  /\ instance \in [Handles -> Objects \cup {None}]
  /\ lock \in [Handles -> Tasks \cup {None}]
  /\ tableLock \in Tasks \cup {None}
  /\ heap \in [Objects -> Partitions \cup {None}]
  /\ call \in [Tasks -> [pc : {"idle"} \cup MountPcs \cup UsePcs \cup UnmountPcs,
                         h : Handles \cup {None}, p : Partitions \cup {None},
                         o : Objects \cup {None}]]
  /\ mounted \in [Handles -> Partitions \cup {None}]
  /\ fails \in 0 .. MaxFails

Init ==
  /\ instance = [h \in Handles |-> None] /\ lock = [h \in Handles |-> None]
  /\ tableLock = None
  /\ heap = [o \in Objects |-> None]
  /\ call = [t \in Tasks |-> Idle]
  /\ mounted = [h \in Handles |-> None]
  /\ fails = 0

-------------------------------------------------------------------------------
MountRefused(p) == [Idle EXCEPT !.pc = "mount_fail", !.p = p]

(* Mutant: an entry counts as free while nobody holds its lock.              *)
FreeEntriesUnlocked == {h \in Handles : lock[h] = None}

FreeEntries == {h \in Handles : instance[h] = None}

(* wl_mount, up to config(): the first free entry and a new WL_Flash, or     *)
(* neither.                                                                  *)
Mount(t, p) ==
  /\ call[t] = Idle
  /\ \A u \in Tasks : call[u].p # p                                  \* client
  /\ \A h \in Handles : mounted[h] # p                               \* client
  /\ tableLock = None /\ tableLock' = t
  /\ LET free == FreeEntries
         first == CHOOSE h \in free : \A g \in free : h <= g
     IN  \/ /\ free = {}
            /\ call' = [call EXCEPT ![t] = MountRefused(p)] /\ UNCHANGED <<heap, fails>>
         \/ /\ free # {} /\ fails < MaxFails /\ fails' = fails + 1
            /\ call' = [call EXCEPT ![t] = MountRefused(p)] /\ UNCHANGED heap
         \/ \E o \in Objects :
              /\ free # {} /\ heap[o] = None
              /\ heap' = [heap EXCEPT ![o] = p]
              /\ call' = [call EXCEPT ![t] = [pc |-> "mount_init", h |-> first, p |-> p, o |-> o]]
              /\ UNCHANGED fails
  /\ UNCHANGED <<instance, lock, mounted>>

(* init() succeeded: the entry is filled, its lock made, the table released. *)
MountInit(t) ==
  /\ call[t].pc = "mount_init"
  /\ instance' = [instance EXCEPT ![call[t].h] = call[t].o]
  /\ lock' = [lock EXCEPT ![call[t].h] = None]
  /\ mounted' = [mounted EXCEPT ![call[t].h] = call[t].p]
  /\ tableLock' = None
  /\ call' = [call EXCEPT ![t] = Idle]
  /\ UNCHANGED <<heap, fails>>

MountInitFails(t) ==
  /\ call[t].pc = "mount_init" /\ fails < MaxFails /\ fails' = fails + 1
  /\ call' = [call EXCEPT ![t].pc = "mount_fail", ![t].h = None]
  /\ UNCHANGED <<instance, lock, tableLock, heap, mounted>>

(* The label "out": the table is released before the objects are freed.      *)
MountFail(t) ==
  /\ call[t].pc = "mount_fail"
  /\ tableLock' = None
  /\ call' = [call EXCEPT ![t].pc = "mount_free"]
  /\ UNCHANGED <<instance, lock, heap, mounted, fails>>

(* Mutant: the error path forgets the WL_Flash.                              *)
MountFreeNothing(t) ==
  /\ call[t].pc = "mount_free"
  /\ call' = [call EXCEPT ![t] = Idle]
  /\ UNCHANGED <<instance, lock, tableLock, heap, mounted, fails>>

MountFree(t) ==
  /\ call[t].pc = "mount_free"
  /\ heap' = [o \in Objects |-> IF o = call[t].o THEN None ELSE heap[o]]
  /\ call' = [call EXCEPT ![t] = Idle]
  /\ UNCHANGED <<instance, lock, tableLock, mounted, fails>>

-------------------------------------------------------------------------------
(* wl_erase_range, wl_write, wl_read, wl_size, wl_sector_size: check_handle, *)
(* the entry's lock, the call through the instance pointer, the release.     *)
Use(t, h) ==
  /\ call[t] = Idle
  /\ mounted[h] # None                                               \* client
  /\ \A u \in Tasks : call[u].h = h => call[u].pc \in UsePcs         \* client
  /\ instance[h] # None
  /\ call' = [call EXCEPT ![t].pc = "use_lock", ![t].h = h, ![t].p = mounted[h]]
  /\ UNCHANGED <<instance, lock, tableLock, heap, mounted, fails>>

(* Mutant: the entry's lock is not waited for.                               *)
UseLockedAnyway(t) ==
  /\ call[t].pc = "use_lock"
  /\ lock' = [lock EXCEPT ![call[t].h] = t]
  /\ call' = [call EXCEPT ![t].pc = "use", ![t].o = instance[call[t].h]]
  /\ UNCHANGED <<instance, tableLock, heap, mounted, fails>>

UseLock(t) ==
  /\ call[t].pc = "use_lock" /\ lock[call[t].h] = None
  /\ lock' = [lock EXCEPT ![call[t].h] = t]
  /\ call' = [call EXCEPT ![t].pc = "use", ![t].o = instance[call[t].h]]
  /\ UNCHANGED <<instance, tableLock, heap, mounted, fails>>

(* Mutant: an early return keeps the entry's lock.                           *)
UseDoneLocked(t) ==
  /\ call[t].pc = "use"
  /\ call' = [call EXCEPT ![t] = Idle]
  /\ UNCHANGED <<instance, lock, tableLock, heap, mounted, fails>>

UseDone(t) ==
  /\ call[t].pc = "use"
  /\ lock' = [lock EXCEPT ![call[t].h] = None]
  /\ call' = [call EXCEPT ![t] = Idle]
  /\ UNCHANGED <<instance, tableLock, heap, mounted, fails>>

-------------------------------------------------------------------------------
(* wl_unmount waits for the table only; it never takes the entry's lock.     *)
(* Its check_handle cannot fail under the client's rules: a call it refused  *)
(* would stay at "unmount" for ever.                                         *)
Unmount(t, h) ==
  /\ call[t] = Idle
  /\ mounted[h] # None                                               \* client
  /\ \A u \in Tasks : call[u].h # h                                  \* client
  /\ call' = [call EXCEPT ![t].pc = "unmount", ![t].h = h]
  /\ UNCHANGED <<instance, lock, tableLock, heap, mounted, fails>>

UnmountBegin(t) ==
  /\ call[t].pc = "unmount"
  /\ tableLock = None /\ tableLock' = t
  /\ instance[call[t].h] # None
  /\ call' = [call EXCEPT ![t].pc = "flush", ![t].o = instance[call[t].h]]
  /\ UNCHANGED <<instance, lock, heap, mounted, fails>>

(* flush(), whose result does not matter here, and the destructors.          *)
UnmountFree(t) ==
  /\ call[t].pc = "flush"
  /\ heap' = [heap EXCEPT ![call[t].o] = None]
  /\ call' = [call EXCEPT ![t].pc = "clear"]
  /\ UNCHANGED <<instance, lock, tableLock, mounted, fails>>

UnmountClear(t) ==
  /\ call[t].pc = "clear"
  /\ instance' = [instance EXCEPT ![call[t].h] = None]
  /\ lock' = [lock EXCEPT ![call[t].h] = None]
  /\ mounted' = [mounted EXCEPT ![call[t].h] = None]
  /\ tableLock' = None
  /\ call' = [call EXCEPT ![t] = Idle]
  /\ UNCHANGED <<heap, fails>>

-------------------------------------------------------------------------------
Waits(t) == UseLock(t) \/ UnmountBegin(t)
Runs(t)  == \/ MountInit(t) \/ MountInitFails(t) \/ MountFail(t) \/ MountFree(t)
            \/ UseDone(t) \/ UnmountFree(t) \/ UnmountClear(t)

Next ==
  \E t \in Tasks :
    \/ \E p \in Partitions : Mount(t, p)
    \/ \E h \in Handles : Use(t, h) \/ Unmount(t, h)
    \/ Waits(t) \/ Runs(t)

Spec == Init /\ [][Next]_vars

(* A task that can run does; a mutex is handed to the task that waited       *)
(* longest among those of its priority, so that none waits for ever.         *)
FairSpec == Spec /\ \A t \in Tasks : WF_vars(Runs(t)) /\ SF_vars(Waits(t))

-------------------------------------------------------------------------------
Driving(t) == call[t].pc \in {"mount_init", "use", "flush"}

(* At any time one task at most runs WL_Flash code on a partition: the class *)
(* has no lock of its own, and two tasks in it would corrupt its state.      *)
OneDriver ==
  \A t, u \in Tasks, p \in Partitions :
    /\ Driving(t) /\ Driving(u)
    /\ heap[call[t].o] = p /\ heap[call[u].o] = p
    => t = u

(* A data call works on an object that is allocated and drives the partition *)
(* its handle stood for when the call was made, although entries, handles    *)
(* and heap blocks are reused and check_handle looked at the entry before    *)
(* its lock was taken.                                                       *)
RightInstance ==
  \A t \in Tasks : call[t].pc = "use" => heap[call[t].o] = call[t].p

(* With no mount or unmount in progress, the table holds exactly the objects *)
(* that are allocated, each once, and exactly the handles the client has:    *)
(* failed mounts and unmounts leak nothing and free nothing twice.           *)
NoLeak ==
  (\A t \in Tasks : call[t].pc \in {"idle"} \cup UsePcs) =>
    /\ {o \in Objects : heap[o] # None} = {instance[h] : h \in Handles} \ {None}
    /\ \A h \in Handles : (instance[h] = None) <=> (mounted[h] = None)
    /\ \A g, h \in Handles : instance[g] = instance[h] /\ instance[g] # None => g = h

(* Every call returns, whatever the other tasks are waiting for.             *)
CallsReturn == \A t \in Tasks : (call[t] # Idle) ~> (call[t] = Idle)
===============================================================================
