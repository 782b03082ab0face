------------------------------- MODULE Gralloc ------------------------------
(***************************************************************************)
(* The graphic memory of BearPi-HM_Micro's display HAL,                    *)
(* bearpi_hm_micro/hal/display/display_layer.c (which holds gralloc, the   *)
(* two files' names being exchanged): buffers in System V shared memory    *)
(* that one process allocates under a key and others map by that key.      *)
(*                                                                         *)
(* Every process has its own g_grallocManager and its own static key; the  *)
(* keys are shared by all.  Threads interleave at their system calls.      *)
(***************************************************************************)
EXTENDS Naturals, Sequences, FiniteSets

CONSTANTS
  Processes,
  Threads,
  ProcessOf,      (* the process of every thread                           *)
  NoThread,       (* owner of a mutex nobody holds                         *)
  Buffers,        (* bound: the buffers asked for in a behaviour           *)
  NoBuffer,       (* no buffer being handled                               *)
  SHM_MAX_KEY,    (* keys are below it                                     *)
  MaxCalls        (* bound: calls of the HAL in a behaviour                *)

SHM_START_KEY == 1

ASSUME GrallocAssumption ==
  /\ Processes # {} /\ ProcessOf \in [Threads -> Processes]
  /\ NoThread \notin Threads
  /\ IsFiniteSet(Buffers) /\ NoBuffer \notin Buffers
  /\ SHM_MAX_KEY \in Nat /\ SHM_MAX_KEY > Cardinality(Buffers)
  /\ MaxCalls \in Nat

VARIABLES
  made,     (* the key every segment was made with; a segment is its index *)
  removed,  (* segments that were given to IPC_RMID                        *)
  key,      (* the static key of AllocShm, by process                      *)
  mutex,    (* the holder of g_grallocManager.mutex, by process            *)
  buffer,   (* the handles: their state, owner, fd (the key) and shmid as  *)
            (* the owner has them, and own, the segment AllocShm made      *)
  maps,     (* mappings Mmap returned that were not unmapped               *)
  pc, arg, shmid, (* of every thread: place, buffer handled, local shmid   *)
  proper,   (* clients ask only for formats and sizes the HAL supports     *)
  calls     (* calls made so far                                           *)

grallocVars == <<made, removed, key, mutex, buffer, maps, pc, arg, shmid, proper, calls>>

Fresh == [state |-> "none", owner |-> CHOOSE p \in Processes : TRUE, fd |-> 0, shmid |-> 0,
          own |-> 0]

GrallocInit ==
  /\ made = <<>>
  /\ removed = {}
  /\ key = [p \in Processes |-> SHM_START_KEY]
  /\ mutex = [p \in Processes |-> NoThread]
  /\ buffer = [b \in Buffers |-> Fresh]
  /\ maps = {}
  /\ pc = [t \in Threads |-> "idle"]
  /\ arg = [t \in Threads |-> NoBuffer]
  /\ shmid = [t \in Threads |-> 0]
  /\ proper \in BOOLEAN
  /\ calls = 0

Goto(t, place) == pc' = [pc EXCEPT ![t] = place]

(* An idle thread calls the HAL. *)
Call(t) ==
  /\ pc[t] = "idle"
  /\ calls < MaxCalls
  /\ calls' = calls + 1

-----------------------------------------------------------------------------
(* Shared memory, as the HAL uses it.                                      *)

StillThere == DOMAIN made \ removed

KeyInUse(k) == \E i \in StillThere : made[i] = k

(* shmget with IPC_CREAT | IPC_EXCL makes a segment with a key that is not *)
(* in use.                                                                 *)
MakeSegment(t, k) ==
  /\ made' = Append(made, k)
  /\ shmid' = [shmid EXCEPT ![t] = Len(made) + 1]

-----------------------------------------------------------------------------
(* The manager's mutex.                                                    *)

EnterUnlocked(t, from, to) ==
  /\ pc[t] = from
  /\ Goto(t, to)
  /\ mutex' = [mutex EXCEPT ![ProcessOf[t]] = t]
  /\ UNCHANGED <<made, removed, key, buffer, maps, arg, shmid, proper, calls>>

(* LockGrallocMgr. *)
Enter(t, from, to) ==
  /\ pc[t] = from
  /\ mutex[ProcessOf[t]] = NoThread
  /\ mutex' = [mutex EXCEPT ![ProcessOf[t]] = t]
  /\ Goto(t, to)
  /\ UNCHANGED <<made, removed, key, buffer, maps, arg, shmid, proper, calls>>

(* UnlockGrallocMgr and the return to the client: the mutex is a normal    *)
(* one, so that unlocking it releases it whoever holds it.                 *)
Leave(t) ==
  /\ pc[t] = "unlock"
  /\ mutex' = [mutex EXCEPT ![ProcessOf[t]] = NoThread]
  /\ buffer' = [buffer EXCEPT ![arg[t]].state = IF @ = "filled" THEN "live" ELSE @]
  /\ Goto(t, "idle")
  /\ arg' = [arg EXCEPT ![t] = NoBuffer]
  /\ shmid' = [shmid EXCEPT ![t] = 0]
  /\ UNCHANGED <<made, removed, key, maps, proper, calls>>

-----------------------------------------------------------------------------
(* AllocMem.                                                               *)

(* A request the HAL supports, up to LockGrallocMgr. *)
AllocMem(t, b) ==
  /\ Call(t)
  /\ buffer[b].state = "none"
  /\ buffer' = [buffer EXCEPT ![b].state = "asked", ![b].owner = ProcessOf[t]]
  /\ arg' = [arg EXCEPT ![t] = b]
  /\ Goto(t, "alloc")
  /\ UNCHANGED <<made, removed, key, mutex, maps, shmid, proper>>

(* A request it does not support: the checks jump to OUT, which unlocks    *)
(* the mutex that this call did not lock.  No segment is made.  For an     *)
(* invalid size ret is still DISPLAY_SUCCESS: the client gets a hollow     *)
(* handle, with which the other calls, which check its size, do nothing.   *)
(* For an unknown format the pointer OUT frees was never assigned: the     *)
(* process may die of it.                                                  *)
AllocUnsupported(t, b) ==
  /\ ~proper
  /\ Call(t)
  /\ buffer[b].state = "none"
  /\ \/ /\ \E result \in {"hollow", "failed"} : buffer' = [buffer EXCEPT ![b].state = result]
        /\ mutex' = [mutex EXCEPT ![ProcessOf[t]] = NoThread]
        /\ UNCHANGED pc
     \/ /\ pc' = [u \in Threads |-> IF ProcessOf[u] = ProcessOf[t] THEN "dead" ELSE pc[u]]
        /\ UNCHANGED <<mutex, buffer>>
  /\ UNCHANGED <<made, removed, key, maps, arg, shmid, proper>>

Wrapped(k) == IF k >= SHM_MAX_KEY THEN SHM_START_KEY ELSE k

Failed(t) == buffer' = [buffer EXCEPT ![arg[t]].state = "failed"]

(* The loop of AllocShm, shmget with the next key: it makes a segment ... *)
NewSegment(t) ==
  /\ pc[t] = "get"
  /\ ~KeyInUse(key[ProcessOf[t]])
  /\ MakeSegment(t, key[ProcessOf[t]])
  /\ Goto(t, "attach")
  /\ UNCHANGED <<removed, key, mutex, buffer, maps, arg, proper, calls>>

NoMemoryUnchecked(t) ==
  /\ pc[t] = "get"
  /\ ~KeyInUse(key[ProcessOf[t]])
  /\ Goto(t, "attach")
  /\ UNCHANGED <<made, removed, key, mutex, buffer, maps, arg, shmid, proper, calls>>

(* ... or fails for another reason than EEXIST, and AllocMem fails ...     *)
NoMemory(t) ==
  /\ pc[t] = "get"
  /\ ~KeyInUse(key[ProcessOf[t]])
  /\ Failed(t)
  /\ Goto(t, "unlock")
  /\ UNCHANGED <<made, removed, key, mutex, maps, arg, shmid, proper, calls>>

KeyTakenTriedAgain(t) ==
  /\ pc[t] = "get"
  /\ KeyInUse(key[ProcessOf[t]])
  /\ UNCHANGED grallocVars

(* ... or finds the key in use, and the loop tries the next one.           *)
KeyTaken(t) ==
  /\ pc[t] = "get"
  /\ KeyInUse(key[ProcessOf[t]])
  /\ key' = [key EXCEPT ![ProcessOf[t]] = Wrapped(@ + 1)]
  /\ UNCHANGED <<made, removed, mutex, buffer, maps, pc, arg, shmid, proper, calls>>

AttachFailsKept(t) ==
  /\ pc[t] = "attach"
  /\ Failed(t)
  /\ Goto(t, "unlock")
  /\ UNCHANGED <<made, removed, key, mutex, maps, arg, shmid, proper, calls>>

(* The rest of AllocShm.  shmat fails, and the segment is removed; ...     *)
AttachFails(t) ==
  /\ pc[t] = "attach"
  /\ Failed(t)
  /\ removed' = removed \cup {shmid[t]}
  /\ Goto(t, "unlock")
  /\ UNCHANGED <<made, key, mutex, maps, arg, shmid, proper, calls>>

(* ... or the handle gets key and shmid, and the key moves on; ...         *)
Fill(t) ==
  LET p == ProcessOf[t]
  IN  /\ pc[t] = "attach"
      /\ buffer' = [buffer EXCEPT ![arg[t]].state = "filled", ![arg[t]].fd = key[p],
                                  ![arg[t]].shmid = shmid[t], ![arg[t]].own = shmid[t]]
      /\ key' = [key EXCEPT ![p] = Wrapped(@ + 1)]
      /\ Goto(t, "unlock")
      /\ UNCHANGED <<made, removed, mutex, maps, arg, shmid, proper, calls>>

(* ... or memset_s fails after that: the segment is removed, and the key   *)
(* moves on without being wrapped.                                         *)
ClearFails(t) ==
  /\ pc[t] = "attach"
  /\ Failed(t)
  /\ removed' = removed \cup {shmid[t]}
  /\ key' = [key EXCEPT ![ProcessOf[t]] = @ + 1]
  /\ Goto(t, "unlock")
  /\ UNCHANGED <<made, mutex, maps, arg, shmid, proper, calls>>

-----------------------------------------------------------------------------
(* FreeMem, by the process that allocated the buffer.                      *)

FreeMem(t, b) ==
  /\ Call(t)
  /\ buffer[b].state = "live" /\ buffer[b].owner = ProcessOf[t]
  /\ buffer' = [buffer EXCEPT ![b].state = "freeing"]
  /\ arg' = [arg EXCEPT ![t] = b]
  /\ Goto(t, "free")
  /\ UNCHANGED <<made, removed, key, mutex, maps, shmid, proper>>

(* FreeShm: shmdt, and IPC_RMID of the segment the handle names by now,    *)
(* whose error is only logged.                                             *)
FreeShm(t) ==
  /\ pc[t] = "remove"
  /\ removed' = removed \cup {buffer[arg[t]].shmid}
  /\ buffer' = [buffer EXCEPT ![arg[t]].state = "freed"]
  /\ Goto(t, "unlock")
  /\ UNCHANGED <<made, key, mutex, maps, arg, shmid, proper, calls>>

-----------------------------------------------------------------------------
(* Mmap and Unmap, by the owner or by a process that was given a copy of   *)
(* the handle.                                                             *)

MapsOf(t, b) == { m \in maps : m.process = ProcessOf[t] /\ m.buffer = b }

Mmap(t, b) ==
  /\ Call(t)
  /\ buffer[b].state = "live" /\ MapsOf(t, b) = {}
  /\ arg' = [arg EXCEPT ![t] = b]
  /\ Goto(t, "mmap")
  /\ UNCHANGED <<made, removed, key, mutex, buffer, maps, shmid, proper>>

(* MmapShm: shmget finds the segment of the handle's key, if there is one. *)
MmapShm(t) ==
  /\ pc[t] = "find"
  /\ IF KeyInUse(buffer[arg[t]].fd)
     THEN /\ \E i \in StillThere :
               made[i] = buffer[arg[t]].fd /\ shmid' = [shmid EXCEPT ![t] = i]
          /\ Goto(t, "map")
     ELSE Goto(t, "unlock") /\ UNCHANGED shmid
  /\ UNCHANGED <<made, removed, key, mutex, buffer, maps, arg, proper, calls>>

(* MmapShm: shmat, which may fail, in particular on a removed segment.     *)
(* The handle, or the copy of it, gets the shmid of what was found: the    *)
(* key of a removed segment may be another buffer's by now.                *)
MmapAttach(t) ==
  LET b == arg[t]  p == ProcessOf[t]
  IN  /\ pc[t] = "map"
      /\ \/ /\ maps' = (maps \ MapsOf(t, b)) \cup { [process |-> p, buffer |-> b, shmid |-> shmid[t]] }
            /\ buffer' = [buffer EXCEPT ![b].shmid = IF buffer[b].owner = p THEN shmid[t] ELSE @]
         \/ UNCHANGED <<maps, buffer>>
      /\ Goto(t, "unlock")
      /\ UNCHANGED <<made, removed, key, mutex, arg, shmid, proper, calls>>

Unmap(t, b) ==
  /\ Call(t)
  /\ MapsOf(t, b) # {}
  /\ arg' = [arg EXCEPT ![t] = b]
  /\ Goto(t, "unmap")
  /\ UNCHANGED <<made, removed, key, mutex, buffer, maps, shmid, proper>>

(* UnmapShm: shmdt, and IPC_RMID for the segment that was mapped.  Where   *)
(* another thread already unmapped it, shmdt fails and that is all.        *)
UnmapShm(t) ==
  /\ pc[t] = "drop"
  /\ removed' = removed \cup { m.shmid : m \in MapsOf(t, arg[t]) }
  /\ maps' = maps \ MapsOf(t, arg[t])
  /\ Goto(t, "unlock")
  /\ UNCHANGED <<made, key, mutex, buffer, arg, shmid, proper, calls>>

-----------------------------------------------------------------------------
Lock(t) == Enter(t, "alloc", "get") \/ Enter(t, "free", "remove")
             \/ Enter(t, "mmap", "find") \/ Enter(t, "unmap", "drop")

AllocShm(t) == NewSegment(t) \/ NoMemory(t) \/ KeyTaken(t) \/ AttachFails(t) \/ Fill(t)
                 \/ ClearFails(t)

Body(t) == AllocShm(t) \/ FreeShm(t) \/ MmapShm(t) \/ MmapAttach(t)
             \/ UnmapShm(t) \/ Leave(t)

Client(t) == \E b \in Buffers : AllocMem(t, b) \/ AllocUnsupported(t, b) \/ FreeMem(t, b)
                                    \/ Mmap(t, b) \/ Unmap(t, b)

GrallocNext == \E t \in Threads : Client(t) \/ Lock(t) \/ Body(t)

GrallocSpec == GrallocInit /\ [][GrallocNext]_grallocVars

(* A thread in the HAL goes on, and is not passed over for ever when it    *)
(* waits for the mutex.  Clients need not call.                            *)
GrallocFairness == \A t \in Threads : WF_grallocVars(Body(t)) /\ SF_grallocVars(Lock(t))

-----------------------------------------------------------------------------
GrallocTypeOK ==
  /\ made \in Seq(Nat)
  /\ removed \subseteq DOMAIN made
  /\ key \in [Processes -> Nat] /\ (proper => \A p \in Processes : key[p] <= SHM_MAX_KEY)
  /\ mutex \in [Processes -> Threads \cup {NoThread}]
  /\ buffer \in [Buffers -> [ state : {"none", "asked", "filled", "live", "freeing", "freed", "failed",
                                       "hollow"},
                              owner : Processes, fd : Nat, shmid : 0..Len(made), own : 0..Len(made) ]]
  /\ maps \subseteq [ process : Processes, buffer : Buffers, shmid : 1..Len(made) ]
  /\ pc \in [Threads -> {"idle", "alloc", "get", "attach", "free", "remove", "mmap", "find",
                         "map", "unmap", "drop", "unlock", "dead"}]
  /\ arg \in [Threads -> Buffers \cup {NoBuffer}]
  /\ shmid \in [Threads -> 0..Len(made)]
  /\ proper \in BOOLEAN
  /\ calls \in 0..MaxCalls

InUse(b) == buffer[b].state \in {"filled", "live", "freeing"}

(* As long as no request is unsupported, the key a handle carries is the   *)
(* one that the segment it names was made with, whoever allocates at the   *)
(* same time, and while the segment made for a buffer is there, everyone   *)
(* who maps the buffer has mapped that segment, although keys are used     *)
(* again.  An unsupported request unlocks the mutex under another thread,  *)
(* which then records the key of a third one.                              *)
HandlesNameTheirSegments ==
  proper =>
    \A b \in Buffers : InUse(b) =>
      /\ made[buffer[b].shmid] = buffer[b].fd
      /\ buffer[b].own \in StillThere =>
           \A m \in maps : m.buffer = b => m.shmid = buffer[b].own

(* As long as no request is unsupported, every segment that is still there *)
(* is named by a buffer in use, so that FreeMem removes it, or is with the *)
(* thread that is about to hand it out: no failure leaves one behind.  Two *)
(* buffers in use name one segment only after an Unmap, or the FreeMem of  *)
(* such a buffer, removed the own segment of one of them: whose key is     *)
(* then used again, and found by a late Mmap.                              *)
EachSegmentHasOneOwner ==
  proper =>
    /\ \A i \in StillThere : \/ \E b \in Buffers : InUse(b) /\ buffer[b].shmid = i
                            \/ \E t \in Threads : pc[t] = "attach" /\ shmid[t] = i
    /\ \A b, c \in Buffers :
         InUse(b) /\ InUse(c) /\ b # c /\ buffer[b].shmid = buffer[c].shmid =>
           \E d \in {b, c} : buffer[d].own \in removed

(* A call of AllocMem returns: with fewer buffers than keys the search     *)
(* for a key ends, and the mutex is handed on.                             *)
AllocReturns == \A t \in Threads : pc[t] = "alloc" ~> pc[t] \in {"idle", "dead"}
=============================================================================
