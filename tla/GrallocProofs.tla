---------------------------- MODULE GrallocProofs ---------------------------
(***************************************************************************)
(* Theorems about the graphic memory.                                      *)
(*                                                                         *)
(* The invariant follows a buffer through the call that handles it, a      *)
(* segment from shmget to its removal, and a key from the process that     *)
(* searched for it to the processes that look the segment up by it.  The   *)
(* last needs the mutex, and so holds only while it is held properly.      *)
(***************************************************************************)
EXTENDS Gralloc, FiniteSetTheorems, TLAPS

-----------------------------------------------------------------------------
(* The type invariant without the bound of the keys, in two parts.         *)

States == {"none", "asked", "filled", "live", "freeing", "freed", "failed",
           "hollow"}

Places == {"idle", "alloc", "get", "attach", "free", "remove", "mmap", "find",
           "map", "unmap", "drop", "unlock", "dead"}

ThreadsOK ==
  /\ key \in [Processes -> Nat]
  /\ mutex \in [Processes -> Threads \cup {NoThread}]
  /\ pc \in [Threads -> Places]
  /\ arg \in [Threads -> Buffers \cup {NoBuffer}]
  /\ proper \in BOOLEAN
  /\ calls \in 0..MaxCalls

Handles == [ state : States, owner : Processes, fd : Nat, shmid : 0..Len(made),
             own : 0..Len(made) ]

MemoryOK ==
  /\ made \in Seq(Nat)
  /\ removed \subseteq DOMAIN made
  /\ buffer \in [Buffers -> Handles]
  /\ maps \subseteq [ process : Processes, buffer : Buffers, shmid : 1..Len(made) ]
  /\ shmid \in [Threads -> 0..Len(made)]

-----------------------------------------------------------------------------
(* The inductive invariant.                                                *)

(* Threads that allocate a buffer, release one, or map one. *)
Allocates(t) == pc[t] \in {"alloc", "get", "attach"}
Frees(t) == pc[t] \in {"free", "remove"}
Maps(t) == pc[t] \in {"mmap", "find", "map"}

Given(b) == buffer[b].state \in {"live", "freeing", "freed"}

(* What a call has found out about its buffer stays so until it uses it:   *)
(* nobody else allocates or releases it.                                   *)
HasBuffer == \A t \in Threads : pc[t] \notin {"idle", "dead"} => arg[t] \in Buffers

AskedInv == \A t \in Threads : /\ Allocates(t) => buffer[arg[t]].state = "asked"
                               /\ Frees(t) => buffer[arg[t]].state = "freeing"

OneCall == \A t, u \in Threads :
             (Allocates(t) /\ Allocates(u)) \/ (Frees(t) /\ Frees(u)) => t = u \/ arg[t] # arg[u]

GivenInv == /\ \A t \in Threads : Maps(t) => Given(arg[t])
            /\ \A m \in maps : Given(m.buffer)

CallInv == HasBuffer /\ AskedInv /\ OneCall /\ GivenInv

(* Between shmget and the handle's getting it, the thread that made a      *)
(* segment is the only one to know it.                                     *)
Numbered == /\ \A t \in Threads : pc[t] \in {"attach", "map"} => shmid[t] # 0
            /\ \A b \in Buffers : InUse(b) => buffer[b].shmid # 0 /\ buffer[b].own # 0

OneOwner ==
  /\ \A t, u \in Threads : pc[t] = "attach" /\ pc[u] = "attach" /\ t # u => shmid[t] # shmid[u]
  /\ \A t \in Threads, b \in Buffers : pc[t] = "attach" /\ InUse(b) => shmid[t] # buffer[b].own
  /\ \A b, c \in Buffers : InUse(b) /\ InUse(c) /\ b # c => buffer[b].own # buffer[c].own

Owned == proper =>
           \A i \in StillThere : \/ \E b \in Buffers : InUse(b) /\ buffer[b].own = i
                                 \/ \E t \in Threads : pc[t] \in {"attach", "dead"} /\ shmid[t] = i

SegmentInv == Numbered /\ OneOwner /\ Owned

(* Segments that are still there differ in their keys. *)
UniqueKeys == \A i, j \in StillThere : made[i] = made[j] => i = j

InManager(t) == pc[t] \in {"get", "attach", "remove", "find", "map", "drop", "unlock"}

MutexInv == proper => \A t \in Threads : pc[t] # "dead"
                                           /\ (InManager(t) => mutex[ProcessOf[t]] = t)

(* With the mutex held, a thread's process keeps the key the thread made   *)
(* its segment with; so handles carry the key of their segment, and the    *)
(* segment a thread looks up by that key is the handle's, if that is still *)
(* there.                                                                  *)
KeyKept == proper => \A t \in Threads : pc[t] = "attach" => made[shmid[t]] = key[ProcessOf[t]]

Named == proper =>
  /\ \A b \in Buffers : InUse(b) => made[buffer[b].shmid] = buffer[b].fd
                                      /\ made[buffer[b].own] = buffer[b].fd
  /\ \A t \in Threads : pc[t] = "map" => made[shmid[t]] = buffer[arg[t]].fd

Names(i, b) == InUse(b) /\ buffer[b].own \in StillThere => i = buffer[b].own

FoundInv == proper => /\ \A t \in Threads : pc[t] = "map" => Names(shmid[t], arg[t])
                      /\ \A m \in maps : Names(m.shmid, m.buffer)
                      /\ \A b \in Buffers : Names(buffer[b].shmid, b)

KeyInv == KeyKept /\ Named /\ FoundInv

(* Buffers for which no segment was made, and the keys below a process's   *)
(* next one: each has been some segment's, so that the keys stay below     *)
(* their limit as long as there are fewer buffers than keys.               *)
Unmade == { b \in Buffers : \/ buffer[b].state = "none"
                            \/ \E t \in Threads : pc[t] \in {"alloc", "get"} /\ arg[t] = b }

Enough == proper => Len(made) + Cardinality(Unmade) <= Cardinality(Buffers)

Tried == proper => \A p \in Processes : \A k \in Nat :
                     1 <= k /\ k < key[p] => \E i \in DOMAIN made : made[i] = k

CountInv == Enough /\ Tried

MInv == ThreadsOK /\ MemoryOK /\ CallInv /\ SegmentInv /\ UniqueKeys /\ MutexInv
          /\ KeyInv /\ CountInv

-----------------------------------------------------------------------------
(* Steps.                                                                  *)

(* The threads' places, keys and mutexes keep their types.                 *)
LEMMA ThreadsNext ==
  ASSUME ThreadsOK, [GrallocNext]_grallocVars
  PROVE  ThreadsOK'
<1> USE GrallocAssumption DEF ThreadsOK, Places, SHM_START_KEY
<1>0. CASE UNCHANGED grallocVars
  BY <1>0 DEF grallocVars
<1>1. ASSUME NEW t \in Threads, NEW b \in Buffers, AllocUnsupported(t, b) PROVE ThreadsOK'
  BY <1>1 DEF AllocUnsupported, Call
<1>2. ASSUME NEW t \in Threads, NEW b \in Buffers, AllocMem(t, b) PROVE ThreadsOK'
  BY <1>2 DEF AllocMem, Call, Goto
<1>3. ASSUME NEW t \in Threads, NEW b \in Buffers, FreeMem(t, b) PROVE ThreadsOK'
  BY <1>3 DEF FreeMem, Call, Goto
<1>4. ASSUME NEW t \in Threads, NEW b \in Buffers, Mmap(t, b) PROVE ThreadsOK'
  BY <1>4 DEF Mmap, Call, Goto
<1>5. ASSUME NEW t \in Threads, NEW b \in Buffers, Unmap(t, b) PROVE ThreadsOK'
  BY <1>5 DEF Unmap, Call, Goto, MapsOf
<1>6. ASSUME NEW t \in Threads, Lock(t) PROVE ThreadsOK'
  BY <1>6 DEF Lock, Enter, Goto
<1>7. ASSUME NEW t \in Threads, NewSegment(t) PROVE ThreadsOK'
  BY <1>7 DEF NewSegment, MakeSegment, Goto
<1>8. ASSUME NEW t \in Threads, NoMemory(t) PROVE ThreadsOK'
  BY <1>8 DEF NoMemory, Failed, Goto
<1>9. ASSUME NEW t \in Threads, KeyTaken(t) PROVE ThreadsOK'
  BY <1>9 DEF KeyTaken, Wrapped
<1>10. ASSUME NEW t \in Threads, AttachFails(t) PROVE ThreadsOK'
  BY <1>10 DEF AttachFails, Failed, Goto
<1>11. ASSUME NEW t \in Threads, Fill(t) PROVE ThreadsOK'
  BY <1>11 DEF Fill, Goto, Wrapped
<1>12. ASSUME NEW t \in Threads, ClearFails(t) PROVE ThreadsOK'
  BY <1>12 DEF ClearFails, Failed, Goto
<1>13. ASSUME NEW t \in Threads, FreeShm(t) PROVE ThreadsOK'
  BY <1>13 DEF FreeShm, Goto
<1>14. ASSUME NEW t \in Threads, MmapShm(t) PROVE ThreadsOK'
  BY <1>14 DEF MmapShm, Goto
<1>15. ASSUME NEW t \in Threads, MmapAttach(t) PROVE ThreadsOK'
  BY <1>15 DEF MmapAttach, Goto
<1>16. ASSUME NEW t \in Threads, UnmapShm(t) PROVE ThreadsOK'
  BY <1>16 DEF UnmapShm, Goto, MapsOf
<1>17. ASSUME NEW t \in Threads, Leave(t) PROVE ThreadsOK'
  BY <1>17 DEF Leave, Goto
<1> QED
  BY <1>0, <1>1, <1>2, <1>3, <1>4, <1>5, <1>6, <1>7, <1>8, <1>9, <1>10, <1>11,
     <1>12, <1>13, <1>14, <1>15, <1>16, <1>17
  DEF GrallocNext, Client, Body, AllocShm

(* A call keeps its buffer until it returns.                               *)
LEMMA BufferNext ==
  ASSUME ThreadsOK, HasBuffer, [GrallocNext]_grallocVars
  PROVE  HasBuffer'
<1> USE GrallocAssumption DEF ThreadsOK, HasBuffer, Places
<1>0. CASE UNCHANGED grallocVars
  BY <1>0 DEF grallocVars
<1>1. ASSUME NEW t \in Threads, NEW b \in Buffers, AllocUnsupported(t, b) PROVE HasBuffer'
  BY <1>1 DEF AllocUnsupported, Call
<1>2. ASSUME NEW t \in Threads, NEW b \in Buffers, AllocMem(t, b) PROVE HasBuffer'
  BY <1>2 DEF AllocMem, Call, Goto
<1>3. ASSUME NEW t \in Threads, NEW b \in Buffers, FreeMem(t, b) PROVE HasBuffer'
  BY <1>3 DEF FreeMem, Call, Goto
<1>4. ASSUME NEW t \in Threads, NEW b \in Buffers, Mmap(t, b) PROVE HasBuffer'
  BY <1>4 DEF Mmap, Call, Goto
<1>5. ASSUME NEW t \in Threads, NEW b \in Buffers, Unmap(t, b) PROVE HasBuffer'
  BY <1>5 DEF Unmap, Call, Goto, MapsOf
<1>6. ASSUME NEW t \in Threads, Lock(t) PROVE HasBuffer'
  <2>1. CASE Enter(t, "alloc", "get")
    BY <2>1 DEF Enter, Goto
  <2>2. CASE Enter(t, "free", "remove")
    BY <2>2 DEF Enter, Goto
  <2>3. CASE Enter(t, "mmap", "find")
    BY <2>3 DEF Enter, Goto
  <2>4. CASE Enter(t, "unmap", "drop")
    BY <2>4 DEF Enter, Goto
  <2> QED
    BY <1>6, <2>1, <2>2, <2>3, <2>4 DEF Lock
<1>7. ASSUME NEW t \in Threads, NewSegment(t) PROVE HasBuffer'
  BY <1>7 DEF NewSegment, MakeSegment, Goto
<1>8. ASSUME NEW t \in Threads, NoMemory(t) PROVE HasBuffer'
  BY <1>8 DEF NoMemory, Failed, Goto
<1>9. ASSUME NEW t \in Threads, KeyTaken(t) PROVE HasBuffer'
  BY <1>9 DEF KeyTaken, Wrapped
<1>10. ASSUME NEW t \in Threads, AttachFails(t) PROVE HasBuffer'
  BY <1>10 DEF AttachFails, Failed, Goto
<1>11. ASSUME NEW t \in Threads, Fill(t) PROVE HasBuffer'
  BY <1>11 DEF Fill, Goto, Wrapped
<1>12. ASSUME NEW t \in Threads, ClearFails(t) PROVE HasBuffer'
  BY <1>12 DEF ClearFails, Failed, Goto
<1>13. ASSUME NEW t \in Threads, FreeShm(t) PROVE HasBuffer'
  BY <1>13 DEF FreeShm, Goto
<1>14. ASSUME NEW t \in Threads, MmapShm(t) PROVE HasBuffer'
  BY <1>14 DEF MmapShm, Goto
<1>15. ASSUME NEW t \in Threads, MmapAttach(t) PROVE HasBuffer'
  BY <1>15 DEF MmapAttach, Goto
<1>16. ASSUME NEW t \in Threads, UnmapShm(t) PROVE HasBuffer'
  BY <1>16 DEF UnmapShm, Goto, MapsOf
<1>17. ASSUME NEW t \in Threads, Leave(t) PROVE HasBuffer'
  BY <1>17 DEF Leave, Goto
<1> QED
  BY <1>0, <1>1, <1>2, <1>3, <1>4, <1>5, <1>6, <1>7, <1>8, <1>9, <1>10, <1>11,
     <1>12, <1>13, <1>14, <1>15, <1>16, <1>17
  DEF GrallocNext, Client, Body, AllocShm

(* What the unsupported request, and Mmap, do to states and threads.       *)
LEMMA UnsupportedStates ==
  ASSUME ThreadsOK, MemoryOK, NEW t \in Threads, NEW b \in Buffers, AllocUnsupported(t, b)
  PROVE  /\ \A c \in Buffers : \/ buffer'[c] = buffer[c]
                               \/ /\ c = b /\ buffer[c].state = "none"
                                  /\ buffer'[c].state \in {"hollow", "failed"}
         /\ \A u \in Threads : pc'[u] \in {pc[u], "dead"}
         /\ UNCHANGED <<made, removed, key, maps, arg, shmid, proper>> /\ ~proper
<1>1. buffer \in [Buffers -> Handles] /\ pc \in [Threads -> Places]
  BY DEF MemoryOK, ThreadsOK
<1>2. UNCHANGED <<made, removed, key, maps, arg, shmid, proper>> /\ ~proper
  BY DEF AllocUnsupported
<1>3. \A u \in Threads : pc'[u] \in {pc[u], "dead"}
  BY <1>1 DEF AllocUnsupported
<1>4. /\ buffer[b].state = "none"
      /\ \/ buffer' = buffer
         \/ \E result \in {"hollow", "failed"} : buffer' = [buffer EXCEPT ![b].state = result]
  BY DEF AllocUnsupported
<1>5. ASSUME NEW result \in {"hollow", "failed"}, buffer' = [buffer EXCEPT ![b].state = result]
      PROVE  \A c \in Buffers : \/ buffer'[c] = buffer[c]
                                 \/ /\ c = b /\ buffer[c].state = "none"
                                    /\ buffer'[c].state \in {"hollow", "failed"}
  BY <1>1, <1>4, <1>5 DEF Handles
<1> QED
  BY <1>2, <1>3, <1>4, <1>5

LEMMA MmapStates ==
  ASSUME ThreadsOK, MemoryOK, HasBuffer, NEW t \in Threads, MmapAttach(t)
  PROVE  /\ arg[t] \in Buffers /\ \A c \in Buffers : buffer'[c].state = buffer[c].state
         /\ \A m \in maps' : m \in maps \/ (m.buffer = arg[t] /\ m.shmid = shmid[t])
         /\ pc[t] = "map" /\ pc' = [pc EXCEPT ![t] = "unlock"]
         /\ UNCHANGED <<made, removed, key, mutex, arg, shmid, proper, calls>>
<1>1. buffer \in [Buffers -> Handles] /\ arg[t] \in Buffers
  BY DEF MmapAttach, MemoryOK, HasBuffer
<1>2. /\ pc[t] = "map" /\ pc' = [pc EXCEPT ![t] = "unlock"]
      /\ UNCHANGED <<made, removed, key, mutex, arg, shmid, proper, calls>>
  BY DEF MmapAttach, Goto
<1>3. \A m \in maps' : m \in maps \/ (m.buffer = arg[t] /\ m.shmid = shmid[t])
  BY DEF MmapAttach
<1>4. \/ buffer' = buffer
      \/ \E i \in {shmid[t], buffer[arg[t]].shmid} : buffer' = [buffer EXCEPT ![arg[t]].shmid = i]
  BY DEF MmapAttach
<1>5. ASSUME NEW i, buffer' = [buffer EXCEPT ![arg[t]].shmid = i]
      PROVE  \A c \in Buffers : buffer'[c].state = buffer[c].state
  BY <1>1, <1>5 DEF Handles
<1> QED
  BY <1>1, <1>2, <1>3, <1>4, <1>5

(* A buffer stays asked for, or given back, until its call is done.        *)
LEMMA AskedNext ==
  ASSUME ThreadsOK, MemoryOK, HasBuffer, AskedInv, OneCall,
         [GrallocNext]_grallocVars
  PROVE  AskedInv'
<1> USE GrallocAssumption DEF ThreadsOK, HasBuffer, Places, AskedInv, OneCall,
    Allocates, Frees
<1>b. buffer \in [Buffers -> [ state : States, owner : Processes, fd : Nat, shmid : 0..Len(made),
             own : 0..Len(made) ]]
  BY DEF MemoryOK, Handles
<1>0. CASE UNCHANGED grallocVars
  BY <1>0 DEF grallocVars
<1>1. ASSUME NEW t \in Threads, NEW b \in Buffers, AllocUnsupported(t, b) PROVE AskedInv'
  <2>1. /\ \A c \in Buffers : buffer[c].state # "none" => buffer'[c] = buffer[c]
        /\ \A u \in Threads : pc'[u] \in {pc[u], "dead"}
        /\ arg' = arg
    BY <1>1, UnsupportedStates
  <2> QED
    BY <2>1
<1>2. ASSUME NEW t \in Threads, NEW b \in Buffers, AllocMem(t, b) PROVE AskedInv'
  <2>1. \A c \in Buffers : buffer'[c].state = IF c = b THEN "asked" ELSE buffer[c].state
    BY <1>2, <1>b DEF AllocMem, Call, Goto
  <2>2. /\ arg' = [arg EXCEPT ![t] = b] /\ maps' = maps
        /\ pc[t] = "idle" /\ pc' = [pc EXCEPT ![t] = "alloc"]
        /\ buffer[b].state = "none"
    BY <1>2 DEF AllocMem, Call, Goto
  <2> QED
    BY <2>1, <2>2
<1>3. ASSUME NEW t \in Threads, NEW b \in Buffers, FreeMem(t, b) PROVE AskedInv'
  <2>1. \A c \in Buffers : buffer'[c].state = IF c = b THEN "freeing" ELSE buffer[c].state
    BY <1>3, <1>b DEF FreeMem, Call, Goto
  <2>2. /\ arg' = [arg EXCEPT ![t] = b] /\ maps' = maps
        /\ pc[t] = "idle" /\ pc' = [pc EXCEPT ![t] = "free"]
        /\ buffer[b].state = "live"
    BY <1>3 DEF FreeMem, Call, Goto
  <2> QED
    BY <2>1, <2>2
<1>4. ASSUME NEW t \in Threads, NEW b \in Buffers, Mmap(t, b) PROVE AskedInv'
  BY <1>4 DEF Mmap, Call, Goto
<1>5. ASSUME NEW t \in Threads, NEW b \in Buffers, Unmap(t, b) PROVE AskedInv'
  BY <1>5 DEF Unmap, Call, Goto, MapsOf
<1>6. ASSUME NEW t \in Threads, Lock(t) PROVE AskedInv'
  <2>1. CASE Enter(t, "alloc", "get")
    BY <2>1 DEF Enter, Goto
  <2>2. CASE Enter(t, "free", "remove")
    BY <2>2 DEF Enter, Goto
  <2>3. CASE Enter(t, "mmap", "find")
    BY <2>3 DEF Enter, Goto
  <2>4. CASE Enter(t, "unmap", "drop")
    BY <2>4 DEF Enter, Goto
  <2> QED
    BY <1>6, <2>1, <2>2, <2>3, <2>4 DEF Lock
<1>7. ASSUME NEW t \in Threads, NewSegment(t) PROVE AskedInv'
  BY <1>7 DEF NewSegment, MakeSegment, Goto
<1>8. ASSUME NEW t \in Threads, NoMemory(t) PROVE AskedInv'
  <2>1. \A c \in Buffers : buffer'[c].state = IF c = arg[t] THEN "failed" ELSE buffer[c].state
    BY <1>8, <1>b DEF NoMemory, Failed, Goto
  <2>2. /\ arg' = arg /\ maps' = maps
        /\ pc[t] = "get" /\ pc' = [pc EXCEPT ![t] = "unlock"]
    BY <1>8 DEF NoMemory, Failed, Goto
  <2> QED
    BY <2>1, <2>2
<1>9. ASSUME NEW t \in Threads, KeyTaken(t) PROVE AskedInv'
  BY <1>9 DEF KeyTaken, Wrapped
<1>10. ASSUME NEW t \in Threads, AttachFails(t) PROVE AskedInv'
  <2>1. \A c \in Buffers : buffer'[c].state = IF c = arg[t] THEN "failed" ELSE buffer[c].state
    BY <1>10, <1>b DEF AttachFails, Failed, Goto
  <2>2. /\ arg' = arg /\ maps' = maps
        /\ pc[t] = "attach" /\ pc' = [pc EXCEPT ![t] = "unlock"]
    BY <1>10 DEF AttachFails, Failed, Goto
  <2> QED
    BY <2>1, <2>2
<1>11. ASSUME NEW t \in Threads, Fill(t) PROVE AskedInv'
  <2>1. \A c \in Buffers : buffer'[c].state = IF c = arg[t] THEN "filled" ELSE buffer[c].state
    BY <1>11, <1>b DEF Fill, Goto
  <2>2. /\ arg' = arg /\ maps' = maps
        /\ pc[t] = "attach" /\ pc' = [pc EXCEPT ![t] = "unlock"]
    BY <1>11 DEF Fill, Goto
  <2> QED
    BY <2>1, <2>2
<1>12. ASSUME NEW t \in Threads, ClearFails(t) PROVE AskedInv'
  <2>1. \A c \in Buffers : buffer'[c].state = IF c = arg[t] THEN "failed" ELSE buffer[c].state
    BY <1>12, <1>b DEF ClearFails, Failed, Goto
  <2>2. /\ arg' = arg /\ maps' = maps
        /\ pc[t] = "attach" /\ pc' = [pc EXCEPT ![t] = "unlock"]
    BY <1>12 DEF ClearFails, Failed, Goto
  <2> QED
    BY <2>1, <2>2
<1>13. ASSUME NEW t \in Threads, FreeShm(t) PROVE AskedInv'
  <2>1. \A c \in Buffers : buffer'[c].state = IF c = arg[t] THEN "freed" ELSE buffer[c].state
    BY <1>13, <1>b DEF FreeShm, Goto
  <2>2. /\ arg' = arg /\ maps' = maps
        /\ pc[t] = "remove" /\ pc' = [pc EXCEPT ![t] = "unlock"]
    BY <1>13 DEF FreeShm, Goto
  <2> QED
    BY <2>1, <2>2
<1>14. ASSUME NEW t \in Threads, MmapShm(t) PROVE AskedInv'
  BY <1>14 DEF MmapShm, Goto
<1>15. ASSUME NEW t \in Threads, MmapAttach(t) PROVE AskedInv'
  BY <1>15, MmapStates
<1>16. ASSUME NEW t \in Threads, UnmapShm(t) PROVE AskedInv'
  BY <1>16 DEF UnmapShm, Goto, MapsOf
<1>17. ASSUME NEW t \in Threads, Leave(t) PROVE AskedInv'
  <2>1. \A c \in Buffers : buffer'[c].state = IF c = arg[t] /\ buffer[c].state = "filled"
                                                 THEN "live" ELSE buffer[c].state
    BY <1>17, <1>b DEF Leave, Goto
  <2>2. /\ arg' = [arg EXCEPT ![t] = NoBuffer] /\ maps' = maps
        /\ pc[t] = "unlock" /\ pc' = [pc EXCEPT ![t] = "idle"]
    BY <1>17 DEF Leave, Goto
  <2> QED
    BY <2>1, <2>2
<1> QED
  BY <1>0, <1>1, <1>2, <1>3, <1>4, <1>5, <1>6, <1>7, <1>8, <1>9, <1>10, <1>11,
     <1>12, <1>13, <1>14, <1>15, <1>16, <1>17
  DEF GrallocNext, Client, Body, AllocShm

(* Two calls never allocate, or release, one buffer.                       *)
LEMMA OneCallNext ==
  ASSUME ThreadsOK, HasBuffer, AskedInv, OneCall, [GrallocNext]_grallocVars
  PROVE  OneCall'
<1> USE GrallocAssumption DEF ThreadsOK, HasBuffer, Places, AskedInv, OneCall,
    Allocates, Frees
<1>0. CASE UNCHANGED grallocVars
  BY <1>0 DEF grallocVars
<1>1. ASSUME NEW t \in Threads, NEW b \in Buffers, AllocUnsupported(t, b) PROVE OneCall'
  BY <1>1 DEF AllocUnsupported, Call
<1>2. ASSUME NEW t \in Threads, NEW b \in Buffers, AllocMem(t, b) PROVE OneCall'
  BY <1>2 DEF AllocMem, Call, Goto
<1>3. ASSUME NEW t \in Threads, NEW b \in Buffers, FreeMem(t, b) PROVE OneCall'
  BY <1>3 DEF FreeMem, Call, Goto
<1>4. ASSUME NEW t \in Threads, NEW b \in Buffers, Mmap(t, b) PROVE OneCall'
  BY <1>4 DEF Mmap, Call, Goto
<1>5. ASSUME NEW t \in Threads, NEW b \in Buffers, Unmap(t, b) PROVE OneCall'
  BY <1>5 DEF Unmap, Call, Goto, MapsOf
<1>6. ASSUME NEW t \in Threads, Lock(t) PROVE OneCall'
  <2>1. CASE Enter(t, "alloc", "get")
    BY <2>1 DEF Enter, Goto
  <2>2. CASE Enter(t, "free", "remove")
    BY <2>2 DEF Enter, Goto
  <2>3. CASE Enter(t, "mmap", "find")
    BY <2>3 DEF Enter, Goto
  <2>4. CASE Enter(t, "unmap", "drop")
    BY <2>4 DEF Enter, Goto
  <2> QED
    BY <1>6, <2>1, <2>2, <2>3, <2>4 DEF Lock
<1>7. ASSUME NEW t \in Threads, NewSegment(t) PROVE OneCall'
  BY <1>7 DEF NewSegment, MakeSegment, Goto
<1>8. ASSUME NEW t \in Threads, NoMemory(t) PROVE OneCall'
  BY <1>8 DEF NoMemory, Failed, Goto
<1>9. ASSUME NEW t \in Threads, KeyTaken(t) PROVE OneCall'
  BY <1>9 DEF KeyTaken, Wrapped
<1>10. ASSUME NEW t \in Threads, AttachFails(t) PROVE OneCall'
  BY <1>10 DEF AttachFails, Failed, Goto
<1>11. ASSUME NEW t \in Threads, Fill(t) PROVE OneCall'
  BY <1>11 DEF Fill, Goto, Wrapped
<1>12. ASSUME NEW t \in Threads, ClearFails(t) PROVE OneCall'
  BY <1>12 DEF ClearFails, Failed, Goto
<1>13. ASSUME NEW t \in Threads, FreeShm(t) PROVE OneCall'
  BY <1>13 DEF FreeShm, Goto
<1>14. ASSUME NEW t \in Threads, MmapShm(t) PROVE OneCall'
  BY <1>14 DEF MmapShm, Goto
<1>15. ASSUME NEW t \in Threads, MmapAttach(t) PROVE OneCall'
  BY <1>15 DEF MmapAttach, Goto
<1>16. ASSUME NEW t \in Threads, UnmapShm(t) PROVE OneCall'
  BY <1>16 DEF UnmapShm, Goto, MapsOf
<1>17. ASSUME NEW t \in Threads, Leave(t) PROVE OneCall'
  BY <1>17 DEF Leave, Goto
<1> QED
  BY <1>0, <1>1, <1>2, <1>3, <1>4, <1>5, <1>6, <1>7, <1>8, <1>9, <1>10, <1>11,
     <1>12, <1>13, <1>14, <1>15, <1>16, <1>17
  DEF GrallocNext, Client, Body, AllocShm

(* A buffer that is being mapped, or is mapped, was given to a client.     *)
LEMMA GivenNext ==
  ASSUME ThreadsOK, MemoryOK, HasBuffer, AskedInv, GivenInv,
         [GrallocNext]_grallocVars
  PROVE  GivenInv'
<1> USE GrallocAssumption DEF ThreadsOK, HasBuffer, Places, AskedInv, GivenInv,
    Allocates, Frees, Maps, Given
<1>a. \A m \in maps : m.buffer \in Buffers
  BY DEF MemoryOK
<1>b. buffer \in [Buffers -> [ state : States, owner : Processes, fd : Nat, shmid : 0..Len(made),
             own : 0..Len(made) ]]
  BY DEF MemoryOK, Handles
<1>0. CASE UNCHANGED grallocVars
  BY <1>0 DEF grallocVars
<1>1. ASSUME NEW t \in Threads, NEW b \in Buffers, AllocUnsupported(t, b) PROVE GivenInv'
  <2>1. /\ \A c \in Buffers : buffer[c].state # "none" => buffer'[c] = buffer[c]
        /\ \A u \in Threads : pc'[u] \in {pc[u], "dead"}
        /\ arg' = arg /\ maps' = maps
    BY <1>1, UnsupportedStates
  <2> QED
    BY <2>1, <1>a
<1>2. ASSUME NEW t \in Threads, NEW b \in Buffers, AllocMem(t, b) PROVE GivenInv'
  <2>1. \A c \in Buffers : buffer'[c].state = IF c = b THEN "asked" ELSE buffer[c].state
    BY <1>2, <1>b DEF AllocMem, Call, Goto
  <2>2. /\ arg' = [arg EXCEPT ![t] = b] /\ maps' = maps
        /\ pc[t] = "idle" /\ pc' = [pc EXCEPT ![t] = "alloc"]
        /\ buffer[b].state = "none"
    BY <1>2 DEF AllocMem, Call, Goto
  <2> QED
    BY <2>1, <2>2, <1>a
<1>3. ASSUME NEW t \in Threads, NEW b \in Buffers, FreeMem(t, b) PROVE GivenInv'
  <2>1. \A c \in Buffers : buffer'[c].state = IF c = b THEN "freeing" ELSE buffer[c].state
    BY <1>3, <1>b DEF FreeMem, Call, Goto
  <2>2. /\ arg' = [arg EXCEPT ![t] = b] /\ maps' = maps
        /\ pc[t] = "idle" /\ pc' = [pc EXCEPT ![t] = "free"]
        /\ buffer[b].state = "live"
    BY <1>3 DEF FreeMem, Call, Goto
  <2> QED
    BY <2>1, <2>2, <1>a
<1>4. ASSUME NEW t \in Threads, NEW b \in Buffers, Mmap(t, b) PROVE GivenInv'
  BY <1>4, <1>a DEF Mmap, Call, Goto
<1>5. ASSUME NEW t \in Threads, NEW b \in Buffers, Unmap(t, b) PROVE GivenInv'
  BY <1>5, <1>a DEF Unmap, Call, Goto, MapsOf
<1>6. ASSUME NEW t \in Threads, Lock(t) PROVE GivenInv'
  <2>1. CASE Enter(t, "alloc", "get")
    BY <2>1 DEF Enter, Goto
  <2>2. CASE Enter(t, "free", "remove")
    BY <2>2 DEF Enter, Goto
  <2>3. CASE Enter(t, "mmap", "find")
    BY <2>3 DEF Enter, Goto
  <2>4. CASE Enter(t, "unmap", "drop")
    BY <2>4 DEF Enter, Goto
  <2> QED
    BY <1>6, <2>1, <2>2, <2>3, <2>4 DEF Lock
<1>7. ASSUME NEW t \in Threads, NewSegment(t) PROVE GivenInv'
  BY <1>7, <1>a DEF NewSegment, MakeSegment, Goto
<1>8. ASSUME NEW t \in Threads, NoMemory(t) PROVE GivenInv'
  <2>1. \A c \in Buffers : buffer'[c].state = IF c = arg[t] THEN "failed" ELSE buffer[c].state
    BY <1>8, <1>b DEF NoMemory, Failed, Goto
  <2>2. /\ arg' = arg /\ maps' = maps
        /\ pc[t] = "get" /\ pc' = [pc EXCEPT ![t] = "unlock"]
    BY <1>8 DEF NoMemory, Failed, Goto
  <2> QED
    BY <2>1, <2>2, <1>a
<1>9. ASSUME NEW t \in Threads, KeyTaken(t) PROVE GivenInv'
  BY <1>9, <1>a DEF KeyTaken, Wrapped
<1>10. ASSUME NEW t \in Threads, AttachFails(t) PROVE GivenInv'
  <2>1. \A c \in Buffers : buffer'[c].state = IF c = arg[t] THEN "failed" ELSE buffer[c].state
    BY <1>10, <1>b DEF AttachFails, Failed, Goto
  <2>2. /\ arg' = arg /\ maps' = maps
        /\ pc[t] = "attach" /\ pc' = [pc EXCEPT ![t] = "unlock"]
    BY <1>10 DEF AttachFails, Failed, Goto
  <2> QED
    BY <2>1, <2>2, <1>a
<1>11. ASSUME NEW t \in Threads, Fill(t) PROVE GivenInv'
  <2>1. \A c \in Buffers : buffer'[c].state = IF c = arg[t] THEN "filled" ELSE buffer[c].state
    BY <1>11, <1>b DEF Fill, Goto
  <2>2. /\ arg' = arg /\ maps' = maps
        /\ pc[t] = "attach" /\ pc' = [pc EXCEPT ![t] = "unlock"]
    BY <1>11 DEF Fill, Goto
  <2> QED
    BY <2>1, <2>2, <1>a
<1>12. ASSUME NEW t \in Threads, ClearFails(t) PROVE GivenInv'
  <2>1. \A c \in Buffers : buffer'[c].state = IF c = arg[t] THEN "failed" ELSE buffer[c].state
    BY <1>12, <1>b DEF ClearFails, Failed, Goto
  <2>2. /\ arg' = arg /\ maps' = maps
        /\ pc[t] = "attach" /\ pc' = [pc EXCEPT ![t] = "unlock"]
    BY <1>12 DEF ClearFails, Failed, Goto
  <2> QED
    BY <2>1, <2>2, <1>a
<1>13. ASSUME NEW t \in Threads, FreeShm(t) PROVE GivenInv'
  <2>1. \A c \in Buffers : buffer'[c].state = IF c = arg[t] THEN "freed" ELSE buffer[c].state
    BY <1>13, <1>b DEF FreeShm, Goto
  <2>2. /\ arg' = arg /\ maps' = maps
        /\ pc[t] = "remove" /\ pc' = [pc EXCEPT ![t] = "unlock"]
    BY <1>13 DEF FreeShm, Goto
  <2> QED
    BY <2>1, <2>2, <1>a
<1>14. ASSUME NEW t \in Threads, MmapShm(t) PROVE GivenInv'
  BY <1>14, <1>a DEF MmapShm, Goto
<1>15. ASSUME NEW t \in Threads, MmapAttach(t) PROVE GivenInv'
  BY <1>15, <1>a, MmapStates
<1>16. ASSUME NEW t \in Threads, UnmapShm(t) PROVE GivenInv'
  BY <1>16, <1>a DEF UnmapShm, Goto, MapsOf
<1>17. ASSUME NEW t \in Threads, Leave(t) PROVE GivenInv'
  <2>1. \A c \in Buffers : buffer'[c].state = IF c = arg[t] /\ buffer[c].state = "filled"
                                                 THEN "live" ELSE buffer[c].state
    BY <1>17, <1>b DEF Leave, Goto
  <2>2. /\ arg' = [arg EXCEPT ![t] = NoBuffer] /\ maps' = maps
        /\ pc[t] = "unlock" /\ pc' = [pc EXCEPT ![t] = "idle"]
    BY <1>17 DEF Leave, Goto
  <2> QED
    BY <2>1, <2>2, <1>a
<1> QED
  BY <1>0, <1>1, <1>2, <1>3, <1>4, <1>5, <1>6, <1>7, <1>8, <1>9, <1>10, <1>11,
     <1>12, <1>13, <1>14, <1>15, <1>16, <1>17
  DEF GrallocNext, Client, Body, AllocShm

(* shmget never makes a second segment with a key in use.                  *)
LEMMA UniqueNext ==
  ASSUME MemoryOK, UniqueKeys, [GrallocNext]_grallocVars
  PROVE  UniqueKeys'
<1> USE GrallocAssumption DEF MemoryOK, UniqueKeys, StillThere
<1>0. CASE UNCHANGED grallocVars
  BY <1>0 DEF grallocVars
<1>1. ASSUME NEW t \in Threads, NEW b \in Buffers, AllocUnsupported(t, b) PROVE UniqueKeys'
  BY <1>1 DEF AllocUnsupported, Call
<1>2. ASSUME NEW t \in Threads, NEW b \in Buffers, AllocMem(t, b) PROVE UniqueKeys'
  BY <1>2 DEF AllocMem, Call, Goto
<1>3. ASSUME NEW t \in Threads, NEW b \in Buffers, FreeMem(t, b) PROVE UniqueKeys'
  BY <1>3 DEF FreeMem, Call, Goto
<1>4. ASSUME NEW t \in Threads, NEW b \in Buffers, Mmap(t, b) PROVE UniqueKeys'
  BY <1>4 DEF Mmap, Call, Goto
<1>5. ASSUME NEW t \in Threads, NEW b \in Buffers, Unmap(t, b) PROVE UniqueKeys'
  BY <1>5 DEF Unmap, Call, Goto, MapsOf
<1>6. ASSUME NEW t \in Threads, Lock(t) PROVE UniqueKeys'
  BY <1>6 DEF Lock, Enter, Goto
<1>7. ASSUME NEW t \in Threads, NewSegment(t) PROVE UniqueKeys'
  BY <1>7 DEF NewSegment, MakeSegment, Goto, KeyInUse, StillThere
<1>8. ASSUME NEW t \in Threads, NoMemory(t) PROVE UniqueKeys'
  BY <1>8 DEF NoMemory, Failed, Goto
<1>9. ASSUME NEW t \in Threads, KeyTaken(t) PROVE UniqueKeys'
  BY <1>9 DEF KeyTaken, Wrapped
<1>10. ASSUME NEW t \in Threads, AttachFails(t) PROVE UniqueKeys'
  BY <1>10 DEF AttachFails, Failed, Goto
<1>11. ASSUME NEW t \in Threads, Fill(t) PROVE UniqueKeys'
  BY <1>11 DEF Fill, Goto, Wrapped
<1>12. ASSUME NEW t \in Threads, ClearFails(t) PROVE UniqueKeys'
  BY <1>12 DEF ClearFails, Failed, Goto
<1>13. ASSUME NEW t \in Threads, FreeShm(t) PROVE UniqueKeys'
  BY <1>13 DEF FreeShm, Goto
<1>14. ASSUME NEW t \in Threads, MmapShm(t) PROVE UniqueKeys'
  BY <1>14 DEF MmapShm, Goto
<1>15. ASSUME NEW t \in Threads, MmapAttach(t) PROVE UniqueKeys'
  BY <1>15 DEF MmapAttach, Goto
<1>16. ASSUME NEW t \in Threads, UnmapShm(t) PROVE UniqueKeys'
  BY <1>16 DEF UnmapShm, Goto, MapsOf
<1>17. ASSUME NEW t \in Threads, Leave(t) PROVE UniqueKeys'
  BY <1>17 DEF Leave, Goto
<1> QED
  BY <1>0, <1>1, <1>2, <1>3, <1>4, <1>5, <1>6, <1>7, <1>8, <1>9, <1>10, <1>11,
     <1>12, <1>13, <1>14, <1>15, <1>16, <1>17
  DEF GrallocNext, Client, Body, AllocShm

(* As long as requests are supported, a thread in the manager holds its    *)
(* process's mutex.                                                        *)
LEMMA MutexNext ==
  ASSUME ThreadsOK, MutexInv, [GrallocNext]_grallocVars
  PROVE  MutexInv'
<1> USE GrallocAssumption DEF ThreadsOK, MutexInv, InManager, Places
<1>0. CASE UNCHANGED grallocVars
  BY <1>0 DEF grallocVars
<1>1. ASSUME NEW t \in Threads, NEW b \in Buffers, AllocUnsupported(t, b) PROVE MutexInv'
  BY <1>1 DEF AllocUnsupported, Call
<1>2. ASSUME NEW t \in Threads, NEW b \in Buffers, AllocMem(t, b) PROVE MutexInv'
  BY <1>2 DEF AllocMem, Call, Goto
<1>3. ASSUME NEW t \in Threads, NEW b \in Buffers, FreeMem(t, b) PROVE MutexInv'
  BY <1>3 DEF FreeMem, Call, Goto
<1>4. ASSUME NEW t \in Threads, NEW b \in Buffers, Mmap(t, b) PROVE MutexInv'
  BY <1>4 DEF Mmap, Call, Goto
<1>5. ASSUME NEW t \in Threads, NEW b \in Buffers, Unmap(t, b) PROVE MutexInv'
  BY <1>5 DEF Unmap, Call, Goto, MapsOf
<1>6. ASSUME NEW t \in Threads, Lock(t) PROVE MutexInv'
  <2>1. CASE Enter(t, "alloc", "get")
    BY <2>1 DEF Enter, Goto
  <2>2. CASE Enter(t, "free", "remove")
    BY <2>2 DEF Enter, Goto
  <2>3. CASE Enter(t, "mmap", "find")
    BY <2>3 DEF Enter, Goto
  <2>4. CASE Enter(t, "unmap", "drop")
    BY <2>4 DEF Enter, Goto
  <2> QED
    BY <1>6, <2>1, <2>2, <2>3, <2>4 DEF Lock
<1>7. ASSUME NEW t \in Threads, NewSegment(t) PROVE MutexInv'
  BY <1>7 DEF NewSegment, MakeSegment, Goto
<1>8. ASSUME NEW t \in Threads, NoMemory(t) PROVE MutexInv'
  BY <1>8 DEF NoMemory, Failed, Goto
<1>9. ASSUME NEW t \in Threads, KeyTaken(t) PROVE MutexInv'
  BY <1>9 DEF KeyTaken, Wrapped
<1>10. ASSUME NEW t \in Threads, AttachFails(t) PROVE MutexInv'
  BY <1>10 DEF AttachFails, Failed, Goto
<1>11. ASSUME NEW t \in Threads, Fill(t) PROVE MutexInv'
  BY <1>11 DEF Fill, Goto, Wrapped
<1>12. ASSUME NEW t \in Threads, ClearFails(t) PROVE MutexInv'
  BY <1>12 DEF ClearFails, Failed, Goto
<1>13. ASSUME NEW t \in Threads, FreeShm(t) PROVE MutexInv'
  BY <1>13 DEF FreeShm, Goto
<1>14. ASSUME NEW t \in Threads, MmapShm(t) PROVE MutexInv'
  BY <1>14 DEF MmapShm, Goto
<1>15. ASSUME NEW t \in Threads, MmapAttach(t) PROVE MutexInv'
  BY <1>15 DEF MmapAttach, Goto
<1>16. ASSUME NEW t \in Threads, UnmapShm(t) PROVE MutexInv'
  BY <1>16 DEF UnmapShm, Goto, MapsOf
<1>17. ASSUME NEW t \in Threads, Leave(t) PROVE MutexInv'
  BY <1>17 DEF Leave, Goto
<1> QED
  BY <1>0, <1>1, <1>2, <1>3, <1>4, <1>5, <1>6, <1>7, <1>8, <1>9, <1>10, <1>11,
     <1>12, <1>13, <1>14, <1>15, <1>16, <1>17
  DEF GrallocNext, Client, Body, AllocShm

-----------------------------------------------------------------------------
(* Buffers and segments.                                                   *)

(* What a step does to the handles: which buffers are in use, and the      *)
(* segment and the key they name.                                          *)
Same(b) == /\ InUse(b)' <=> InUse(b)
           /\ buffer'[b].shmid = buffer[b].shmid /\ buffer'[b].fd = buffer[b].fd
           /\ buffer'[b].own = buffer[b].own

(* Filling a handle makes it name its thread's segment and key ...         *)
LEMMA FillUses ==
  ASSUME ThreadsOK, MemoryOK, HasBuffer, AskedInv, NEW t \in Threads, Fill(t)
  PROVE  /\ arg[t] \in Buffers /\ ~InUse(arg[t])
         /\ InUse(arg[t])' /\ buffer'[arg[t]].shmid = shmid[t] /\ buffer'[arg[t]].own = shmid[t]
        /\ buffer'[arg[t]].fd = key[ProcessOf[t]]
         /\ \A c \in Buffers \ {arg[t]} : Same(c)
BY GrallocAssumption
   DEF Fill, ThreadsOK, MemoryOK, Handles, HasBuffer, AskedInv, Allocates, InUse, Same

(* ... FreeMem ends its use ...                                            *)
LEMMA FreeUses ==
  ASSUME ThreadsOK, MemoryOK, HasBuffer, NEW t \in Threads, FreeShm(t)
  PROVE  /\ arg[t] \in Buffers /\ ~InUse(arg[t])'
         /\ \A c \in Buffers \ {arg[t]} : Same(c)
BY GrallocAssumption DEF FreeShm, ThreadsOK, MemoryOK, Handles, HasBuffer, InUse, Same

(* ... a change of state alone that does not end or begin it keeps what    *)
(* all handles name ...                                                    *)
LEMMA StateUses ==
  ASSUME MemoryOK, NEW x \in Buffers, NEW s, buffer' = [buffer EXCEPT ![x].state = s],
         s \in {"filled", "live", "freeing"} <=> InUse(x)
  PROVE  \A c \in Buffers : Same(c)
<1>1. \A c \in Buffers : /\ buffer'[c].state = IF c = x THEN s ELSE buffer[c].state
                         /\ buffer'[c].shmid = buffer[c].shmid
                         /\ buffer'[c].fd = buffer[c].fd
                         /\ buffer'[c].own = buffer[c].own
  <2>1. buffer \in [Buffers -> Handles]
    BY DEF MemoryOK
  <2> QED
    BY ONLY <2>1, x \in Buffers, buffer' = [buffer EXCEPT ![x].state = s] DEF Handles
<1> QED
  BY ONLY <1>1, x \in Buffers, s \in {"filled", "live", "freeing"} <=> InUse(x) DEF InUse, Same

(* ... and nothing else changes what the handles in use name.              *)
LEMMA OtherUses ==
  ASSUME ThreadsOK, MemoryOK, HasBuffer, AskedInv, NEW t \in Threads,
         \/ NoMemory(t) \/ AttachFails(t) \/ ClearFails(t) \/ Leave(t)
         \/ \E b \in Buffers : AllocMem(t, b) \/ AllocUnsupported(t, b) \/ FreeMem(t, b)
  PROVE  \A c \in Buffers : Same(c)
<1>f. ASSUME pc[t] \in {"get", "attach"}, Failed(t) PROVE \A c \in Buffers : Same(c)
  <2>1. arg[t] \in Buffers /\ ~InUse(arg[t])
    BY <1>f DEF HasBuffer, AskedInv, Allocates, InUse
  <2>2. buffer' = [buffer EXCEPT ![arg[t]].state = "failed"]
    BY <1>f DEF Failed
  <2> DEFINE s == "failed"
  <2>3. s \in {"filled", "live", "freeing"} <=> InUse(arg[t])
    BY <2>1
  <2>4. buffer' = [buffer EXCEPT ![arg[t]].state = s]
    BY <2>2
  <2> HIDE DEF s
  <2> QED
    BY <2>1, <2>3, <2>4, StateUses
<1>1. CASE NoMemory(t)
  BY <1>1, <1>f DEF NoMemory
<1>2. CASE AttachFails(t)
  BY <1>2, <1>f DEF AttachFails
<1>3. CASE ClearFails(t)
  BY <1>3, <1>f DEF ClearFails
<1>4. CASE Leave(t)
  <2>1. arg[t] \in Buffers
    BY <1>4 DEF Leave, HasBuffer
  <2> DEFINE s == IF buffer[arg[t]].state = "filled" THEN "live" ELSE buffer[arg[t]].state
  <2>2. buffer' = [buffer EXCEPT ![arg[t]].state = s]
    BY <1>4, <2>1 DEF Leave
  <2>3. s \in {"filled", "live", "freeing"} <=> InUse(arg[t])
    BY DEF InUse
  <2> HIDE DEF s
  <2> QED
    BY <2>1, <2>2, <2>3, StateUses
<1>5. ASSUME NEW b \in Buffers, AllocMem(t, b) PROVE \A c \in Buffers : Same(c)
  <2>1. \A c \in Buffers : /\ buffer'[c].state = IF c = b THEN "asked" ELSE buffer[c].state
                           /\ buffer'[c].shmid = buffer[c].shmid
                           /\ buffer'[c].fd = buffer[c].fd
                           /\ buffer'[c].own = buffer[c].own
    BY <1>5 DEF AllocMem, MemoryOK, Handles
  <2>2. buffer[b].state = "none"
    BY <1>5 DEF AllocMem
  <2> QED
    BY ONLY <2>1, <2>2 DEF InUse, Same
<1>6. ASSUME NEW b \in Buffers, FreeMem(t, b) PROVE \A c \in Buffers : Same(c)
  <2>1. buffer[b].state = "live" /\ buffer' = [buffer EXCEPT ![b].state = "freeing"]
    BY <1>6 DEF FreeMem
  <2>2. InUse(b)
    BY <2>1 DEF InUse
  <2> QED
    BY <2>1, <2>2, StateUses
<1>7. ASSUME NEW b \in Buffers, AllocUnsupported(t, b) PROVE \A c \in Buffers : Same(c)
  <2>1. /\ buffer[b].state = "none"
        /\ \/ buffer' = buffer
           \/ \E result \in {"hollow", "failed"} : buffer' = [buffer EXCEPT ![b].state = result]
    BY <1>7 DEF AllocUnsupported
  <2>2. ~InUse(b)
    BY <2>1 DEF InUse
  <2>3. ASSUME NEW result \in {"hollow", "failed"}, buffer' = [buffer EXCEPT ![b].state = result]
        PROVE  \A c \in Buffers : Same(c)
    BY <2>2, <2>3, StateUses
  <2>4. CASE buffer' = buffer
    BY <2>4 DEF InUse, Same
  <2> QED
    BY <2>1, <2>3, <2>4
<1> QED
  BY <1>1, <1>2, <1>3, <1>4, <1>5, <1>6, <1>7

(* ... but Mmap makes the handle name the segment it found.                *)
LEMMA MmapUses ==
  ASSUME ThreadsOK, MemoryOK, HasBuffer, NEW t \in Threads, MmapAttach(t)
  PROVE  /\ arg[t] \in Buffers
         /\ \A c \in Buffers :
              /\ InUse(c)' <=> InUse(c)
              /\ buffer'[c].state = buffer[c].state
              /\ buffer'[c].fd = buffer[c].fd /\ buffer'[c].own = buffer[c].own
              /\ \/ buffer'[c].shmid = buffer[c].shmid
                 \/ c = arg[t] /\ buffer'[c].shmid = shmid[t]
         /\ \A m \in maps' : m \in maps \/ (m.buffer = arg[t] /\ m.shmid = shmid[t])
         /\ pc[t] = "map" /\ pc' = [pc EXCEPT ![t] = "unlock"]
         /\ UNCHANGED <<made, removed, key, mutex, arg, shmid, proper, calls>>
<1>1. buffer \in [Buffers -> Handles] /\ arg[t] \in Buffers
  BY DEF MmapAttach, MemoryOK, HasBuffer
<1>2. \/ buffer' = buffer
      \/ buffer' = [buffer EXCEPT ![arg[t]].shmid = shmid[t]]
      \/ buffer' = [buffer EXCEPT ![arg[t]].shmid = buffer[arg[t]].shmid]
  BY DEF MmapAttach
<1>3. \A c \in Buffers :
         /\ buffer'[c].state = buffer[c].state
         /\ buffer'[c].fd = buffer[c].fd /\ buffer'[c].own = buffer[c].own
         /\ \/ buffer'[c].shmid = buffer[c].shmid
            \/ c = arg[t] /\ buffer'[c].shmid = shmid[t]
  BY <1>1, <1>2 DEF Handles
<1> QED
  BY <1>1, <1>3, MmapStates DEF InUse

(* A handle in another state is a handle.                                  *)
LEMMA StateChange ==
  ASSUME NEW h \in Handles, NEW s \in States
  PROVE  [h EXCEPT !.state = s] \in Handles
BY DEF Handles

(* Segments, handles and mappings keep their types.                        *)
LEMMA MemoryNext ==
  ASSUME ThreadsOK, MemoryOK, HasBuffer, AskedInv, Numbered,
         [GrallocNext]_grallocVars
  PROVE  MemoryOK'
<1> USE GrallocAssumption DEF ThreadsOK, MemoryOK, Handles, HasBuffer, Numbered,
    States, Places, SHM_START_KEY
<1>f. \A t \in Threads : pc[t] = "remove" => InUse(arg[t])
  BY DEF AskedInv, Frees, InUse
<1>0. CASE UNCHANGED grallocVars
  BY <1>0 DEF grallocVars
<1>1. ASSUME NEW t \in Threads, NEW b \in Buffers, AllocUnsupported(t, b) PROVE MemoryOK'
  <2>1. /\ UNCHANGED <<made, removed, maps, shmid>>
        /\ \/ buffer' = buffer
           \/ \E result \in {"hollow", "failed"} : buffer' = [buffer EXCEPT ![b].state = result]
    BY <1>1 DEF AllocUnsupported
  <2>2. ASSUME NEW result \in {"hollow", "failed"}, buffer' = [buffer EXCEPT ![b].state = result]
        PROVE  buffer' \in [Buffers -> Handles]
    <3>1. buffer[b] \in Handles /\ result \in States /\ buffer \in [Buffers -> Handles]
      OBVIOUS
    <3>2. [buffer[b] EXCEPT !.state = result] \in Handles
      BY ONLY <3>1, StateChange
    <3> QED
      BY ONLY <2>2, <3>1, <3>2
  <2> QED
    BY <2>1, <2>2
<1>2. ASSUME NEW t \in Threads, NEW b \in Buffers, AllocMem(t, b) PROVE MemoryOK'
  <2>1. buffer' \in [Buffers -> Handles]
    <3>1. b \in Buffers /\ buffer[b] \in Handles
      BY <1>2 DEF AllocMem, Call, Goto
    <3>2. [buffer[b] EXCEPT !.state = "asked", !.owner = ProcessOf[t]] \in Handles
      BY <3>1, <1>2 DEF AllocMem, Call, Goto
    <3>3. buffer' = [buffer EXCEPT ![b] =
                       [buffer[b] EXCEPT !.state = "asked", !.owner = ProcessOf[t]]]
      BY <3>1, <1>2 DEF AllocMem, Call, Goto
    <3> QED
      BY <3>1, <3>2, <3>3
  <2>2. removed' \subseteq DOMAIN made
    BY <1>2 DEF AllocMem, Call, Goto
  <2>3. UNCHANGED <<made, maps, shmid>>
    BY <1>2 DEF AllocMem, Call, Goto
  <2> QED
    BY <2>1, <2>2, <2>3
<1>3. ASSUME NEW t \in Threads, NEW b \in Buffers, FreeMem(t, b) PROVE MemoryOK'
  <2>1. /\ UNCHANGED <<made, removed, maps, shmid>>
        /\ buffer' = [buffer EXCEPT ![b] = [buffer[b] EXCEPT !.state = "freeing"]]
    BY <1>3 DEF FreeMem
  <2>2. [buffer[b] EXCEPT !.state = "freeing"] \in Handles
    <3>1. buffer[b] \in Handles /\ "freeing" \in States
      OBVIOUS
    <3> QED
      BY ONLY <3>1, StateChange
  <2> QED
    BY <2>1, <2>2
<1>4. ASSUME NEW t \in Threads, NEW b \in Buffers, Mmap(t, b) PROVE MemoryOK'
  BY <1>4 DEF Mmap, Call, Goto
<1>5. ASSUME NEW t \in Threads, NEW b \in Buffers, Unmap(t, b) PROVE MemoryOK'
  BY <1>5 DEF Unmap, Call, Goto, MapsOf
<1>6. ASSUME NEW t \in Threads, Lock(t) PROVE MemoryOK'
  BY <1>6 DEF Lock, Enter, Goto
<1>7. ASSUME NEW t \in Threads, NewSegment(t) PROVE MemoryOK'
  <2>1. /\ made' = Append(made, key[ProcessOf[t]])
        /\ shmid' = [shmid EXCEPT ![t] = Len(made) + 1]
        /\ UNCHANGED <<removed, buffer, maps>>
    BY <1>7 DEF NewSegment, MakeSegment
  <2>2. made' \in Seq(Nat) /\ Len(made') = Len(made) + 1 /\ Len(made) \in Nat
    BY <2>1
  <2>3. 0..Len(made) \subseteq 0..Len(made') /\ 1..Len(made) \subseteq 1..Len(made')
    BY <2>2
  <2>4. removed' \subseteq DOMAIN made' /\ shmid' \in [Threads -> 0..Len(made')]
    BY <2>1, <2>2, <2>3
  <2>5. buffer' \in [Buffers -> Handles']
    <3>1. \A h \in Handles : h \in Handles'
      BY <2>3 DEF Handles
    <3>2. buffer \in [Buffers -> Handles]
      OBVIOUS
    <3> QED
      BY ONLY <2>1, <3>1, <3>2
  <2>6. maps' \subseteq [ process : Processes, buffer : Buffers, shmid : 1..Len(made') ]
    BY <2>1, <2>3
  <2> QED
    BY ONLY <2>2, <2>4, <2>5, <2>6 DEF MemoryOK
<1>8. ASSUME NEW t \in Threads, NoMemory(t) PROVE MemoryOK'
  <2>1. /\ UNCHANGED <<made, removed, maps, shmid>>
        /\ buffer' = [buffer EXCEPT ![arg[t]] = [buffer[arg[t]] EXCEPT !.state = "failed"]]
    BY <1>8 DEF NoMemory, Failed
  <2>2. arg[t] \in Buffers /\ buffer[arg[t]] \in Handles /\ "failed" \in States
    BY <1>8 DEF NoMemory
  <2>3. [buffer[arg[t]] EXCEPT !.state = "failed"] \in Handles
    BY ONLY <2>2, StateChange
  <2> QED
    BY <2>1, <2>2, <2>3
<1>9. ASSUME NEW t \in Threads, KeyTaken(t) PROVE MemoryOK'
  BY <1>9 DEF KeyTaken, Wrapped
<1>10. ASSUME NEW t \in Threads, AttachFails(t) PROVE MemoryOK'
  <2>1. buffer' \in [Buffers -> Handles]
    <3>1. buffer' = [buffer EXCEPT ![arg[t]] = [buffer[arg[t]] EXCEPT !.state = "failed"]]
      BY <1>10 DEF AttachFails, Failed
    <3>2. arg[t] \in Buffers /\ buffer[arg[t]] \in Handles /\ "failed" \in States
      BY <1>10 DEF AttachFails
    <3>3. [buffer[arg[t]] EXCEPT !.state = "failed"] \in Handles
      BY ONLY <3>2, StateChange
    <3>4. buffer \in [Buffers -> Handles]
      OBVIOUS
    <3> HIDE DEF Handles
    <3> QED
      BY ONLY <3>1, <3>3, <3>4
  <2>2. removed' \subseteq DOMAIN made
    BY <1>10 DEF AttachFails, Failed, Goto
  <2>3. UNCHANGED <<made, maps, shmid>>
    BY <1>10 DEF AttachFails, Failed, Goto
  <2> QED
    BY <2>1, <2>2, <2>3
<1>11. ASSUME NEW t \in Threads, Fill(t) PROVE MemoryOK'
  <2>1. buffer' \in [Buffers -> Handles]
    <3>1. arg[t] \in Buffers /\ buffer[arg[t]] \in Handles
      BY <1>11 DEF Fill, Goto
    <3>2. [buffer[arg[t]] EXCEPT !.state = "filled", !.fd = key[ProcessOf[t]],
                                         !.shmid = shmid[t], !.own = shmid[t]] \in Handles
      BY <3>1, <1>11 DEF Fill, Goto
    <3>3. buffer' = [buffer EXCEPT ![arg[t]] =
                       [buffer[arg[t]] EXCEPT !.state = "filled", !.fd = key[ProcessOf[t]],
                                         !.shmid = shmid[t], !.own = shmid[t]]]
      BY <3>1, <1>11 DEF Fill, Goto
    <3> QED
      BY <3>1, <3>2, <3>3
  <2>2. removed' \subseteq DOMAIN made
    BY <1>11 DEF Fill, Goto
  <2>3. UNCHANGED <<made, maps, shmid>>
    BY <1>11 DEF Fill, Goto
  <2> QED
    BY <2>1, <2>2, <2>3
<1>12. ASSUME NEW t \in Threads, ClearFails(t) PROVE MemoryOK'
  <2>1. buffer' \in [Buffers -> Handles]
    <3>1. buffer' = [buffer EXCEPT ![arg[t]] = [buffer[arg[t]] EXCEPT !.state = "failed"]]
      BY <1>12 DEF ClearFails, Failed
    <3>2. arg[t] \in Buffers /\ buffer[arg[t]] \in Handles /\ "failed" \in States
      BY <1>12 DEF ClearFails
    <3>3. [buffer[arg[t]] EXCEPT !.state = "failed"] \in Handles
      BY ONLY <3>2, StateChange
    <3>4. buffer \in [Buffers -> Handles]
      OBVIOUS
    <3> HIDE DEF Handles
    <3> QED
      BY ONLY <3>1, <3>3, <3>4
  <2>2. removed' \subseteq DOMAIN made
    BY <1>12 DEF ClearFails, Failed, Goto
  <2>3. UNCHANGED <<made, maps, shmid>>
    BY <1>12 DEF ClearFails, Failed, Goto
  <2> QED
    BY <2>1, <2>2, <2>3
<1>13. ASSUME NEW t \in Threads, FreeShm(t) PROVE MemoryOK'
  <2>1. buffer' \in [Buffers -> Handles]
    <3>1. arg[t] \in Buffers /\ buffer[arg[t]] \in Handles
      BY <1>13 DEF FreeShm, Goto
    <3>2. [buffer[arg[t]] EXCEPT !.state = "freed"] \in Handles
      BY <3>1, <1>13 DEF FreeShm, Goto
    <3>3. buffer' = [buffer EXCEPT ![arg[t]] =
                       [buffer[arg[t]] EXCEPT !.state = "freed"]]
      BY <3>1, <1>13 DEF FreeShm, Goto
    <3> QED
      BY <3>1, <3>2, <3>3
  <2>4. buffer[arg[t]].shmid \in 1..Len(made)
    <3>1. arg[t] \in Buffers /\ InUse(arg[t])
      BY <1>13, <1>f DEF FreeShm
    <3>2. buffer[arg[t]].shmid # 0 /\ buffer[arg[t]].shmid \in 0..Len(made)
      BY <3>1
    <3> QED
      BY <3>2
  <2>2. removed' \subseteq DOMAIN made
    BY <1>13, <2>4 DEF FreeShm, Goto
  <2>3. UNCHANGED <<made, maps, shmid>>
    BY <1>13 DEF FreeShm, Goto
  <2> QED
    BY <2>1, <2>2, <2>3
<1>14. ASSUME NEW t \in Threads, MmapShm(t) PROVE MemoryOK'
  <2>1. UNCHANGED <<made, removed, buffer, maps>>
    BY <1>14 DEF MmapShm
  <2>2. shmid' \in [Threads -> 0..Len(made)]
    <3>1. ASSUME NEW i \in StillThere, shmid' = [shmid EXCEPT ![t] = i]
          PROVE  shmid' \in [Threads -> 0..Len(made)]
      <4>1. i \in 0..Len(made)
        BY DEF StillThere
      <4> QED
        BY <3>1, <4>1
    <3> QED
      BY <1>14, <3>1 DEF MmapShm
  <2> QED
    BY <2>1, <2>2
<1>15. ASSUME NEW t \in Threads, MmapAttach(t) PROVE MemoryOK'
  <2>1. UNCHANGED <<made, removed, shmid>>
    BY <1>15 DEF MmapAttach
  <2>2. arg[t] \in Buffers /\ shmid[t] \in 1..Len(made) /\ ProcessOf[t] \in Processes
    <3>1. pc[t] = "map"
      BY <1>15 DEF MmapAttach
    <3>2. shmid[t] \in 0..Len(made) /\ shmid[t] # 0
      BY <3>1
    <3>3. shmid[t] \in 1..Len(made)
      BY <3>2 DEF MemoryOK
    <3>4. arg[t] \in Buffers /\ ProcessOf[t] \in Processes
      BY <3>1
    <3> QED
      BY <3>3, <3>4
  <2>3. [process |-> ProcessOf[t], buffer |-> arg[t], shmid |-> shmid[t]]
          \in [ process : Processes, buffer : Buffers, shmid : 1..Len(made) ]
    BY <2>2
  <2>4. maps' \subseteq [ process : Processes, buffer : Buffers, shmid : 1..Len(made) ]
    BY <1>15, <2>3 DEF MmapAttach, MapsOf
  <2>5. buffer' \in [Buffers -> Handles]
    <3>1. /\ arg[t] \in Buffers /\ buffer[arg[t]] \in Handles
          /\ shmid[t] \in 0..Len(made) /\ buffer[arg[t]].shmid \in 0..Len(made)
      BY <2>2
    <3>2. \A i \in 0..Len(made) : [buffer[arg[t]] EXCEPT !.shmid = i] \in Handles
      BY <3>1
    <3>3. \/ buffer' = buffer
          \/ buffer' = [buffer EXCEPT ![arg[t]].shmid = shmid[t]]
          \/ buffer' = [buffer EXCEPT ![arg[t]].shmid = buffer[arg[t]].shmid]
      BY <1>15 DEF MmapAttach
    <3>4. ASSUME NEW i \in 0..Len(made), buffer' = [buffer EXCEPT ![arg[t]].shmid = i]
          PROVE  buffer' \in [Buffers -> Handles]
      <4>1. buffer' = [buffer EXCEPT ![arg[t]] = [buffer[arg[t]] EXCEPT !.shmid = i]]
        BY <3>4
      <4> QED
        BY <3>1, <3>2, <4>1
    <3> QED
      BY <3>1, <3>3, <3>4
  <2> QED
    BY <2>1, <2>4, <2>5
<1>16. ASSUME NEW t \in Threads, UnmapShm(t) PROVE MemoryOK'
  BY <1>16 DEF UnmapShm, Goto, MapsOf
<1>17. ASSUME NEW t \in Threads, Leave(t) PROVE MemoryOK'
  <2>1. buffer' \in [Buffers -> Handles]
    <3>1. arg[t] \in Buffers /\ buffer[arg[t]] \in Handles
      BY <1>17 DEF Leave, Goto
    <3>2. [buffer[arg[t]] EXCEPT !.state = IF @ = "filled" THEN "live" ELSE @] \in Handles
      BY <3>1, <1>17 DEF Leave, Goto
    <3>3. buffer' = [buffer EXCEPT ![arg[t]] =
                       [buffer[arg[t]] EXCEPT !.state = IF @ = "filled" THEN "live" ELSE @]]
      BY <3>1, <1>17 DEF Leave, Goto
    <3> QED
      BY <3>1, <3>2, <3>3
  <2>2. removed' \subseteq DOMAIN made
    BY <1>17 DEF Leave, Goto
  <2>3. UNCHANGED <<made, maps>>
    BY <1>17 DEF Leave, Goto
  <2>4. shmid' \in [Threads -> 0..Len(made)]
    BY <1>17 DEF Leave
  <2> QED
    BY <2>4, <2>1, <2>2, <2>3
<1> QED
  BY <1>0, <1>1, <1>2, <1>3, <1>4, <1>5, <1>6, <1>7, <1>8, <1>9, <1>10, <1>11,
     <1>12, <1>13, <1>14, <1>15, <1>16, <1>17
  DEF GrallocNext, Client, Body, AllocShm

(* A thread or a handle that is about to use a segment has one.            *)
LEMMA NumberedNext ==
  ASSUME ThreadsOK, MemoryOK, HasBuffer, AskedInv, Numbered,
         [GrallocNext]_grallocVars
  PROVE  Numbered'
<1> USE GrallocAssumption DEF Numbered, Places
<1>t. /\ pc \in [Threads -> Places] /\ shmid \in [Threads -> 0..Len(made)] /\ Len(made) \in Nat
     /\ \A c \in Buffers : buffer[c].shmid \in 0..Len(made) /\ buffer[c].own \in 0..Len(made)
  BY DEF ThreadsOK, MemoryOK, Handles
<1>0. CASE UNCHANGED grallocVars
  BY <1>0 DEF grallocVars, InUse
<1>1. ASSUME NEW t \in Threads, NEW b \in Buffers, AllocUnsupported(t, b) PROVE Numbered'
  <2>1. \A c \in Buffers : Same(c)
    BY <1>1, OtherUses
  <2>2. /\ \A u \in Threads : pc'[u] \in {pc[u], "dead"}
        /\ UNCHANGED <<made, shmid>>
    BY <1>1, <1>t DEF AllocUnsupported
  <2> QED
    BY <2>1, <2>2, <1>t DEF Same
<1>2. ASSUME NEW t \in Threads, NEW b \in Buffers, AllocMem(t, b) PROVE Numbered'
  <2>1. \A c \in Buffers : Same(c)
    BY <1>2, OtherUses
  <2>2. /\ pc[t] = "idle" /\ pc' = [pc EXCEPT ![t] = "alloc"]
        /\ arg' = [arg EXCEPT ![t] = b]
        /\ UNCHANGED <<made, removed, key, mutex, maps, shmid, proper>>
    BY <1>2 DEF AllocMem, Call, Goto
  <2> QED
    BY <2>1, <2>2, <1>t DEF Same
<1>3. ASSUME NEW t \in Threads, NEW b \in Buffers, FreeMem(t, b) PROVE Numbered'
  <2>1. \A c \in Buffers : Same(c)
    BY <1>3, OtherUses
  <2>2. /\ pc[t] = "idle" /\ pc' = [pc EXCEPT ![t] = "free"]
        /\ arg' = [arg EXCEPT ![t] = b]
        /\ UNCHANGED <<made, removed, key, mutex, maps, shmid, proper>>
    BY <1>3 DEF FreeMem, Call, Goto
  <2> QED
    BY <2>1, <2>2, <1>t DEF Same
<1>4. ASSUME NEW t \in Threads, NEW b \in Buffers, Mmap(t, b) PROVE Numbered'
  BY <1>4, <1>t DEF Mmap, Call, Goto, InUse
<1>5. ASSUME NEW t \in Threads, NEW b \in Buffers, Unmap(t, b) PROVE Numbered'
  BY <1>5, <1>t DEF Unmap, Call, Goto, MapsOf, InUse
<1>6. ASSUME NEW t \in Threads, Lock(t) PROVE Numbered'
  <2>1. CASE Enter(t, "alloc", "get")
    BY <2>1, <1>t DEF Enter, Goto, InUse
  <2>2. CASE Enter(t, "free", "remove")
    BY <2>2, <1>t DEF Enter, Goto, InUse
  <2>3. CASE Enter(t, "mmap", "find")
    BY <2>3, <1>t DEF Enter, Goto, InUse
  <2>4. CASE Enter(t, "unmap", "drop")
    BY <2>4, <1>t DEF Enter, Goto, InUse
  <2> QED
    BY <1>6, <2>1, <2>2, <2>3, <2>4 DEF Lock
<1>7. ASSUME NEW t \in Threads, NewSegment(t) PROVE Numbered'
  BY <1>7, <1>t DEF NewSegment, MakeSegment, Goto, InUse
<1>8. ASSUME NEW t \in Threads, NoMemory(t) PROVE Numbered'
  <2>1. \A c \in Buffers : Same(c)
    BY <1>8, OtherUses
  <2>2. /\ pc[t] = "get" /\ pc' = [pc EXCEPT ![t] = "unlock"]
        /\ arg' = arg
        /\ UNCHANGED <<made, removed, key, mutex, maps, shmid, proper>>
    BY <1>8 DEF NoMemory, Failed, Goto
  <2> QED
    BY <2>1, <2>2, <1>t DEF Same
<1>9. ASSUME NEW t \in Threads, KeyTaken(t) PROVE Numbered'
  BY <1>9, <1>t DEF KeyTaken, Wrapped, InUse
<1>10. ASSUME NEW t \in Threads, AttachFails(t) PROVE Numbered'
  <2>1. \A c \in Buffers : Same(c)
    BY <1>10, OtherUses
  <2>2. /\ pc[t] = "attach" /\ pc' = [pc EXCEPT ![t] = "unlock"]
        /\ arg' = arg
        /\ UNCHANGED <<made, key, mutex, maps, shmid, proper>>
        /\ removed' = removed \cup {shmid[t]}
    BY <1>10 DEF AttachFails, Failed, Goto
  <2> QED
    BY <2>1, <2>2, <1>t DEF Same
<1>11. ASSUME NEW t \in Threads, Fill(t) PROVE Numbered'
  <2>1. /\ arg[t] \in Buffers /\ ~InUse(arg[t])
        /\ InUse(arg[t])' /\ buffer'[arg[t]].shmid = shmid[t] /\ buffer'[arg[t]].own = shmid[t]
        /\ buffer'[arg[t]].fd = key[ProcessOf[t]]
        /\ \A c \in Buffers \ {arg[t]} : Same(c)
    BY <1>11, FillUses
  <2>2. /\ pc[t] = "attach" /\ pc' = [pc EXCEPT ![t] = "unlock"]
        /\ arg' = arg
        /\ UNCHANGED <<made, removed, mutex, maps, shmid, proper>>
        /\ key' = [key EXCEPT ![ProcessOf[t]] = Wrapped(@ + 1)]
    BY <1>11 DEF Fill, Goto
  <2> QED
    BY <2>1, <2>2, <1>t DEF Same
<1>12. ASSUME NEW t \in Threads, ClearFails(t) PROVE Numbered'
  <2>1. \A c \in Buffers : Same(c)
    BY <1>12, OtherUses
  <2>2. /\ pc[t] = "attach" /\ pc' = [pc EXCEPT ![t] = "unlock"]
        /\ arg' = arg
        /\ UNCHANGED <<made, mutex, maps, shmid, proper>>
        /\ removed' = removed \cup {shmid[t]} /\ key' = [key EXCEPT ![ProcessOf[t]] = @ + 1]
    BY <1>12 DEF ClearFails, Failed, Goto
  <2> QED
    BY <2>1, <2>2, <1>t DEF Same
<1>13. ASSUME NEW t \in Threads, FreeShm(t) PROVE Numbered'
  <2>1. /\ arg[t] \in Buffers /\ ~InUse(arg[t])'
        /\ \A c \in Buffers \ {arg[t]} : Same(c)
    BY <1>13, FreeUses
  <2>2. /\ pc[t] = "remove" /\ pc' = [pc EXCEPT ![t] = "unlock"]
        /\ arg' = arg
        /\ UNCHANGED <<made, key, mutex, maps, shmid, proper>>
        /\ removed' = removed \cup {buffer[arg[t]].shmid}
    BY <1>13 DEF FreeShm, Goto
  <2> QED
    BY <2>1, <2>2, <1>t DEF Same
<1>14. ASSUME NEW t \in Threads, MmapShm(t) PROVE Numbered'
  <2>1. UNCHANGED <<buffer, made>>
    BY <1>14 DEF MmapShm
  <2>2. pc[t] = "find" /\ \/ pc' = [pc EXCEPT ![t] = "unlock"] /\ shmid' = shmid
                          \/ pc' = [pc EXCEPT ![t] = "map"]
                               /\ \E i \in DOMAIN made : shmid' = [shmid EXCEPT ![t] = i]
    BY <1>14 DEF MmapShm, Goto, StillThere
  <2>3. \A i \in DOMAIN made : i # 0
    BY DEF MemoryOK
  <2> QED
    BY <2>1, <2>2, <2>3, <1>t DEF InUse
<1>15. ASSUME NEW t \in Threads, MmapAttach(t) PROVE Numbered'
  <2>1. /\ arg[t] \in Buffers
        /\ \A c \in Buffers :
             /\ InUse(c)' <=> InUse(c)
             /\ buffer'[c].state = buffer[c].state
             /\ buffer'[c].fd = buffer[c].fd /\ buffer'[c].own = buffer[c].own
             /\ \/ buffer'[c].shmid = buffer[c].shmid
                \/ c = arg[t] /\ buffer'[c].shmid = shmid[t]
        /\ \A m \in maps' : m \in maps \/ (m.buffer = arg[t] /\ m.shmid = shmid[t])
        /\ pc[t] = "map" /\ pc' = [pc EXCEPT ![t] = "unlock"]
        /\ UNCHANGED <<made, removed, key, mutex, arg, shmid, proper, calls>>
    BY <1>15, MmapUses
  <2> QED
    BY <2>1, <1>t
<1>16. ASSUME NEW t \in Threads, UnmapShm(t) PROVE Numbered'
  BY <1>16, <1>t DEF UnmapShm, Goto, MapsOf, InUse
<1>17. ASSUME NEW t \in Threads, Leave(t) PROVE Numbered'
  <2>1. \A c \in Buffers : Same(c)
    BY <1>17, OtherUses
  <2>2. /\ pc[t] = "unlock" /\ pc' = [pc EXCEPT ![t] = "idle"]
        /\ arg' = [arg EXCEPT ![t] = NoBuffer]
        /\ UNCHANGED <<made, removed, key, maps, proper>>
        /\ shmid' = [shmid EXCEPT ![t] = 0]
    BY <1>17 DEF Leave, Goto
  <2> QED
    BY <2>1, <2>2, <1>t DEF Same
<1> QED
  BY <1>0, <1>1, <1>2, <1>3, <1>4, <1>5, <1>6, <1>7, <1>8, <1>9, <1>10, <1>11,
     <1>12, <1>13, <1>14, <1>15, <1>16, <1>17
  DEF GrallocNext, Client, Body, AllocShm

(* No two buffers in use, or threads about to hand out a segment, have the *)
(* same one.                                                               *)
LEMMA OneOwnerNext ==
  ASSUME ThreadsOK, MemoryOK, HasBuffer, AskedInv, Numbered, OneOwner,
         [GrallocNext]_grallocVars
  PROVE  OneOwner'
<1> USE GrallocAssumption DEF Numbered, OneOwner, Places
<1>t. /\ pc \in [Threads -> Places] /\ shmid \in [Threads -> 0..Len(made)] /\ Len(made) \in Nat
     /\ \A c \in Buffers : buffer[c].shmid \in 0..Len(made) /\ buffer[c].own \in 0..Len(made)
  BY DEF ThreadsOK, MemoryOK, Handles
<1>0. CASE UNCHANGED grallocVars
  BY <1>0 DEF grallocVars, InUse
<1>1. ASSUME NEW t \in Threads, NEW b \in Buffers, AllocUnsupported(t, b) PROVE OneOwner'
  <2>1. \A c \in Buffers : Same(c)
    BY <1>1, OtherUses
  <2>2. /\ \A u \in Threads : pc'[u] \in {pc[u], "dead"}
        /\ UNCHANGED <<made, shmid>>
    BY <1>1, <1>t DEF AllocUnsupported
  <2> QED
    BY <2>1, <2>2, <1>t DEF Same
<1>2. ASSUME NEW t \in Threads, NEW b \in Buffers, AllocMem(t, b) PROVE OneOwner'
  <2>1. \A c \in Buffers : Same(c)
    BY <1>2, OtherUses
  <2>2. /\ pc[t] = "idle" /\ pc' = [pc EXCEPT ![t] = "alloc"]
        /\ arg' = [arg EXCEPT ![t] = b]
        /\ UNCHANGED <<made, removed, key, mutex, maps, shmid, proper>>
    BY <1>2 DEF AllocMem, Call, Goto
  <2> QED
    BY <2>1, <2>2, <1>t DEF Same
<1>3. ASSUME NEW t \in Threads, NEW b \in Buffers, FreeMem(t, b) PROVE OneOwner'
  <2>1. \A c \in Buffers : Same(c)
    BY <1>3, OtherUses
  <2>2. /\ pc[t] = "idle" /\ pc' = [pc EXCEPT ![t] = "free"]
        /\ arg' = [arg EXCEPT ![t] = b]
        /\ UNCHANGED <<made, removed, key, mutex, maps, shmid, proper>>
    BY <1>3 DEF FreeMem, Call, Goto
  <2> QED
    BY <2>1, <2>2, <1>t DEF Same
<1>4. ASSUME NEW t \in Threads, NEW b \in Buffers, Mmap(t, b) PROVE OneOwner'
  BY <1>4, <1>t DEF Mmap, Call, Goto, InUse
<1>5. ASSUME NEW t \in Threads, NEW b \in Buffers, Unmap(t, b) PROVE OneOwner'
  BY <1>5, <1>t DEF Unmap, Call, Goto, MapsOf, InUse
<1>6. ASSUME NEW t \in Threads, Lock(t) PROVE OneOwner'
  <2>1. CASE Enter(t, "alloc", "get")
    BY <2>1, <1>t DEF Enter, Goto, InUse
  <2>2. CASE Enter(t, "free", "remove")
    BY <2>2, <1>t DEF Enter, Goto, InUse
  <2>3. CASE Enter(t, "mmap", "find")
    BY <2>3, <1>t DEF Enter, Goto, InUse
  <2>4. CASE Enter(t, "unmap", "drop")
    BY <2>4, <1>t DEF Enter, Goto, InUse
  <2> QED
    BY <1>6, <2>1, <2>2, <2>3, <2>4 DEF Lock
<1>7. ASSUME NEW t \in Threads, NewSegment(t) PROVE OneOwner'
  BY <1>7, <1>t DEF NewSegment, MakeSegment, Goto, InUse
<1>8. ASSUME NEW t \in Threads, NoMemory(t) PROVE OneOwner'
  <2>1. \A c \in Buffers : Same(c)
    BY <1>8, OtherUses
  <2>2. /\ pc[t] = "get" /\ pc' = [pc EXCEPT ![t] = "unlock"]
        /\ arg' = arg
        /\ UNCHANGED <<made, removed, key, mutex, maps, shmid, proper>>
    BY <1>8 DEF NoMemory, Failed, Goto
  <2> QED
    BY <2>1, <2>2, <1>t DEF Same
<1>9. ASSUME NEW t \in Threads, KeyTaken(t) PROVE OneOwner'
  BY <1>9, <1>t DEF KeyTaken, Wrapped, InUse
<1>10. ASSUME NEW t \in Threads, AttachFails(t) PROVE OneOwner'
  <2>1. \A c \in Buffers : Same(c)
    BY <1>10, OtherUses
  <2>2. /\ pc[t] = "attach" /\ pc' = [pc EXCEPT ![t] = "unlock"]
        /\ arg' = arg
        /\ UNCHANGED <<made, key, mutex, maps, shmid, proper>>
        /\ removed' = removed \cup {shmid[t]}
    BY <1>10 DEF AttachFails, Failed, Goto
  <2> QED
    BY <2>1, <2>2, <1>t DEF Same
<1>11. ASSUME NEW t \in Threads, Fill(t) PROVE OneOwner'
  <2>1. /\ arg[t] \in Buffers /\ ~InUse(arg[t])
        /\ InUse(arg[t])' /\ buffer'[arg[t]].shmid = shmid[t] /\ buffer'[arg[t]].own = shmid[t]
        /\ buffer'[arg[t]].fd = key[ProcessOf[t]]
        /\ \A c \in Buffers \ {arg[t]} : Same(c)
    BY <1>11, FillUses
  <2>2. /\ pc[t] = "attach" /\ pc' = [pc EXCEPT ![t] = "unlock"]
        /\ arg' = arg
        /\ UNCHANGED <<made, removed, mutex, maps, shmid, proper>>
        /\ key' = [key EXCEPT ![ProcessOf[t]] = Wrapped(@ + 1)]
    BY <1>11 DEF Fill, Goto
  <2>3. \A u \in Threads : pc'[u] = "attach" => pc[u] = "attach" /\ u # t /\ shmid'[u] = shmid[u]
    BY <2>2, <1>t
  <2>4. \A c \in Buffers : InUse(c)' =>
          \/ c = arg[t] /\ buffer'[c].own = shmid[t]
          \/ InUse(c) /\ c # arg[t] /\ buffer'[c].own = buffer[c].own
    BY <2>1 DEF Same
  <2> QED
    BY <2>2, <2>3, <2>4
<1>12. ASSUME NEW t \in Threads, ClearFails(t) PROVE OneOwner'
  <2>1. \A c \in Buffers : Same(c)
    BY <1>12, OtherUses
  <2>2. /\ pc[t] = "attach" /\ pc' = [pc EXCEPT ![t] = "unlock"]
        /\ arg' = arg
        /\ UNCHANGED <<made, mutex, maps, shmid, proper>>
        /\ removed' = removed \cup {shmid[t]} /\ key' = [key EXCEPT ![ProcessOf[t]] = @ + 1]
    BY <1>12 DEF ClearFails, Failed, Goto
  <2> QED
    BY <2>1, <2>2, <1>t DEF Same
<1>13. ASSUME NEW t \in Threads, FreeShm(t) PROVE OneOwner'
  <2>1. /\ arg[t] \in Buffers /\ ~InUse(arg[t])'
        /\ \A c \in Buffers \ {arg[t]} : Same(c)
    BY <1>13, FreeUses
  <2>2. /\ pc[t] = "remove" /\ pc' = [pc EXCEPT ![t] = "unlock"]
        /\ arg' = arg
        /\ UNCHANGED <<made, key, mutex, maps, shmid, proper>>
        /\ removed' = removed \cup {buffer[arg[t]].shmid}
    BY <1>13 DEF FreeShm, Goto
  <2> QED
    BY <2>1, <2>2, <1>t DEF Same
<1>14. ASSUME NEW t \in Threads, MmapShm(t) PROVE OneOwner'
  <2>1. UNCHANGED <<buffer, made, removed, key, proper>>
    BY <1>14 DEF MmapShm
  <2>2. /\ pc[t] = "find" /\ \E to \in {"map", "unlock"} : pc' = [pc EXCEPT ![t] = to]
        /\ \A u \in Threads \ {t} : shmid'[u] = shmid[u]
    BY <1>14, <1>t DEF MmapShm, Goto
  <2> QED
    BY <2>1, <2>2, <1>t DEF InUse
<1>15. ASSUME NEW t \in Threads, MmapAttach(t) PROVE OneOwner'
  <2>1. /\ arg[t] \in Buffers
        /\ \A c \in Buffers :
             /\ InUse(c)' <=> InUse(c)
             /\ buffer'[c].state = buffer[c].state
             /\ buffer'[c].fd = buffer[c].fd /\ buffer'[c].own = buffer[c].own
             /\ \/ buffer'[c].shmid = buffer[c].shmid
                \/ c = arg[t] /\ buffer'[c].shmid = shmid[t]
        /\ \A m \in maps' : m \in maps \/ (m.buffer = arg[t] /\ m.shmid = shmid[t])
        /\ pc[t] = "map" /\ pc' = [pc EXCEPT ![t] = "unlock"]
        /\ UNCHANGED <<made, removed, key, mutex, arg, shmid, proper, calls>>
    BY <1>15, MmapUses
  <2> QED
    BY <2>1, <1>t
<1>16. ASSUME NEW t \in Threads, UnmapShm(t) PROVE OneOwner'
  BY <1>16, <1>t DEF UnmapShm, Goto, MapsOf, InUse
<1>17. ASSUME NEW t \in Threads, Leave(t) PROVE OneOwner'
  <2>1. \A c \in Buffers : Same(c)
    BY <1>17, OtherUses
  <2>2. /\ pc[t] = "unlock" /\ pc' = [pc EXCEPT ![t] = "idle"]
        /\ arg' = [arg EXCEPT ![t] = NoBuffer]
        /\ UNCHANGED <<made, removed, key, maps, proper>>
        /\ shmid' = [shmid EXCEPT ![t] = 0]
    BY <1>17 DEF Leave, Goto
  <2> QED
    BY <2>1, <2>2, <1>t DEF Same
<1> QED
  BY <1>0, <1>1, <1>2, <1>3, <1>4, <1>5, <1>6, <1>7, <1>8, <1>9, <1>10, <1>11,
     <1>12, <1>13, <1>14, <1>15, <1>16, <1>17
  DEF GrallocNext, Client, Body, AllocShm

(* A segment is removed before the last trace of it is lost.               *)
LEMMA OwnedNext ==
  ASSUME ThreadsOK, MemoryOK, HasBuffer, AskedInv, Numbered, FoundInv, Owned,
         [GrallocNext]_grallocVars
  PROVE  Owned'
<1> USE GrallocAssumption DEF Numbered, Owned, StillThere, Places
<1>t. /\ pc \in [Threads -> Places] /\ shmid \in [Threads -> 0..Len(made)] /\ Len(made) \in Nat
     /\ \A c \in Buffers : buffer[c].shmid \in 0..Len(made) /\ buffer[c].own \in 0..Len(made)
  BY DEF ThreadsOK, MemoryOK, Handles
<1>0. CASE UNCHANGED grallocVars
  BY <1>0 DEF grallocVars, InUse
<1>1. ASSUME NEW t \in Threads, NEW b \in Buffers, AllocUnsupported(t, b) PROVE Owned'
  <2>1. ~proper'
    BY <1>1 DEF AllocUnsupported
  <2> QED
    BY <2>1
<1>2. ASSUME NEW t \in Threads, NEW b \in Buffers, AllocMem(t, b) PROVE Owned'
  <2>1. \A c \in Buffers : Same(c)
    BY <1>2, OtherUses
  <2>2. /\ pc[t] = "idle" /\ pc' = [pc EXCEPT ![t] = "alloc"]
        /\ arg' = [arg EXCEPT ![t] = b]
        /\ UNCHANGED <<made, removed, key, mutex, maps, shmid, proper>>
    BY <1>2 DEF AllocMem, Call, Goto
  <2>3. SUFFICES ASSUME proper', NEW i \in StillThere'
                 PROVE  \/ \E c \in Buffers : InUse(c)' /\ buffer'[c].own = i
                        \/ \E u \in Threads : pc'[u] \in {"attach", "dead"} /\ shmid'[u] = i
    OBVIOUS
  <2>4. i \in StillThere
    BY <2>2
  <2>5. CASE \E c \in Buffers : InUse(c) /\ buffer[c].own = i
    BY <2>1, <2>2, <2>5 DEF Same
  <2>6. CASE \E u \in Threads : pc[u] \in {"attach", "dead"} /\ shmid[u] = i
    BY <2>2, <2>6, <1>t
  <2> QED
    BY <2>2, <2>3, <2>4, <2>5, <2>6
<1>3. ASSUME NEW t \in Threads, NEW b \in Buffers, FreeMem(t, b) PROVE Owned'
  <2>1. \A c \in Buffers : Same(c)
    BY <1>3, OtherUses
  <2>2. /\ pc[t] = "idle" /\ pc' = [pc EXCEPT ![t] = "free"]
        /\ arg' = [arg EXCEPT ![t] = b]
        /\ UNCHANGED <<made, removed, key, mutex, maps, shmid, proper>>
    BY <1>3 DEF FreeMem, Call, Goto
  <2>3. SUFFICES ASSUME proper', NEW i \in StillThere'
                 PROVE  \/ \E c \in Buffers : InUse(c)' /\ buffer'[c].own = i
                        \/ \E u \in Threads : pc'[u] \in {"attach", "dead"} /\ shmid'[u] = i
    OBVIOUS
  <2>4. i \in StillThere
    BY <2>2
  <2>5. CASE \E c \in Buffers : InUse(c) /\ buffer[c].own = i
    BY <2>1, <2>2, <2>5 DEF Same
  <2>6. CASE \E u \in Threads : pc[u] \in {"attach", "dead"} /\ shmid[u] = i
    BY <2>2, <2>6, <1>t
  <2> QED
    BY <2>2, <2>3, <2>4, <2>5, <2>6
<1>4. ASSUME NEW t \in Threads, NEW b \in Buffers, Mmap(t, b) PROVE Owned'
  BY <1>4, <1>t DEF Mmap, Call, Goto, InUse
<1>5. ASSUME NEW t \in Threads, NEW b \in Buffers, Unmap(t, b) PROVE Owned'
  BY <1>5, <1>t DEF Unmap, Call, Goto, MapsOf, InUse
<1>6. ASSUME NEW t \in Threads, Lock(t) PROVE Owned'
  <2>1. CASE Enter(t, "alloc", "get")
    BY <2>1, <1>t DEF Enter, Goto, InUse
  <2>2. CASE Enter(t, "free", "remove")
    BY <2>2, <1>t DEF Enter, Goto, InUse
  <2>3. CASE Enter(t, "mmap", "find")
    BY <2>3, <1>t DEF Enter, Goto, InUse
  <2>4. CASE Enter(t, "unmap", "drop")
    BY <2>4, <1>t DEF Enter, Goto, InUse
  <2> QED
    BY <1>6, <2>1, <2>2, <2>3, <2>4 DEF Lock
<1>7. ASSUME NEW t \in Threads, NewSegment(t) PROVE Owned'
  BY <1>7, <1>t DEF NewSegment, MakeSegment, Goto, InUse
<1>8. ASSUME NEW t \in Threads, NoMemory(t) PROVE Owned'
  <2>1. \A c \in Buffers : Same(c)
    BY <1>8, OtherUses
  <2>2. /\ pc[t] = "get" /\ pc' = [pc EXCEPT ![t] = "unlock"]
        /\ arg' = arg
        /\ UNCHANGED <<made, removed, key, mutex, maps, shmid, proper>>
    BY <1>8 DEF NoMemory, Failed, Goto
  <2>3. SUFFICES ASSUME proper', NEW i \in StillThere'
                 PROVE  \/ \E b \in Buffers : InUse(b)' /\ buffer'[b].own = i
                        \/ \E u \in Threads : pc'[u] \in {"attach", "dead"} /\ shmid'[u] = i
    OBVIOUS
  <2>4. i \in StillThere
    BY <2>2
  <2>5. CASE \E b \in Buffers : InUse(b) /\ buffer[b].own = i
    BY <2>1, <2>2, <2>5 DEF Same
  <2>6. CASE \E u \in Threads : pc[u] \in {"attach", "dead"} /\ shmid[u] = i
    BY <2>2, <2>6, <1>t
  <2> QED
    BY <2>2, <2>3, <2>4, <2>5, <2>6
<1>9. ASSUME NEW t \in Threads, KeyTaken(t) PROVE Owned'
  BY <1>9, <1>t DEF KeyTaken, Wrapped, InUse
<1>10. ASSUME NEW t \in Threads, AttachFails(t) PROVE Owned'
  <2>1. \A c \in Buffers : Same(c)
    BY <1>10, OtherUses
  <2>2. /\ pc[t] = "attach" /\ pc' = [pc EXCEPT ![t] = "unlock"]
        /\ arg' = arg
        /\ UNCHANGED <<made, key, mutex, maps, shmid, proper>>
        /\ removed' = removed \cup {shmid[t]}
    BY <1>10 DEF AttachFails, Failed, Goto
  <2>3. SUFFICES ASSUME proper', NEW i \in StillThere'
                 PROVE  \/ \E b \in Buffers : InUse(b)' /\ buffer'[b].own = i
                        \/ \E u \in Threads : pc'[u] \in {"attach", "dead"} /\ shmid'[u] = i
    OBVIOUS
  <2>4. i \in StillThere
    BY <2>2
  <2>5. CASE \E b \in Buffers : InUse(b) /\ buffer[b].own = i
    BY <2>1, <2>2, <2>5 DEF Same
  <2>6. CASE \E u \in Threads : pc[u] \in {"attach", "dead"} /\ shmid[u] = i
    BY <2>2, <2>6, <1>t
  <2> QED
    BY <2>2, <2>3, <2>4, <2>5, <2>6
<1>11. ASSUME NEW t \in Threads, Fill(t) PROVE Owned'
  <2>1. /\ arg[t] \in Buffers /\ ~InUse(arg[t])
        /\ InUse(arg[t])' /\ buffer'[arg[t]].shmid = shmid[t] /\ buffer'[arg[t]].own = shmid[t]
        /\ buffer'[arg[t]].fd = key[ProcessOf[t]]
        /\ \A c \in Buffers \ {arg[t]} : Same(c)
    BY <1>11, FillUses
  <2>2. /\ pc[t] = "attach" /\ pc' = [pc EXCEPT ![t] = "unlock"]
        /\ arg' = arg
        /\ UNCHANGED <<made, removed, mutex, maps, shmid, proper>>
        /\ key' = [key EXCEPT ![ProcessOf[t]] = Wrapped(@ + 1)]
    BY <1>11 DEF Fill, Goto
  <2>3. SUFFICES ASSUME proper', NEW i \in StillThere
                 PROVE  \/ \E b \in Buffers : InUse(b)' /\ buffer'[b].own = i
                        \/ \E u \in Threads : pc'[u] \in {"attach", "dead"} /\ shmid'[u] = i
    BY <2>2
  <2>4. CASE \E b \in Buffers : InUse(b) /\ buffer[b].own = i
    BY <2>1, <2>4 DEF Same
  <2>5. CASE \E u \in Threads : pc[u] \in {"attach", "dead"} /\ shmid[u] = i
    BY <2>1, <2>2, <2>5, <1>t
  <2> QED
    BY <2>2, <2>3, <2>4, <2>5
<1>12. ASSUME NEW t \in Threads, ClearFails(t) PROVE Owned'
  <2>1. \A c \in Buffers : Same(c)
    BY <1>12, OtherUses
  <2>2. /\ pc[t] = "attach" /\ pc' = [pc EXCEPT ![t] = "unlock"]
        /\ arg' = arg
        /\ UNCHANGED <<made, mutex, maps, shmid, proper>>
        /\ removed' = removed \cup {shmid[t]} /\ key' = [key EXCEPT ![ProcessOf[t]] = @ + 1]
    BY <1>12 DEF ClearFails, Failed, Goto
  <2>3. SUFFICES ASSUME proper', NEW i \in StillThere'
                 PROVE  \/ \E b \in Buffers : InUse(b)' /\ buffer'[b].own = i
                        \/ \E u \in Threads : pc'[u] \in {"attach", "dead"} /\ shmid'[u] = i
    OBVIOUS
  <2>4. i \in StillThere
    BY <2>2
  <2>5. CASE \E b \in Buffers : InUse(b) /\ buffer[b].own = i
    BY <2>1, <2>2, <2>5 DEF Same
  <2>6. CASE \E u \in Threads : pc[u] \in {"attach", "dead"} /\ shmid[u] = i
    BY <2>2, <2>6, <1>t
  <2> QED
    BY <2>2, <2>3, <2>4, <2>5, <2>6
<1>13. ASSUME NEW t \in Threads, FreeShm(t) PROVE Owned'
  <2>1. /\ arg[t] \in Buffers /\ ~InUse(arg[t])'
        /\ \A c \in Buffers \ {arg[t]} : Same(c)
    BY <1>13, FreeUses
  <2>2. /\ pc[t] = "remove" /\ pc' = [pc EXCEPT ![t] = "unlock"]
        /\ arg' = arg
        /\ UNCHANGED <<made, key, mutex, maps, shmid, proper>>
        /\ removed' = removed \cup {buffer[arg[t]].shmid}
    BY <1>13 DEF FreeShm, Goto
  <2>3. SUFFICES ASSUME proper', NEW i \in StillThere'
                 PROVE  \/ \E b \in Buffers : InUse(b)' /\ buffer'[b].own = i
                        \/ \E u \in Threads : pc'[u] \in {"attach", "dead"} /\ shmid'[u] = i
    OBVIOUS
  <2>4. i \in StillThere
    BY <2>2
  <2>7. i # buffer[arg[t]].shmid
    BY <2>2
  <2>8. InUse(arg[t])
    BY <2>1, <2>2 DEF AskedInv, Frees, InUse
  <2>9. i # buffer[arg[t]].own
    BY <2>1, <2>2, <2>3, <2>4, <2>7, <2>8 DEF FoundInv, Names
  <2>5. CASE \E b \in Buffers : InUse(b) /\ buffer[b].own = i
    BY <2>1, <2>2, <2>5, <2>9 DEF Same
  <2>6. CASE \E u \in Threads : pc[u] \in {"attach", "dead"} /\ shmid[u] = i
    BY <2>2, <2>6, <1>t
  <2> QED
    BY <2>2, <2>3, <2>4, <2>5, <2>6
<1>14. ASSUME NEW t \in Threads, MmapShm(t) PROVE Owned'
  <2>1. UNCHANGED <<buffer, made, removed, key, proper>>
    BY <1>14 DEF MmapShm
  <2>2. /\ pc[t] = "find" /\ \E to \in {"map", "unlock"} : pc' = [pc EXCEPT ![t] = to]
        /\ \A u \in Threads \ {t} : shmid'[u] = shmid[u]
    BY <1>14, <1>t DEF MmapShm, Goto
  <2> QED
    BY <2>1, <2>2, <1>t DEF InUse
<1>15. ASSUME NEW t \in Threads, MmapAttach(t) PROVE Owned'
  <2>1. /\ arg[t] \in Buffers
        /\ \A c \in Buffers :
             /\ InUse(c)' <=> InUse(c)
             /\ buffer'[c].state = buffer[c].state
             /\ buffer'[c].fd = buffer[c].fd /\ buffer'[c].own = buffer[c].own
             /\ \/ buffer'[c].shmid = buffer[c].shmid
                \/ c = arg[t] /\ buffer'[c].shmid = shmid[t]
        /\ \A m \in maps' : m \in maps \/ (m.buffer = arg[t] /\ m.shmid = shmid[t])
        /\ pc[t] = "map" /\ pc' = [pc EXCEPT ![t] = "unlock"]
        /\ UNCHANGED <<made, removed, key, mutex, arg, shmid, proper, calls>>
    BY <1>15, MmapUses
  <2>2. /\ \A c \in Buffers : InUse(c) => InUse(c)' /\ buffer'[c].own = buffer[c].own
        /\ \A u \in Threads : pc[u] \in {"attach", "dead"} => pc'[u] = pc[u]
    BY <2>1, <1>t
  <2>3. SUFFICES ASSUME proper', NEW i \in StillThere'
                 PROVE  \/ \E b \in Buffers : InUse(b)' /\ buffer'[b].own = i
                        \/ \E u \in Threads : pc'[u] \in {"attach", "dead"} /\ shmid'[u] = i
    OBVIOUS
  <2>4. CASE \E b \in Buffers : InUse(b) /\ buffer[b].own = i
    BY <2>2, <2>4
  <2>5. CASE \E u \in Threads : pc[u] \in {"attach", "dead"} /\ shmid[u] = i
    BY <2>1, <2>2, <2>5
  <2> QED
    BY <2>1, <2>3, <2>4, <2>5
<1>16. ASSUME NEW t \in Threads, UnmapShm(t) PROVE Owned'
  BY <1>16, <1>t DEF UnmapShm, Goto, MapsOf, InUse
<1>17. ASSUME NEW t \in Threads, Leave(t) PROVE Owned'
  <2>1. \A c \in Buffers : Same(c)
    BY <1>17, OtherUses
  <2>2. /\ pc[t] = "unlock" /\ pc' = [pc EXCEPT ![t] = "idle"]
        /\ arg' = [arg EXCEPT ![t] = NoBuffer]
        /\ UNCHANGED <<made, removed, key, maps, proper>>
        /\ shmid' = [shmid EXCEPT ![t] = 0]
    BY <1>17 DEF Leave, Goto
  <2>3. SUFFICES ASSUME proper', NEW i \in StillThere'
                 PROVE  \/ \E b \in Buffers : InUse(b)' /\ buffer'[b].own = i
                        \/ \E u \in Threads : pc'[u] \in {"attach", "dead"} /\ shmid'[u] = i
    OBVIOUS
  <2>4. i \in StillThere
    BY <2>2
  <2>5. CASE \E b \in Buffers : InUse(b) /\ buffer[b].own = i
    BY <2>1, <2>2, <2>5 DEF Same
  <2>6. CASE \E u \in Threads : pc[u] \in {"attach", "dead"} /\ shmid[u] = i
    BY <2>2, <2>6, <1>t
  <2> QED
    BY <2>2, <2>3, <2>4, <2>5, <2>6
<1> QED
  BY <1>0, <1>1, <1>2, <1>3, <1>4, <1>5, <1>6, <1>7, <1>8, <1>9, <1>10, <1>11,
     <1>12, <1>13, <1>14, <1>15, <1>16, <1>17
  DEF GrallocNext, Client, Body, AllocShm

-----------------------------------------------------------------------------
(* Keys.                                                                   *)

(* The key a segment was made with is still its process's key when the     *)
(* handle gets it.                                                         *)
LEMMA KeyNext ==
  ASSUME ThreadsOK, MemoryOK, HasBuffer, AskedInv, Numbered, MutexInv, KeyKept,
         [GrallocNext]_grallocVars
  PROVE  KeyKept'
<1> USE GrallocAssumption DEF KeyKept, InManager, Places
<1>t. /\ pc \in [Threads -> Places] /\ shmid \in [Threads -> 0..Len(made)] /\ Len(made) \in Nat
     /\ \A c \in Buffers : buffer[c].shmid \in 0..Len(made) /\ buffer[c].own \in 0..Len(made)
  BY DEF ThreadsOK, MemoryOK, Handles
<1>n. \A c \in Buffers : InUse(c) => buffer[c].shmid \in 1..Len(made)
  BY <1>t DEF Numbered
<1>u. \A u \in Threads : pc[u] \in {"attach", "map"} => shmid[u] \in 1..Len(made)
  BY <1>t DEF Numbered
<1>o. proper => \A t, u \in Threads : /\ InManager(t) /\ InManager(u)
                                       /\ ProcessOf[t] = ProcessOf[u] => t = u
  BY DEF MutexInv
<1>p. ProcessOf \in [Threads -> Processes] /\ key \in [Processes -> Nat]
  BY DEF ThreadsOK
<1>0. CASE UNCHANGED grallocVars
  BY <1>0 DEF grallocVars, InUse
<1>1. ASSUME NEW t \in Threads, NEW b \in Buffers, AllocUnsupported(t, b) PROVE KeyKept'
  <2>1. ~proper'
    BY <1>1 DEF AllocUnsupported
  <2> QED
    BY <2>1
<1>2. ASSUME NEW t \in Threads, NEW b \in Buffers, AllocMem(t, b) PROVE KeyKept'
  <2>1. \A c \in Buffers : Same(c)
    BY <1>2, OtherUses
  <2>2. /\ pc[t] = "idle" /\ pc' = [pc EXCEPT ![t] = "alloc"]
        /\ arg' = [arg EXCEPT ![t] = b]
        /\ UNCHANGED <<made, removed, key, mutex, maps, shmid, proper>>
    BY <1>2 DEF AllocMem, Call, Goto
  <2> QED
    BY <2>1, <2>2, <1>t DEF Same
<1>3. ASSUME NEW t \in Threads, NEW b \in Buffers, FreeMem(t, b) PROVE KeyKept'
  <2>1. \A c \in Buffers : Same(c)
    BY <1>3, OtherUses
  <2>2. /\ pc[t] = "idle" /\ pc' = [pc EXCEPT ![t] = "free"]
        /\ arg' = [arg EXCEPT ![t] = b]
        /\ UNCHANGED <<made, removed, key, mutex, maps, shmid, proper>>
    BY <1>3 DEF FreeMem, Call, Goto
  <2> QED
    BY <2>1, <2>2, <1>t DEF Same
<1>4. ASSUME NEW t \in Threads, NEW b \in Buffers, Mmap(t, b) PROVE KeyKept'
  BY <1>4, <1>t DEF Mmap, Call, Goto, InUse
<1>5. ASSUME NEW t \in Threads, NEW b \in Buffers, Unmap(t, b) PROVE KeyKept'
  BY <1>5, <1>t DEF Unmap, Call, Goto, MapsOf, InUse
<1>6. ASSUME NEW t \in Threads, Lock(t) PROVE KeyKept'
  <2>1. CASE Enter(t, "alloc", "get")
    BY <2>1, <1>t DEF Enter, Goto, InUse
  <2>2. CASE Enter(t, "free", "remove")
    BY <2>2, <1>t DEF Enter, Goto, InUse
  <2>3. CASE Enter(t, "mmap", "find")
    BY <2>3, <1>t DEF Enter, Goto, InUse
  <2>4. CASE Enter(t, "unmap", "drop")
    BY <2>4, <1>t DEF Enter, Goto, InUse
  <2> QED
    BY <1>6, <2>1, <2>2, <2>3, <2>4 DEF Lock
<1>7. ASSUME NEW t \in Threads, NewSegment(t) PROVE KeyKept'
  <2>1. /\ made' = Append(made, key[ProcessOf[t]])
        /\ shmid' = [shmid EXCEPT ![t] = Len(made) + 1]
        /\ pc[t] = "get" /\ pc' = [pc EXCEPT ![t] = "attach"]
        /\ UNCHANGED <<removed, key, mutex, buffer, maps, arg, proper>>
    BY <1>7 DEF NewSegment, MakeSegment, Goto
  <2>2. made \in Seq(Nat)
    BY DEF MemoryOK
  <2>3. /\ \A i \in 1..Len(made) : made'[i] = made[i]
        /\ made'[Len(made) + 1] = key[ProcessOf[t]]
        /\ Len(made') = Len(made) + 1
    BY <2>1, <2>2
  <2> QED
    BY <2>1, <2>3, <1>t, <1>u, <1>p
<1>8. ASSUME NEW t \in Threads, NoMemory(t) PROVE KeyKept'
  <2>1. \A c \in Buffers : Same(c)
    BY <1>8, OtherUses
  <2>2. /\ pc[t] = "get" /\ pc' = [pc EXCEPT ![t] = "unlock"]
        /\ arg' = arg
        /\ UNCHANGED <<made, removed, key, mutex, maps, shmid, proper>>
    BY <1>8 DEF NoMemory, Failed, Goto
  <2> QED
    BY <2>1, <2>2, <1>t DEF Same
<1>9. ASSUME NEW t \in Threads, KeyTaken(t) PROVE KeyKept'
  <2>1. /\ pc[t] = "get" /\ \A p \in Processes \ {ProcessOf[t]} : key'[p] = key[p]
        /\ UNCHANGED <<made, pc, shmid, proper>>
    BY <1>9, <1>p DEF KeyTaken
  <2> QED
    BY <2>1, <1>o, <1>p
<1>10. ASSUME NEW t \in Threads, AttachFails(t) PROVE KeyKept'
  <2>1. \A c \in Buffers : Same(c)
    BY <1>10, OtherUses
  <2>2. /\ pc[t] = "attach" /\ pc' = [pc EXCEPT ![t] = "unlock"]
        /\ arg' = arg
        /\ UNCHANGED <<made, key, mutex, maps, shmid, proper>>
        /\ removed' = removed \cup {shmid[t]}
    BY <1>10 DEF AttachFails, Failed, Goto
  <2> QED
    BY <2>1, <2>2, <1>t DEF Same
<1>11. ASSUME NEW t \in Threads, Fill(t) PROVE KeyKept'
  <2>1. /\ arg[t] \in Buffers /\ ~InUse(arg[t])
        /\ InUse(arg[t])' /\ buffer'[arg[t]].shmid = shmid[t] /\ buffer'[arg[t]].own = shmid[t]
        /\ buffer'[arg[t]].fd = key[ProcessOf[t]]
        /\ \A c \in Buffers \ {arg[t]} : Same(c)
    BY <1>11, FillUses
  <2>2. /\ pc[t] = "attach" /\ pc' = [pc EXCEPT ![t] = "unlock"]
        /\ arg' = arg
        /\ UNCHANGED <<made, removed, mutex, maps, shmid, proper>>
        /\ key' = [key EXCEPT ![ProcessOf[t]] = Wrapped(@ + 1)]
    BY <1>11 DEF Fill, Goto
  <2> QED
    BY <2>1, <2>2, <1>t, <1>o, <1>p DEF Same
<1>12. ASSUME NEW t \in Threads, ClearFails(t) PROVE KeyKept'
  <2>1. \A c \in Buffers : Same(c)
    BY <1>12, OtherUses
  <2>2. /\ pc[t] = "attach" /\ pc' = [pc EXCEPT ![t] = "unlock"]
        /\ arg' = arg
        /\ UNCHANGED <<made, mutex, maps, shmid, proper>>
        /\ removed' = removed \cup {shmid[t]} /\ key' = [key EXCEPT ![ProcessOf[t]] = @ + 1]
    BY <1>12 DEF ClearFails, Failed, Goto
  <2> QED
    BY <2>1, <2>2, <1>t, <1>o, <1>p DEF Same
<1>13. ASSUME NEW t \in Threads, FreeShm(t) PROVE KeyKept'
  <2>1. /\ arg[t] \in Buffers /\ ~InUse(arg[t])'
        /\ \A c \in Buffers \ {arg[t]} : Same(c)
    BY <1>13, FreeUses
  <2>2. /\ pc[t] = "remove" /\ pc' = [pc EXCEPT ![t] = "unlock"]
        /\ arg' = arg
        /\ UNCHANGED <<made, key, mutex, maps, shmid, proper>>
        /\ removed' = removed \cup {buffer[arg[t]].shmid}
    BY <1>13 DEF FreeShm, Goto
  <2> QED
    BY <2>1, <2>2, <1>t DEF Same
<1>14. ASSUME NEW t \in Threads, MmapShm(t) PROVE KeyKept'
  <2>1. UNCHANGED <<buffer, made, removed, key, proper>>
    BY <1>14 DEF MmapShm
  <2>2. /\ pc[t] = "find" /\ \E to \in {"map", "unlock"} : pc' = [pc EXCEPT ![t] = to]
        /\ \A u \in Threads \ {t} : shmid'[u] = shmid[u]
    BY <1>14, <1>t DEF MmapShm, Goto
  <2> QED
    BY <2>1, <2>2, <1>t DEF InUse
<1>15. ASSUME NEW t \in Threads, MmapAttach(t) PROVE KeyKept'
  <2>1. /\ arg[t] \in Buffers
        /\ \A c \in Buffers :
             /\ InUse(c)' <=> InUse(c)
             /\ buffer'[c].state = buffer[c].state
             /\ buffer'[c].fd = buffer[c].fd /\ buffer'[c].own = buffer[c].own
             /\ \/ buffer'[c].shmid = buffer[c].shmid
                \/ c = arg[t] /\ buffer'[c].shmid = shmid[t]
        /\ \A m \in maps' : m \in maps \/ (m.buffer = arg[t] /\ m.shmid = shmid[t])
        /\ pc[t] = "map" /\ pc' = [pc EXCEPT ![t] = "unlock"]
        /\ UNCHANGED <<made, removed, key, mutex, arg, shmid, proper, calls>>
    BY <1>15, MmapUses
  <2> QED
    BY <2>1, <1>t
<1>16. ASSUME NEW t \in Threads, UnmapShm(t) PROVE KeyKept'
  BY <1>16, <1>t DEF UnmapShm, Goto, MapsOf, InUse
<1>17. ASSUME NEW t \in Threads, Leave(t) PROVE KeyKept'
  <2>1. \A c \in Buffers : Same(c)
    BY <1>17, OtherUses
  <2>2. /\ pc[t] = "unlock" /\ pc' = [pc EXCEPT ![t] = "idle"]
        /\ arg' = [arg EXCEPT ![t] = NoBuffer]
        /\ UNCHANGED <<made, removed, key, maps, proper>>
        /\ shmid' = [shmid EXCEPT ![t] = 0]
    BY <1>17 DEF Leave, Goto
  <2> QED
    BY <2>1, <2>2, <1>t DEF Same
<1> QED
  BY <1>0, <1>1, <1>2, <1>3, <1>4, <1>5, <1>6, <1>7, <1>8, <1>9, <1>10, <1>11,
     <1>12, <1>13, <1>14, <1>15, <1>16, <1>17
  DEF GrallocNext, Client, Body, AllocShm

(* A handle gets the key its segment was made with.                        *)
LEMMA NamedNext ==
  ASSUME ThreadsOK, MemoryOK, HasBuffer, AskedInv, GivenInv, Numbered, MutexInv, KeyKept,
         Named, [GrallocNext]_grallocVars
  PROVE  Named'
<1> USE GrallocAssumption DEF KeyKept, Named, InManager, Places
<1>t. /\ pc \in [Threads -> Places] /\ shmid \in [Threads -> 0..Len(made)] /\ Len(made) \in Nat
     /\ \A c \in Buffers : buffer[c].shmid \in 0..Len(made) /\ buffer[c].own \in 0..Len(made)
  BY DEF ThreadsOK, MemoryOK, Handles
<1>b. buffer \in [Buffers -> Handles]
  BY DEF MemoryOK
<1>n. \A c \in Buffers : InUse(c) => buffer[c].shmid \in 1..Len(made) /\ buffer[c].own \in 1..Len(made)
  BY <1>t DEF Numbered
<1>u. \A u \in Threads : pc[u] \in {"attach", "map"} => shmid[u] \in 1..Len(made)
  BY <1>t DEF Numbered
<1>g. \A u \in Threads : pc[u] = "map" => arg[u] \in Buffers /\ Given(arg[u])
  BY DEF HasBuffer, GivenInv, Maps
<1>0. CASE UNCHANGED grallocVars
  BY <1>0 DEF grallocVars, InUse
<1>1. ASSUME NEW t \in Threads, NEW b \in Buffers, AllocUnsupported(t, b) PROVE Named'
  <2>1. ~proper'
    BY <1>1 DEF AllocUnsupported
  <2> QED
    BY <2>1
<1>2. ASSUME NEW t \in Threads, NEW b \in Buffers, AllocMem(t, b) PROVE Named'
  <2>1. \A c \in Buffers : Same(c)
    BY <1>2, OtherUses
  <2>2. /\ pc[t] = "idle" /\ pc' = [pc EXCEPT ![t] = "alloc"]
        /\ arg' = [arg EXCEPT ![t] = b]
        /\ UNCHANGED <<made, removed, key, mutex, maps, shmid, proper>>
    BY <1>2 DEF AllocMem, Call, Goto
  <2> QED
    BY <2>1, <2>2, <1>t, <1>g, <1>n DEF Same
<1>3. ASSUME NEW t \in Threads, NEW b \in Buffers, FreeMem(t, b) PROVE Named'
  <2>1. \A c \in Buffers : Same(c)
    BY <1>3, OtherUses
  <2>2. /\ pc[t] = "idle" /\ pc' = [pc EXCEPT ![t] = "free"]
        /\ arg' = [arg EXCEPT ![t] = b]
        /\ UNCHANGED <<made, removed, key, mutex, maps, shmid, proper>>
    BY <1>3 DEF FreeMem, Call, Goto
  <2> QED
    BY <2>1, <2>2, <1>t, <1>g, <1>n DEF Same
<1>4. ASSUME NEW t \in Threads, NEW b \in Buffers, Mmap(t, b) PROVE Named'
  BY <1>4, <1>t DEF Mmap, Call, Goto, InUse
<1>5. ASSUME NEW t \in Threads, NEW b \in Buffers, Unmap(t, b) PROVE Named'
  BY <1>5, <1>t DEF Unmap, Call, Goto, MapsOf, InUse
<1>6. ASSUME NEW t \in Threads, Lock(t) PROVE Named'
  <2>1. CASE Enter(t, "alloc", "get")
    BY <2>1, <1>t DEF Enter, Goto, InUse
  <2>2. CASE Enter(t, "free", "remove")
    BY <2>2, <1>t DEF Enter, Goto, InUse
  <2>3. CASE Enter(t, "mmap", "find")
    BY <2>3, <1>t DEF Enter, Goto, InUse
  <2>4. CASE Enter(t, "unmap", "drop")
    BY <2>4, <1>t DEF Enter, Goto, InUse
  <2> QED
    BY <1>6, <2>1, <2>2, <2>3, <2>4 DEF Lock
<1>7. ASSUME NEW t \in Threads, NewSegment(t) PROVE Named'
  <2>1. /\ made' = Append(made, key[ProcessOf[t]])
        /\ shmid' = [shmid EXCEPT ![t] = Len(made) + 1]
        /\ pc[t] = "get" /\ pc' = [pc EXCEPT ![t] = "attach"]
        /\ UNCHANGED <<removed, key, mutex, buffer, maps, arg, proper>>
    BY <1>7 DEF NewSegment, MakeSegment, Goto
  <2>2. made \in Seq(Nat)
    BY DEF MemoryOK
  <2>3. /\ \A i \in 1..Len(made) : made'[i] = made[i]
        /\ made'[Len(made) + 1] = key[ProcessOf[t]]
        /\ Len(made') = Len(made) + 1
    BY <2>1, <2>2
  <2> QED
    BY <2>1, <2>3, <1>t, <1>u, <1>g, <1>n DEF InUse
<1>8. ASSUME NEW t \in Threads, NoMemory(t) PROVE Named'
  <2>1. \A c \in Buffers : Same(c)
    BY <1>8, OtherUses
  <2>2. /\ pc[t] = "get" /\ pc' = [pc EXCEPT ![t] = "unlock"]
        /\ arg' = arg
        /\ UNCHANGED <<made, removed, key, mutex, maps, shmid, proper>>
    BY <1>8 DEF NoMemory, Failed, Goto
  <2> QED
    BY <2>1, <2>2, <1>t, <1>g, <1>n DEF Same
<1>9. ASSUME NEW t \in Threads, KeyTaken(t) PROVE Named'
  BY <1>9, <1>t DEF KeyTaken, Wrapped, InUse
<1>10. ASSUME NEW t \in Threads, AttachFails(t) PROVE Named'
  <2>1. \A c \in Buffers : Same(c)
    BY <1>10, OtherUses
  <2>2. /\ pc[t] = "attach" /\ pc' = [pc EXCEPT ![t] = "unlock"]
        /\ arg' = arg
        /\ UNCHANGED <<made, key, mutex, maps, shmid, proper>>
        /\ removed' = removed \cup {shmid[t]}
    BY <1>10 DEF AttachFails, Failed, Goto
  <2> QED
    BY <2>1, <2>2, <1>t, <1>g, <1>n DEF Same
<1>11. ASSUME NEW t \in Threads, Fill(t) PROVE Named'
  <2>1. /\ arg[t] \in Buffers /\ ~InUse(arg[t])
        /\ InUse(arg[t])' /\ buffer'[arg[t]].shmid = shmid[t] /\ buffer'[arg[t]].own = shmid[t]
        /\ buffer'[arg[t]].fd = key[ProcessOf[t]]
        /\ \A c \in Buffers \ {arg[t]} : Same(c)
    BY <1>11, FillUses
  <2>2. /\ pc[t] = "attach" /\ pc' = [pc EXCEPT ![t] = "unlock"]
        /\ arg' = arg
        /\ UNCHANGED <<made, removed, mutex, maps, shmid, proper>>
        /\ key' = [key EXCEPT ![ProcessOf[t]] = Wrapped(@ + 1)]
    BY <1>11 DEF Fill, Goto
  <2>3. ~Given(arg[t])
    BY <2>2 DEF AskedInv, Allocates, Given
  <2>4. \A u \in Threads : pc'[u] = "map" => pc[u] = "map" /\ arg[u] \in Buffers \ {arg[t]}
    BY <2>2, <2>3, <1>t, <1>g
  <2> QED
    <3>1. proper => \A b \in Buffers : InUse(b)' => /\ made[buffer'[b].shmid] = buffer'[b].fd
                                                    /\ made[buffer'[b].own] = buffer'[b].fd
      BY <2>1, <2>2 DEF Same
    <3>2. proper => \A u \in Threads : pc'[u] = "map" => made[shmid[u]] = buffer'[arg[u]].fd
      BY <2>1, <2>4 DEF Same
    <3> QED
      BY <2>2, <3>1, <3>2
<1>12. ASSUME NEW t \in Threads, ClearFails(t) PROVE Named'
  <2>1. \A c \in Buffers : Same(c)
    BY <1>12, OtherUses
  <2>2. /\ pc[t] = "attach" /\ pc' = [pc EXCEPT ![t] = "unlock"]
        /\ arg' = arg
        /\ UNCHANGED <<made, mutex, maps, shmid, proper>>
        /\ removed' = removed \cup {shmid[t]} /\ key' = [key EXCEPT ![ProcessOf[t]] = @ + 1]
    BY <1>12 DEF ClearFails, Failed, Goto
  <2> QED
    BY <2>1, <2>2, <1>t, <1>g, <1>n DEF Same
<1>13. ASSUME NEW t \in Threads, FreeShm(t) PROVE Named'
  <2>1. /\ arg[t] \in Buffers /\ ~InUse(arg[t])'
        /\ \A c \in Buffers \ {arg[t]} : Same(c)
    BY <1>13, FreeUses
  <2>3. buffer'[arg[t]].fd = buffer[arg[t]].fd
    BY <1>13, <1>b DEF FreeShm, HasBuffer
  <2>2. /\ pc[t] = "remove" /\ pc' = [pc EXCEPT ![t] = "unlock"]
        /\ arg' = arg
        /\ UNCHANGED <<made, key, mutex, maps, shmid, proper>>
        /\ removed' = removed \cup {buffer[arg[t]].shmid}
    BY <1>13 DEF FreeShm, Goto
  <2>4. \A c \in Buffers :
          InUse(c)' => /\ InUse(c) /\ buffer'[c].shmid = buffer[c].shmid
                       /\ buffer'[c].fd = buffer[c].fd /\ buffer'[c].own = buffer[c].own
    BY ONLY <2>1, <2>2 DEF Same, InUse
  <2>5. \A u \in Threads : pc'[u] = "map" =>
          /\ pc[u] = "map" /\ arg' = arg /\ shmid' = shmid
          /\ buffer'[arg[u]].fd = buffer[arg[u]].fd
    <3>1. \A c \in Buffers : buffer'[c].fd = buffer[c].fd
      BY ONLY <2>1, <2>3 DEF Same
    <3> QED
      BY ONLY <2>2, <1>t, <1>g, <3>1
  <2>6. made' = made /\ proper' = proper
    BY <2>2
  <2> QED
    BY ONLY <2>4, <2>5, <2>6, Named DEF Named
<1>14. ASSUME NEW t \in Threads, MmapShm(t) PROVE Named'
  <2>1. /\ UNCHANGED <<buffer, made, arg, proper>> /\ pc[t] = "find"
        /\ \/ pc' = [pc EXCEPT ![t] = "unlock"] /\ shmid' = shmid
           \/ /\ pc' = [pc EXCEPT ![t] = "map"]
              /\ \E i \in StillThere :
                   made[i] = buffer[arg[t]].fd /\ shmid' = [shmid EXCEPT ![t] = i]
    BY <1>14 DEF MmapShm, Goto
  <2> QED
    BY <2>1, <1>t DEF InUse
<1>15. ASSUME NEW t \in Threads, MmapAttach(t) PROVE Named'
  <2>1. /\ arg[t] \in Buffers
        /\ \A c \in Buffers :
             /\ InUse(c)' <=> InUse(c)
             /\ buffer'[c].state = buffer[c].state
             /\ buffer'[c].fd = buffer[c].fd /\ buffer'[c].own = buffer[c].own
             /\ \/ buffer'[c].shmid = buffer[c].shmid
                \/ c = arg[t] /\ buffer'[c].shmid = shmid[t]
        /\ \A m \in maps' : m \in maps \/ (m.buffer = arg[t] /\ m.shmid = shmid[t])
        /\ pc[t] = "map" /\ pc' = [pc EXCEPT ![t] = "unlock"]
        /\ UNCHANGED <<made, removed, key, mutex, arg, shmid, proper, calls>>
    BY <1>15, MmapUses
  <2>2. proper => made[shmid[t]] = buffer[arg[t]].fd
    BY <2>1
  <2>3. proper => \A c \in Buffers : InUse(c)' => /\ made[buffer'[c].shmid] = buffer'[c].fd
                                                  /\ made[buffer'[c].own] = buffer'[c].fd
    BY <2>1, <2>2
  <2>4. \A u \in Threads : pc'[u] = "map" => pc[u] = "map"
    BY <2>1, <1>t
  <2> QED
    BY <2>1, <2>3, <2>4, <1>g
<1>16. ASSUME NEW t \in Threads, UnmapShm(t) PROVE Named'
  BY <1>16, <1>t DEF UnmapShm, Goto, MapsOf, InUse
<1>17. ASSUME NEW t \in Threads, Leave(t) PROVE Named'
  <2>1. \A c \in Buffers : Same(c)
    BY <1>17, OtherUses
  <2>2. /\ pc[t] = "unlock" /\ pc' = [pc EXCEPT ![t] = "idle"]
        /\ arg' = [arg EXCEPT ![t] = NoBuffer]
        /\ UNCHANGED <<made, removed, key, maps, proper>>
        /\ shmid' = [shmid EXCEPT ![t] = 0]
    BY <1>17 DEF Leave, Goto
  <2>3. proper => \A c \in Buffers : InUse(c)' => /\ made[buffer'[c].shmid] = buffer'[c].fd
                                                  /\ made[buffer'[c].own] = buffer'[c].fd
    BY <2>1 DEF Same
  <2>4. \A u \in Threads : pc'[u] = "map" => /\ pc[u] = "map" /\ arg'[u] = arg[u]
                                             /\ shmid'[u] = shmid[u] /\ arg[u] \in Buffers
    BY <2>2, <1>t, <1>g
  <2> QED
    BY <2>1, <2>2, <2>3, <2>4 DEF Same
<1> QED
  BY <1>0, <1>1, <1>2, <1>3, <1>4, <1>5, <1>6, <1>7, <1>8, <1>9, <1>10, <1>11,
     <1>12, <1>13, <1>14, <1>15, <1>16, <1>17
  DEF GrallocNext, Client, Body, AllocShm

(* The segment found by a handle's key is the handle's, if that is still   *)
(* there.                                                                  *)
LEMMA FoundNext ==
  ASSUME ThreadsOK, MemoryOK, HasBuffer, AskedInv, GivenInv, Numbered, UniqueKeys,
         MutexInv, Named, FoundInv, [GrallocNext]_grallocVars
  PROVE  FoundInv'
<1> USE GrallocAssumption DEF FoundInv, Names, StillThere, Places
<1>t. /\ pc \in [Threads -> Places] /\ shmid \in [Threads -> 0..Len(made)] /\ Len(made) \in Nat
     /\ arg \in [Threads -> Buffers \cup {NoBuffer}]
     /\ \A c \in Buffers : buffer[c].shmid \in 0..Len(made) /\ buffer[c].own \in 0..Len(made)
  BY DEF ThreadsOK, MemoryOK, Handles
<1>n. \A c \in Buffers : InUse(c) => buffer[c].shmid \in 1..Len(made) /\ buffer[c].own \in 1..Len(made)
  BY <1>t DEF Numbered
<1>u. \A u \in Threads : pc[u] \in {"attach", "map"} => shmid[u] \in 1..Len(made)
  BY <1>t DEF Numbered
<1>g. /\ \A u \in Threads : pc[u] = "map" => arg[u] \in Buffers /\ Given(arg[u])
     /\ \A m \in maps : m.buffer \in Buffers /\ Given(m.buffer)
  BY DEF HasBuffer, GivenInv, Maps, MemoryOK
<1>0. CASE UNCHANGED grallocVars
  BY <1>0 DEF grallocVars, InUse
<1>1. ASSUME NEW t \in Threads, NEW b \in Buffers, AllocUnsupported(t, b) PROVE FoundInv'
  <2>1. ~proper'
    BY <1>1 DEF AllocUnsupported
  <2> QED
    BY <2>1
<1>2. ASSUME NEW t \in Threads, NEW b \in Buffers, AllocMem(t, b) PROVE FoundInv'
  <2>1. \A c \in Buffers : Same(c)
    BY <1>2, OtherUses
  <2>2. /\ pc[t] = "idle" /\ pc' = [pc EXCEPT ![t] = "alloc"]
        /\ arg' = [arg EXCEPT ![t] = b]
        /\ UNCHANGED <<made, removed, key, mutex, maps, shmid, proper>>
    BY <1>2 DEF AllocMem, Call, Goto
  <2> QED
    BY <2>1, <2>2, <1>t, <1>g, <1>n DEF Same
<1>3. ASSUME NEW t \in Threads, NEW b \in Buffers, FreeMem(t, b) PROVE FoundInv'
  <2>1. \A c \in Buffers : Same(c)
    BY <1>3, OtherUses
  <2>2. /\ pc[t] = "idle" /\ pc' = [pc EXCEPT ![t] = "free"]
        /\ arg' = [arg EXCEPT ![t] = b]
        /\ UNCHANGED <<made, removed, key, mutex, maps, shmid, proper>>
    BY <1>3 DEF FreeMem, Call, Goto
  <2> QED
    BY <2>1, <2>2, <1>t, <1>g, <1>n DEF Same
<1>4. ASSUME NEW t \in Threads, NEW b \in Buffers, Mmap(t, b) PROVE FoundInv'
  BY <1>4, <1>t DEF Mmap, Call, Goto, InUse
<1>5. ASSUME NEW t \in Threads, NEW b \in Buffers, Unmap(t, b) PROVE FoundInv'
  BY <1>5, <1>t DEF Unmap, Call, Goto, MapsOf, InUse
<1>6. ASSUME NEW t \in Threads, Lock(t) PROVE FoundInv'
  <2>1. CASE Enter(t, "alloc", "get")
    BY <2>1, <1>t DEF Enter, Goto, InUse
  <2>2. CASE Enter(t, "free", "remove")
    BY <2>2, <1>t DEF Enter, Goto, InUse
  <2>3. CASE Enter(t, "mmap", "find")
    BY <2>3, <1>t DEF Enter, Goto, InUse
  <2>4. CASE Enter(t, "unmap", "drop")
    BY <2>4, <1>t DEF Enter, Goto, InUse
  <2> QED
    BY <1>6, <2>1, <2>2, <2>3, <2>4 DEF Lock
<1>7. ASSUME NEW t \in Threads, NewSegment(t) PROVE FoundInv'
  <2>1. /\ made' = Append(made, key[ProcessOf[t]])
        /\ shmid' = [shmid EXCEPT ![t] = Len(made) + 1]
        /\ pc[t] = "get" /\ pc' = [pc EXCEPT ![t] = "attach"]
        /\ UNCHANGED <<removed, key, mutex, buffer, maps, arg, proper>>
    BY <1>7 DEF NewSegment, MakeSegment, Goto
  <2>2. made \in Seq(Nat)
    BY DEF MemoryOK
  <2>3. /\ \A i \in 1..Len(made) : made'[i] = made[i]
        /\ made'[Len(made) + 1] = key[ProcessOf[t]]
        /\ Len(made') = Len(made) + 1
    BY <2>1, <2>2
  <2> QED
    BY <2>1, <2>3, <1>n, <1>g DEF InUse
<1>8. ASSUME NEW t \in Threads, NoMemory(t) PROVE FoundInv'
  <2>1. \A c \in Buffers : Same(c)
    BY <1>8, OtherUses
  <2>2. /\ pc[t] = "get" /\ pc' = [pc EXCEPT ![t] = "unlock"]
        /\ arg' = arg
        /\ UNCHANGED <<made, removed, key, mutex, maps, shmid, proper>>
    BY <1>8 DEF NoMemory, Failed, Goto
  <2> QED
    BY <2>1, <2>2, <1>t, <1>g, <1>n DEF Same
<1>9. ASSUME NEW t \in Threads, KeyTaken(t) PROVE FoundInv'
  BY <1>9, <1>t DEF KeyTaken, Wrapped, InUse
<1>10. ASSUME NEW t \in Threads, AttachFails(t) PROVE FoundInv'
  <2>1. \A c \in Buffers : Same(c)
    BY <1>10, OtherUses
  <2>2. /\ pc[t] = "attach" /\ pc' = [pc EXCEPT ![t] = "unlock"]
        /\ arg' = arg
        /\ UNCHANGED <<made, key, mutex, maps, shmid, proper>>
        /\ removed' = removed \cup {shmid[t]}
    BY <1>10 DEF AttachFails, Failed, Goto
  <2> QED
    BY <2>1, <2>2, <1>t, <1>g, <1>n DEF Same
<1>11. ASSUME NEW t \in Threads, Fill(t) PROVE FoundInv'
  <2>1. /\ arg[t] \in Buffers /\ ~InUse(arg[t])
        /\ InUse(arg[t])' /\ buffer'[arg[t]].shmid = shmid[t] /\ buffer'[arg[t]].own = shmid[t]
        /\ buffer'[arg[t]].fd = key[ProcessOf[t]]
        /\ \A c \in Buffers \ {arg[t]} : Same(c)
    BY <1>11, FillUses
  <2>2. /\ pc[t] = "attach" /\ pc' = [pc EXCEPT ![t] = "unlock"]
        /\ arg' = arg
        /\ UNCHANGED <<made, removed, mutex, maps, shmid, proper>>
        /\ key' = [key EXCEPT ![ProcessOf[t]] = Wrapped(@ + 1)]
    BY <1>11 DEF Fill, Goto
  <2>3. ~Given(arg[t])
    BY <2>2 DEF AskedInv, Allocates, Given
  <2>4. \A c \in Buffers : Given(c) => c # arg[t] /\ Same(c)
    BY <2>1, <2>3
  <2>5. \A u \in Threads : pc'[u] = "map" => pc[u] = "map"
    BY <2>2, <1>t
  <2> QED
    BY <2>1, <2>2, <2>4, <2>5, <1>g DEF Same
<1>12. ASSUME NEW t \in Threads, ClearFails(t) PROVE FoundInv'
  <2>1. \A c \in Buffers : Same(c)
    BY <1>12, OtherUses
  <2>2. /\ pc[t] = "attach" /\ pc' = [pc EXCEPT ![t] = "unlock"]
        /\ arg' = arg
        /\ UNCHANGED <<made, mutex, maps, shmid, proper>>
        /\ removed' = removed \cup {shmid[t]} /\ key' = [key EXCEPT ![ProcessOf[t]] = @ + 1]
    BY <1>12 DEF ClearFails, Failed, Goto
  <2> QED
    BY <2>1, <2>2, <1>t, <1>g, <1>n DEF Same
<1>13. ASSUME NEW t \in Threads, FreeShm(t) PROVE FoundInv'
  <2>1. /\ arg[t] \in Buffers /\ ~InUse(arg[t])'
        /\ \A c \in Buffers \ {arg[t]} : Same(c)
    BY <1>13, FreeUses
  <2>2. /\ pc[t] = "remove" /\ pc' = [pc EXCEPT ![t] = "unlock"]
        /\ arg' = arg
        /\ UNCHANGED <<made, key, mutex, maps, shmid, proper>>
        /\ removed' = removed \cup {buffer[arg[t]].shmid}
    BY <1>13 DEF FreeShm, Goto
  <2> QED
    BY <2>1, <2>2, <1>t, <1>g, <1>n DEF Same
<1>14. ASSUME NEW t \in Threads, MmapShm(t) PROVE FoundInv'
  <2>1. /\ UNCHANGED <<buffer, made, removed, maps, arg, proper>> /\ pc[t] = "find"
        /\ \/ pc' = [pc EXCEPT ![t] = "unlock"] /\ shmid' = shmid
           \/ /\ pc' = [pc EXCEPT ![t] = "map"]
              /\ \E i \in StillThere :
                   made[i] = buffer[arg[t]].fd /\ shmid' = [shmid EXCEPT ![t] = i]
    BY <1>14 DEF MmapShm, Goto
  <2>2. arg[t] \in Buffers
    BY <2>1 DEF HasBuffer
  <2>3. proper /\ InUse(arg[t]) => made[buffer[arg[t]].own] = buffer[arg[t]].fd
    BY <2>2 DEF Named
  <2>4. ASSUME proper, NEW i \in StillThere, made[i] = buffer[arg[t]].fd PROVE Names(i, arg[t])
    BY <2>3, <2>4 DEF UniqueKeys
  <2>5. \A i, c : Names(i, c)' <=> Names(i, c)
    BY <2>1 DEF InUse
  <2>6. CASE pc' = [pc EXCEPT ![t] = "unlock"] /\ shmid' = shmid
    BY <2>1, <2>6, <1>t DEF InUse
  <2>7. ASSUME NEW i \in StillThere, made[i] = buffer[arg[t]].fd, shmid' = [shmid EXCEPT ![t] = i],
               pc' = [pc EXCEPT ![t] = "map"]
        PROVE  FoundInv'
    BY <2>1, <2>4, <2>5, <2>7, <1>t DEF InUse
  <2> QED
    BY <2>1, <2>6, <2>7
<1>15. ASSUME NEW t \in Threads, MmapAttach(t) PROVE FoundInv'
  <2>1. /\ arg[t] \in Buffers
        /\ \A c \in Buffers :
             /\ InUse(c)' <=> InUse(c)
             /\ buffer'[c].state = buffer[c].state
             /\ buffer'[c].fd = buffer[c].fd /\ buffer'[c].own = buffer[c].own
             /\ \/ buffer'[c].shmid = buffer[c].shmid
                \/ c = arg[t] /\ buffer'[c].shmid = shmid[t]
        /\ \A m \in maps' : m \in maps \/ (m.buffer = arg[t] /\ m.shmid = shmid[t])
        /\ pc[t] = "map" /\ pc' = [pc EXCEPT ![t] = "unlock"]
        /\ UNCHANGED <<made, removed, key, mutex, arg, shmid, proper, calls>>
    BY <1>15, MmapUses
  <2>2. \A c \in Buffers : \A i : Names(i, c)' <=> Names(i, c)
    BY <2>1
  <2>3. proper => Names(shmid[t], arg[t])
    BY <2>1
  <2>4. proper => \A u \in Threads : pc'[u] = "map" => Names(shmid[u], arg[u])'
    BY <2>1, <2>2, <1>t, <1>g
  <2>5. proper => \A m \in maps' : Names(m.shmid, m.buffer)'
    BY <2>1, <2>2, <2>3, <1>g
  <2>6. proper => \A c \in Buffers : Names(buffer[c].shmid, c)'
    BY <2>1, <2>2, <2>3
  <2> QED
    BY <2>1, <2>4, <2>5, <2>6
<1>16. ASSUME NEW t \in Threads, UnmapShm(t) PROVE FoundInv'
  BY <1>16, <1>t DEF UnmapShm, Goto, MapsOf, InUse
<1>17. ASSUME NEW t \in Threads, Leave(t) PROVE FoundInv'
  <2>1. \A c \in Buffers : Same(c)
    BY <1>17, OtherUses
  <2>2. /\ pc[t] = "unlock" /\ pc' = [pc EXCEPT ![t] = "idle"]
        /\ arg' = [arg EXCEPT ![t] = NoBuffer]
        /\ UNCHANGED <<made, removed, key, maps, proper>>
        /\ shmid' = [shmid EXCEPT ![t] = 0]
    BY <1>17 DEF Leave, Goto
  <2> QED
    BY <2>1, <2>2, <1>t, <1>g, <1>n DEF Same
<1> QED
  BY <1>0, <1>1, <1>2, <1>3, <1>4, <1>5, <1>6, <1>7, <1>8, <1>9, <1>10, <1>11,
     <1>12, <1>13, <1>14, <1>15, <1>16, <1>17
  DEF GrallocNext, Client, Body, AllocShm

-----------------------------------------------------------------------------
(* Counting segments and keys.                                             *)

(* A step that makes no segment leaves none more to make.                  *)
LEMMA Fewer ==
  ASSUME Enough, made' = made, proper' = proper, Unmade' \subseteq Unmade
  PROVE  Enough'
<1>1. IsFiniteSet(Unmade)
  BY FS_Subset, GrallocAssumption DEF Unmade
<1>2. Cardinality(Unmade') <= Cardinality(Unmade) /\ Cardinality(Unmade') \in Nat
        /\ Cardinality(Unmade) \in Nat
  BY <1>1, FS_Subset, FS_CardinalityType
<1>3. Cardinality(Buffers) \in Nat
  BY FS_CardinalityType, GrallocAssumption
<1> QED
  BY <1>2, <1>3 DEF Enough

(* No more segments are made than buffers were asked for.                  *)
LEMMA EnoughNext ==
  ASSUME ThreadsOK, MemoryOK, HasBuffer, AskedInv, OneCall, Enough,
         [GrallocNext]_grallocVars
  PROVE  Enough'
<1> USE GrallocAssumption DEF Places
<1>t. /\ pc \in [Threads -> Places] /\ shmid \in [Threads -> 0..Len(made)] /\ Len(made) \in Nat
     /\ \A c \in Buffers : buffer[c].shmid \in 0..Len(made) /\ buffer[c].own \in 0..Len(made)
  BY DEF ThreadsOK, MemoryOK, Handles
<1>b. buffer \in [Buffers -> [ state : States, owner : Processes, fd : Nat, shmid : 0..Len(made),
             own : 0..Len(made) ]]
  BY DEF MemoryOK, Handles
<1>p. pc \in [Threads -> Places] /\ arg \in [Threads -> Buffers \cup {NoBuffer}]
  BY DEF ThreadsOK
<1>q. \A u \in Threads : pc[u] \in {"alloc", "get"} => arg[u] \in Unmade
  BY DEF HasBuffer, Unmade
<1>0. CASE UNCHANGED grallocVars
  BY <1>0 DEF grallocVars, Enough, Unmade
<1>1. ASSUME NEW t \in Threads, NEW b \in Buffers, AllocUnsupported(t, b) PROVE Enough'
  <2>1. \A c \in Buffers : buffer'[c].state = "none" => buffer[c].state = "none"
    BY <1>1, <1>b DEF AllocUnsupported, Call
  <2>2. \A u \in Threads : pc'[u] \in {"alloc", "get"} => arg'[u] \in Unmade
    BY <1>1, <1>p, <1>q DEF AllocUnsupported, Call
  <2>3. made' = made /\ proper' = proper
    BY <1>1 DEF AllocUnsupported, Call
  <2>4. Unmade' \subseteq Unmade
    BY <2>1, <2>2 DEF Unmade
  <2> QED
    BY <2>3, <2>4, Fewer
<1>2. ASSUME NEW t \in Threads, NEW b \in Buffers, AllocMem(t, b) PROVE Enough'
  <2>1. \A c \in Buffers : buffer'[c].state = "none" => buffer[c].state = "none"
    BY <1>2, <1>b DEF AllocMem, Call, Goto
  <2>2. \A u \in Threads : pc'[u] \in {"alloc", "get"} => arg'[u] \in Unmade
    BY <1>2, <1>p, <1>q DEF AllocMem, Call, Goto, Unmade
  <2>3. made' = made /\ proper' = proper
    BY <1>2 DEF AllocMem, Call, Goto
  <2>4. Unmade' \subseteq Unmade
    BY <2>1, <2>2 DEF Unmade
  <2> QED
    BY <2>3, <2>4, Fewer
<1>3. ASSUME NEW t \in Threads, NEW b \in Buffers, FreeMem(t, b) PROVE Enough'
  <2>1. \A c \in Buffers : buffer'[c].state = "none" => buffer[c].state = "none"
    BY <1>3, <1>b DEF FreeMem, Call, Goto
  <2>2. \A u \in Threads : pc'[u] \in {"alloc", "get"} => arg'[u] \in Unmade
    BY <1>3, <1>p, <1>q DEF FreeMem, Call, Goto
  <2>3. made' = made /\ proper' = proper
    BY <1>3 DEF FreeMem, Call, Goto
  <2>4. Unmade' \subseteq Unmade
    BY <2>1, <2>2 DEF Unmade
  <2> QED
    BY <2>3, <2>4, Fewer
<1>4. ASSUME NEW t \in Threads, NEW b \in Buffers, Mmap(t, b) PROVE Enough'
  <2>1. \A c \in Buffers : buffer'[c].state = "none" => buffer[c].state = "none"
    BY <1>4, <1>b DEF Mmap, Call, Goto
  <2>2. \A u \in Threads : pc'[u] \in {"alloc", "get"} => arg'[u] \in Unmade
    BY <1>4, <1>p, <1>q DEF Mmap, Call, Goto
  <2>3. made' = made /\ proper' = proper
    BY <1>4 DEF Mmap, Call, Goto
  <2>4. Unmade' \subseteq Unmade
    BY <2>1, <2>2 DEF Unmade
  <2> QED
    BY <2>3, <2>4, Fewer
<1>5. ASSUME NEW t \in Threads, NEW b \in Buffers, Unmap(t, b) PROVE Enough'
  <2>1. \A c \in Buffers : buffer'[c].state = "none" => buffer[c].state = "none"
    BY <1>5, <1>b DEF Unmap, Call, Goto, MapsOf
  <2>2. \A u \in Threads : pc'[u] \in {"alloc", "get"} => arg'[u] \in Unmade
    BY <1>5, <1>p, <1>q DEF Unmap, Call, Goto, MapsOf
  <2>3. made' = made /\ proper' = proper
    BY <1>5 DEF Unmap, Call, Goto, MapsOf
  <2>4. Unmade' \subseteq Unmade
    BY <2>1, <2>2 DEF Unmade
  <2> QED
    BY <2>3, <2>4, Fewer
<1>6. ASSUME NEW t \in Threads, Lock(t) PROVE Enough'
  <2>1. \A c \in Buffers : buffer'[c].state = "none" => buffer[c].state = "none"
    BY <1>6, <1>b DEF Lock, Enter, Goto
  <2>2. \A u \in Threads : pc'[u] \in {"alloc", "get"} => arg'[u] \in Unmade
    BY <1>6, <1>p, <1>q DEF Lock, Enter, Goto
  <2>3. made' = made /\ proper' = proper
    BY <1>6 DEF Lock, Enter, Goto
  <2>4. Unmade' \subseteq Unmade
    BY <2>1, <2>2 DEF Unmade
  <2> QED
    BY <2>3, <2>4, Fewer
<1>7. ASSUME NEW t \in Threads, NewSegment(t) PROVE Enough'
  <2>1. /\ made' = Append(made, key[ProcessOf[t]])
        /\ shmid' = [shmid EXCEPT ![t] = Len(made) + 1]
        /\ pc[t] = "get" /\ pc' = [pc EXCEPT ![t] = "attach"]
        /\ UNCHANGED <<removed, key, mutex, buffer, maps, arg, proper>>
    BY <1>7 DEF NewSegment, MakeSegment, Goto
  <2>2. made \in Seq(Nat)
    BY DEF MemoryOK
  <2>3. /\ \A i \in 1..Len(made) : made'[i] = made[i]
        /\ made'[Len(made) + 1] = key[ProcessOf[t]]
        /\ Len(made') = Len(made) + 1
    BY <2>1, <2>2
  <2>4. /\ arg[t] \in Buffers /\ arg[t] \in Unmade
        /\ \A u \in Threads : pc[u] \in {"alloc", "get"} /\ arg[u] = arg[t] => u = t
    BY <2>1 DEF Unmade, HasBuffer, OneCall, Allocates
  <2>5. buffer[arg[t]].state = "asked"
    BY <2>1 DEF AskedInv, Allocates
  <2>6. Unmade' \subseteq Unmade \ {arg[t]}
    BY <2>1, <2>4, <2>5, <1>p DEF Unmade
  <2>7. IsFiniteSet(Unmade) /\ IsFiniteSet(Unmade \ {arg[t]})
    BY FS_Subset, FS_RemoveElement, GrallocAssumption DEF Unmade
  <2>8. Cardinality(Unmade') <= Cardinality(Unmade) - 1
    BY <2>4, <2>6, <2>7, FS_Subset, FS_RemoveElement
  <2>9. Cardinality(Unmade') \in Nat /\ Cardinality(Unmade) \in Nat /\ Cardinality(Buffers) \in Nat
    BY <2>6, <2>7, FS_Subset, FS_CardinalityType, GrallocAssumption
  <2> QED
    BY <2>1, <2>3, <2>8, <2>9, <1>t DEF Enough
<1>8. ASSUME NEW t \in Threads, NoMemory(t) PROVE Enough'
  <2>1. \A c \in Buffers : buffer'[c].state = "none" => buffer[c].state = "none"
    BY <1>8, <1>b DEF NoMemory, Failed, Goto
  <2>2. \A u \in Threads : pc'[u] \in {"alloc", "get"} => arg'[u] \in Unmade
    BY <1>8, <1>p, <1>q DEF NoMemory, Failed, Goto
  <2>3. made' = made /\ proper' = proper
    BY <1>8 DEF NoMemory, Failed, Goto
  <2>4. Unmade' \subseteq Unmade
    BY <2>1, <2>2 DEF Unmade
  <2> QED
    BY <2>3, <2>4, Fewer
<1>9. ASSUME NEW t \in Threads, KeyTaken(t) PROVE Enough'
  <2>1. \A c \in Buffers : buffer'[c].state = "none" => buffer[c].state = "none"
    BY <1>9, <1>b DEF KeyTaken, Wrapped
  <2>2. \A u \in Threads : pc'[u] \in {"alloc", "get"} => arg'[u] \in Unmade
    BY <1>9, <1>p, <1>q DEF KeyTaken, Wrapped
  <2>3. made' = made /\ proper' = proper
    BY <1>9 DEF KeyTaken, Wrapped
  <2>4. Unmade' \subseteq Unmade
    BY <2>1, <2>2 DEF Unmade
  <2> QED
    BY <2>3, <2>4, Fewer
<1>10. ASSUME NEW t \in Threads, AttachFails(t) PROVE Enough'
  <2>1. \A c \in Buffers : buffer'[c].state = "none" => buffer[c].state = "none"
    BY <1>10, <1>b DEF AttachFails, Failed, Goto
  <2>2. \A u \in Threads : pc'[u] \in {"alloc", "get"} => arg'[u] \in Unmade
    BY <1>10, <1>p, <1>q DEF AttachFails, Failed, Goto
  <2>3. made' = made /\ proper' = proper
    BY <1>10 DEF AttachFails, Failed, Goto
  <2>4. Unmade' \subseteq Unmade
    BY <2>1, <2>2 DEF Unmade
  <2> QED
    BY <2>3, <2>4, Fewer
<1>11. ASSUME NEW t \in Threads, Fill(t) PROVE Enough'
  <2>1. \A c \in Buffers : buffer'[c].state = "none" => buffer[c].state = "none"
    BY <1>11, <1>b DEF Fill, Goto, Wrapped
  <2>2. \A u \in Threads : pc'[u] \in {"alloc", "get"} => arg'[u] \in Unmade
    BY <1>11, <1>p, <1>q DEF Fill, Goto, Wrapped
  <2>3. made' = made /\ proper' = proper
    BY <1>11 DEF Fill, Goto, Wrapped
  <2>4. Unmade' \subseteq Unmade
    BY <2>1, <2>2 DEF Unmade
  <2> QED
    BY <2>3, <2>4, Fewer
<1>12. ASSUME NEW t \in Threads, ClearFails(t) PROVE Enough'
  <2>1. \A c \in Buffers : buffer'[c].state = "none" => buffer[c].state = "none"
    BY <1>12, <1>b DEF ClearFails, Failed, Goto
  <2>2. \A u \in Threads : pc'[u] \in {"alloc", "get"} => arg'[u] \in Unmade
    BY <1>12, <1>p, <1>q DEF ClearFails, Failed, Goto
  <2>3. made' = made /\ proper' = proper
    BY <1>12 DEF ClearFails, Failed, Goto
  <2>4. Unmade' \subseteq Unmade
    BY <2>1, <2>2 DEF Unmade
  <2> QED
    BY <2>3, <2>4, Fewer
<1>13. ASSUME NEW t \in Threads, FreeShm(t) PROVE Enough'
  <2>1. \A c \in Buffers : buffer'[c].state = "none" => buffer[c].state = "none"
    BY <1>13, <1>b DEF FreeShm, Goto
  <2>2. \A u \in Threads : pc'[u] \in {"alloc", "get"} => arg'[u] \in Unmade
    BY <1>13, <1>p, <1>q DEF FreeShm, Goto
  <2>3. made' = made /\ proper' = proper
    BY <1>13 DEF FreeShm, Goto
  <2>4. Unmade' \subseteq Unmade
    BY <2>1, <2>2 DEF Unmade
  <2> QED
    BY <2>3, <2>4, Fewer
<1>14. ASSUME NEW t \in Threads, MmapShm(t) PROVE Enough'
  <2>1. \A c \in Buffers : buffer'[c].state = "none" => buffer[c].state = "none"
    BY <1>14, <1>b DEF MmapShm, Goto
  <2>2. \A u \in Threads : pc'[u] \in {"alloc", "get"} => arg'[u] \in Unmade
    BY <1>14, <1>p, <1>q DEF MmapShm, Goto
  <2>3. made' = made /\ proper' = proper
    BY <1>14 DEF MmapShm, Goto
  <2>4. Unmade' \subseteq Unmade
    BY <2>1, <2>2 DEF Unmade
  <2> QED
    BY <2>3, <2>4, Fewer
<1>15. ASSUME NEW t \in Threads, MmapAttach(t) PROVE Enough'
  <2>1. \A c \in Buffers : buffer'[c].state = "none" => buffer[c].state = "none"
    BY <1>15, <1>b DEF MmapAttach, Goto
  <2>2. \A u \in Threads : pc'[u] \in {"alloc", "get"} => arg'[u] \in Unmade
    BY <1>15, <1>p, <1>q DEF MmapAttach, Goto
  <2>3. made' = made /\ proper' = proper
    BY <1>15 DEF MmapAttach, Goto
  <2>4. Unmade' \subseteq Unmade
    BY <2>1, <2>2 DEF Unmade
  <2> QED
    BY <2>3, <2>4, Fewer
<1>16. ASSUME NEW t \in Threads, UnmapShm(t) PROVE Enough'
  <2>1. \A c \in Buffers : buffer'[c].state = "none" => buffer[c].state = "none"
    BY <1>16, <1>b DEF UnmapShm, Goto, MapsOf
  <2>2. \A u \in Threads : pc'[u] \in {"alloc", "get"} => arg'[u] \in Unmade
    BY <1>16, <1>p, <1>q DEF UnmapShm, Goto, MapsOf
  <2>3. made' = made /\ proper' = proper
    BY <1>16 DEF UnmapShm, Goto, MapsOf
  <2>4. Unmade' \subseteq Unmade
    BY <2>1, <2>2 DEF Unmade
  <2> QED
    BY <2>3, <2>4, Fewer
<1>17. ASSUME NEW t \in Threads, Leave(t) PROVE Enough'
  <2>1. \A c \in Buffers : buffer'[c].state = "none" => buffer[c].state = "none"
    BY <1>17, <1>b DEF Leave, Goto
  <2>2. \A u \in Threads : pc'[u] \in {"alloc", "get"} => arg'[u] \in Unmade
    BY <1>17, <1>p, <1>q DEF Leave, Goto
  <2>3. made' = made /\ proper' = proper
    BY <1>17 DEF Leave, Goto
  <2>4. Unmade' \subseteq Unmade
    BY <2>1, <2>2 DEF Unmade
  <2> QED
    BY <2>3, <2>4, Fewer
<1> QED
  BY <1>0, <1>1, <1>2, <1>3, <1>4, <1>5, <1>6, <1>7, <1>8, <1>9, <1>10, <1>11,
     <1>12, <1>13, <1>14, <1>15, <1>16, <1>17
  DEF GrallocNext, Client, Body, AllocShm

(* The keys below a process's next one were all made segments with.        *)
LEMMA TriedNext ==
  ASSUME ThreadsOK, MemoryOK, HasBuffer, AskedInv, Numbered, KeyKept, Tried,
         [GrallocNext]_grallocVars
  PROVE  Tried'
<1> USE GrallocAssumption DEF Tried, SHM_START_KEY
<1>t. /\ pc \in [Threads -> Places] /\ shmid \in [Threads -> 0..Len(made)] /\ Len(made) \in Nat
     /\ \A c \in Buffers : buffer[c].shmid \in 0..Len(made) /\ buffer[c].own \in 0..Len(made)
  BY DEF ThreadsOK, MemoryOK, Handles
<1>u. \A u \in Threads : pc[u] \in {"attach", "map"} => shmid[u] \in 1..Len(made)
  BY <1>t DEF Numbered
<1>d. DOMAIN made = 1..Len(made)
  BY DEF MemoryOK
<1>p. ProcessOf \in [Threads -> Processes] /\ key \in [Processes -> Nat]
  BY DEF ThreadsOK
<1>0. CASE UNCHANGED grallocVars
  BY <1>0 DEF grallocVars, InUse
<1>1. ASSUME NEW t \in Threads, NEW b \in Buffers, AllocUnsupported(t, b) PROVE Tried'
  BY <1>1, <1>t DEF AllocUnsupported, Call, InUse
<1>2. ASSUME NEW t \in Threads, NEW b \in Buffers, AllocMem(t, b) PROVE Tried'
  <2>1. \A c \in Buffers : Same(c)
    BY <1>2, OtherUses
  <2>2. /\ pc[t] = "idle" /\ pc' = [pc EXCEPT ![t] = "alloc"]
        /\ arg' = [arg EXCEPT ![t] = b]
        /\ UNCHANGED <<made, removed, key, mutex, maps, shmid, proper>>
    BY <1>2 DEF AllocMem, Call, Goto
  <2> QED
    BY <2>1, <2>2, <1>t DEF Same
<1>3. ASSUME NEW t \in Threads, NEW b \in Buffers, FreeMem(t, b) PROVE Tried'
  <2>1. \A c \in Buffers : Same(c)
    BY <1>3, OtherUses
  <2>2. /\ pc[t] = "idle" /\ pc' = [pc EXCEPT ![t] = "free"]
        /\ arg' = [arg EXCEPT ![t] = b]
        /\ UNCHANGED <<made, removed, key, mutex, maps, shmid, proper>>
    BY <1>3 DEF FreeMem, Call, Goto
  <2> QED
    BY <2>1, <2>2, <1>t DEF Same
<1>4. ASSUME NEW t \in Threads, NEW b \in Buffers, Mmap(t, b) PROVE Tried'
  BY <1>4, <1>t DEF Mmap, Call, Goto, InUse
<1>5. ASSUME NEW t \in Threads, NEW b \in Buffers, Unmap(t, b) PROVE Tried'
  BY <1>5, <1>t DEF Unmap, Call, Goto, MapsOf, InUse
<1>6. ASSUME NEW t \in Threads, Lock(t) PROVE Tried'
  <2>1. CASE Enter(t, "alloc", "get")
    BY <2>1, <1>t DEF Enter, Goto, InUse
  <2>2. CASE Enter(t, "free", "remove")
    BY <2>2, <1>t DEF Enter, Goto, InUse
  <2>3. CASE Enter(t, "mmap", "find")
    BY <2>3, <1>t DEF Enter, Goto, InUse
  <2>4. CASE Enter(t, "unmap", "drop")
    BY <2>4, <1>t DEF Enter, Goto, InUse
  <2> QED
    BY <1>6, <2>1, <2>2, <2>3, <2>4 DEF Lock
<1>7. ASSUME NEW t \in Threads, NewSegment(t) PROVE Tried'
  <2>1. /\ made' = Append(made, key[ProcessOf[t]])
        /\ shmid' = [shmid EXCEPT ![t] = Len(made) + 1]
        /\ pc[t] = "get" /\ pc' = [pc EXCEPT ![t] = "attach"]
        /\ UNCHANGED <<removed, key, mutex, buffer, maps, arg, proper>>
    BY <1>7 DEF NewSegment, MakeSegment, Goto
  <2>2. made \in Seq(Nat)
    BY DEF MemoryOK
  <2>3. /\ \A i \in 1..Len(made) : made'[i] = made[i]
        /\ made'[Len(made) + 1] = key[ProcessOf[t]]
        /\ Len(made') = Len(made) + 1
    BY <2>1, <2>2
  <2>4. DOMAIN made' = 1..(Len(made) + 1)
    BY <2>1, <2>2
  <2> QED
    BY <2>1, <2>3, <2>4, <1>t, <1>p, <1>d
<1>8. ASSUME NEW t \in Threads, NoMemory(t) PROVE Tried'
  <2>1. \A c \in Buffers : Same(c)
    BY <1>8, OtherUses
  <2>2. /\ pc[t] = "get" /\ pc' = [pc EXCEPT ![t] = "unlock"]
        /\ arg' = arg
        /\ UNCHANGED <<made, removed, key, mutex, maps, shmid, proper>>
    BY <1>8 DEF NoMemory, Failed, Goto
  <2> QED
    BY <2>1, <2>2, <1>t DEF Same
<1>9. ASSUME NEW t \in Threads, KeyTaken(t) PROVE Tried'
  <2>1. /\ pc[t] = "get" /\ key' = [key EXCEPT ![ProcessOf[t]] = Wrapped(@ + 1)]
        /\ UNCHANGED <<made, proper>>
    BY <1>9 DEF KeyTaken
  <2>2. \E i \in DOMAIN made : made[i] = key[ProcessOf[t]]
    BY <1>9 DEF KeyTaken, KeyInUse, StillThere
  <2> QED
    BY <2>1, <2>2, <1>p DEF Wrapped
<1>10. ASSUME NEW t \in Threads, AttachFails(t) PROVE Tried'
  <2>1. \A c \in Buffers : Same(c)
    BY <1>10, OtherUses
  <2>2. /\ pc[t] = "attach" /\ pc' = [pc EXCEPT ![t] = "unlock"]
        /\ arg' = arg
        /\ UNCHANGED <<made, key, mutex, maps, shmid, proper>>
        /\ removed' = removed \cup {shmid[t]}
    BY <1>10 DEF AttachFails, Failed, Goto
  <2> QED
    BY <2>1, <2>2, <1>t DEF Same
<1>11. ASSUME NEW t \in Threads, Fill(t) PROVE Tried'
  <2>1. /\ pc[t] = "attach" /\ key' = [key EXCEPT ![ProcessOf[t]] = Wrapped(@ + 1)]
        /\ UNCHANGED <<made, proper>>
    BY <1>11 DEF Fill
  <2>2. proper => \E i \in DOMAIN made : made[i] = key[ProcessOf[t]]
    BY <2>1, <1>u, <1>d DEF KeyKept
  <2> QED
    BY <2>1, <2>2, <1>p DEF Wrapped
<1>12. ASSUME NEW t \in Threads, ClearFails(t) PROVE Tried'
  <2>1. /\ pc[t] = "attach" /\ key' = [key EXCEPT ![ProcessOf[t]] = @ + 1]
        /\ UNCHANGED <<made, proper>>
    BY <1>12 DEF ClearFails
  <2>2. proper => \E i \in DOMAIN made : made[i] = key[ProcessOf[t]]
    BY <2>1, <1>u, <1>d DEF KeyKept
  <2> QED
    BY <2>1, <2>2, <1>p
<1>13. ASSUME NEW t \in Threads, FreeShm(t) PROVE Tried'
  <2>1. /\ arg[t] \in Buffers /\ ~InUse(arg[t])'
        /\ \A c \in Buffers \ {arg[t]} : Same(c)
    BY <1>13, FreeUses
  <2>2. /\ pc[t] = "remove" /\ pc' = [pc EXCEPT ![t] = "unlock"]
        /\ arg' = arg
        /\ UNCHANGED <<made, key, mutex, maps, shmid, proper>>
        /\ removed' = removed \cup {buffer[arg[t]].shmid}
    BY <1>13 DEF FreeShm, Goto
  <2> QED
    BY <2>1, <2>2, <1>t DEF Same
<1>14. ASSUME NEW t \in Threads, MmapShm(t) PROVE Tried'
  BY <1>14, <1>t DEF MmapShm, Goto, InUse
<1>15. ASSUME NEW t \in Threads, MmapAttach(t) PROVE Tried'
  BY <1>15, <1>t DEF MmapAttach, Goto, InUse
<1>16. ASSUME NEW t \in Threads, UnmapShm(t) PROVE Tried'
  BY <1>16, <1>t DEF UnmapShm, Goto, MapsOf, InUse
<1>17. ASSUME NEW t \in Threads, Leave(t) PROVE Tried'
  <2>1. \A c \in Buffers : Same(c)
    BY <1>17, OtherUses
  <2>2. /\ pc[t] = "unlock" /\ pc' = [pc EXCEPT ![t] = "idle"]
        /\ arg' = [arg EXCEPT ![t] = NoBuffer]
        /\ UNCHANGED <<made, removed, key, maps, proper>>
        /\ shmid' = [shmid EXCEPT ![t] = 0]
    BY <1>17 DEF Leave, Goto
  <2> QED
    BY <2>1, <2>2, <1>t DEF Same
<1> QED
  BY <1>0, <1>1, <1>2, <1>3, <1>4, <1>5, <1>6, <1>7, <1>8, <1>9, <1>10, <1>11,
     <1>12, <1>13, <1>14, <1>15, <1>16, <1>17
  DEF GrallocNext, Client, Body, AllocShm

-----------------------------------------------------------------------------
(* The theorems.                                                           *)

(* Nothing is allocated at first. *)
LEMMA InitMInv == GrallocInit => MInv
<1> SUFFICES ASSUME GrallocInit PROVE MInv
  OBVIOUS
<1> USE GrallocAssumption DEF GrallocInit, Fresh
<1>1. ThreadsOK
  BY DEF ThreadsOK, Places, SHM_START_KEY
<1>2. MemoryOK
  <2>1. (CHOOSE p \in Processes : TRUE) \in Processes
    OBVIOUS
  <2>2. <<>> \in Seq(Nat) /\ Len(<<>>) = 0
    OBVIOUS
  <2>3. buffer \in [Buffers -> Handles] /\ shmid \in [Threads -> 0..Len(made)]
    BY <2>1, <2>2 DEF Handles, States
  <2> QED
    BY <2>2, <2>3 DEF MemoryOK
<1>3. CallInv
  BY DEF CallInv, HasBuffer, AskedInv, OneCall, GivenInv, Allocates, Frees, Maps
<1>4. SegmentInv /\ UniqueKeys
  BY DEF SegmentInv, Numbered, OneOwner, Owned, UniqueKeys, StillThere, InUse
<1>5. MutexInv /\ KeyInv
  BY DEF MutexInv, InManager, KeyInv, KeyKept, Named, FoundInv, Names, InUse
<1>6. CountInv
  <2>1. Unmade = Buffers
    BY DEF Unmade
  <2>2. Cardinality(Buffers) \in Nat
    BY FS_CardinalityType
  <2>3. Tried
    BY DEF Tried, SHM_START_KEY
  <2> QED
    BY <2>1, <2>2, <2>3 DEF CountInv, Enough
<1> QED
  BY <1>1, <1>2, <1>3, <1>4, <1>5, <1>6 DEF MInv

(* The inductive invariant. *)
LEMMA MemoryInvariance == GrallocSpec => []MInv
<1>1. MInv /\ [GrallocNext]_grallocVars => MInv'
  BY ThreadsNext, BufferNext, AskedNext, OneCallNext, GivenNext, MemoryNext, NumberedNext,
     OneOwnerNext, OwnedNext, UniqueNext, MutexNext, KeyNext, NamedNext, FoundNext,
     EnoughNext, TriedNext
  DEF MInv, CallInv, SegmentInv, KeyInv, CountInv
<1> QED
  BY InitMInv, <1>1, PTL DEF GrallocSpec

(* A key never passes the limit: a process's next key is one more than as  *)
(* many keys of segments, of which there are no more than buffers.         *)
LEMMA KeysBelow == MInv => (proper => \A p \in Processes : key[p] <= SHM_MAX_KEY)
<1> SUFFICES ASSUME MInv, proper, NEW p \in Processes, key[p] > SHM_MAX_KEY PROVE FALSE
  BY GrallocAssumption DEF MInv, ThreadsOK
<1>1. /\ key[p] \in Nat /\ made \in Seq(Nat) /\ Len(made) \in Nat /\ DOMAIN made = 1..Len(made)
      /\ Cardinality(Unmade) \in Nat /\ Cardinality(Buffers) \in Nat
  <2>1. IsFiniteSet(Unmade)
    BY FS_Subset, GrallocAssumption DEF Unmade
  <2> QED
    BY <2>1, FS_CardinalityType, GrallocAssumption DEF MInv, ThreadsOK, MemoryOK
<1>2. Len(made) < SHM_MAX_KEY
  BY <1>1, GrallocAssumption DEF MInv, CountInv, Enough
<1> DEFINE used(k) == CHOOSE i \in DOMAIN made : made[i] = k
           f == [k \in 1..SHM_MAX_KEY |-> used(k)]
<1>3. \A k \in 1..SHM_MAX_KEY : used(k) \in 1..Len(made) /\ made[used(k)] = k
  <2>1. \A k \in Nat : 1 <= k /\ k < key[p] => \E i \in DOMAIN made : made[i] = k
    BY DEF MInv, CountInv, Tried
  <2>2. \A k \in 1..SHM_MAX_KEY : k \in Nat /\ 1 <= k /\ k < key[p]
    BY <1>1, GrallocAssumption
  <2> QED
    BY <1>1, <2>1, <2>2
<1>4. f \in Injection(1..SHM_MAX_KEY, 1..Len(made))
  BY <1>3 DEF Injection, IsInjective
<1>5. /\ IsFiniteSet(1..SHM_MAX_KEY) /\ Cardinality(1..SHM_MAX_KEY) = SHM_MAX_KEY
      /\ IsFiniteSet(1..Len(made)) /\ Cardinality(1..Len(made)) = Len(made)
  <2>1. 1 \in Int /\ SHM_MAX_KEY \in Int /\ Len(made) \in Int
    BY <1>1, GrallocAssumption
  <2>2. /\ IsFiniteSet(1..SHM_MAX_KEY)
        /\ Cardinality(1..SHM_MAX_KEY) = IF 1 > SHM_MAX_KEY THEN 0 ELSE SHM_MAX_KEY - 1 + 1
    BY <2>1, FS_Interval
  <2>3. /\ IsFiniteSet(1..Len(made))
        /\ Cardinality(1..Len(made)) = IF 1 > Len(made) THEN 0 ELSE Len(made) - 1 + 1
    BY <2>1, FS_Interval
  <2> QED
    BY <1>1, <2>2, <2>3, GrallocAssumption
<1>6. Cardinality(1..SHM_MAX_KEY) <= Cardinality(1..Len(made))
  BY <1>4, <1>5, FS_Injection
<1> QED
  BY <1>1, <1>2, <1>5, <1>6, GrallocAssumption

(* Segments, handles, mappings and threads keep their types, and as long   *)
(* as clients ask only for what the HAL supports no key passes the limit   *)
(* of keys, not even by the increment of the failing memset_s, which is    *)
(* not wrapped.                                                            *)
THEOREM GrallocTypeCorrect == GrallocSpec => []GrallocTypeOK
<1>1. MInv => GrallocTypeOK
  BY KeysBelow DEF MInv, GrallocTypeOK, ThreadsOK, MemoryOK, Handles, States, Places
<1> QED
  BY <1>1, MemoryInvariance, PTL

(* Handles carry the key of the segment they name, and who maps a buffer   *)
(* whose own segment is there has mapped that one, as long as the mutex is *)
(* held properly: for any number of processes, threads and buffers.        *)
THEOREM GrallocHandlesNameSegments == GrallocSpec => []HandlesNameTheirSegments
<1>1. MInv => HandlesNameTheirSegments
  BY DEF MInv, MemoryOK, KeyInv, Named, FoundInv, Names, HandlesNameTheirSegments
<1> QED
  BY <1>1, MemoryInvariance, PTL

(* As long as the mutex is held properly no failure leaves a segment that  *)
(* nobody can release, and buffers in use share one only after the own one *)
(* of them was removed.                                                    *)
THEOREM GrallocSegmentsOwned == GrallocSpec => []EachSegmentHasOneOwner
<1>1. MInv => EachSegmentHasOneOwner
  <2> SUFFICES ASSUME MInv, proper PROVE EachSegmentHasOneOwner
    BY DEF EachSegmentHasOneOwner
  <2>1. \A t \in Threads : pc[t] # "dead"
    BY DEF MInv, MutexInv
  <2>2. \A b \in Buffers : InUse(b) /\ buffer[b].own \in StillThere => buffer[b].shmid = buffer[b].own
    BY DEF MInv, KeyInv, FoundInv, Names
  <2>3. \A i \in StillThere : \/ \E b \in Buffers : InUse(b) /\ buffer[b].shmid = i
                              \/ \E t \in Threads : pc[t] = "attach" /\ shmid[t] = i
    BY <2>1, <2>2 DEF MInv, SegmentInv, Owned
  <2>4. \A b \in Buffers : InUse(b) => buffer[b].own \in DOMAIN made
    <3>1. \A b \in Buffers : InUse(b) => buffer[b].own # 0
      BY DEF MInv, SegmentInv, Numbered
    <3>2. made \in Seq(Nat) /\ \A b \in Buffers : buffer[b].own \in 0..Len(made)
      BY DEF MInv, MemoryOK, Handles
    <3> QED
      BY <3>1, <3>2
  <2>5. ASSUME NEW b \in Buffers, NEW c \in Buffers, InUse(b), InUse(c), b # c,
               buffer[b].shmid = buffer[c].shmid
        PROVE  \E d \in {b, c} : buffer[d].own \in removed
    <3>1. buffer[b].own # buffer[c].own
      BY <2>5 DEF MInv, SegmentInv, OneOwner
    <3>2. ~(buffer[b].own \in StillThere /\ buffer[c].own \in StillThere)
      BY <2>2, <2>5, <3>1
    <3> QED
      BY <2>4, <2>5, <3>2 DEF StillThere
  <2> QED
    BY <2>3, <2>5 DEF EachSegmentHasOneOwner
<1> QED
  BY <1>1, MemoryInvariance, PTL
=============================================================================
