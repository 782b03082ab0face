--------------------------- MODULE KernelExamples ---------------------------
(***************************************************************************)
(* The kernel examples A1-A6 of bearpi_hm_nano/app: each makes two or      *)
(* three threads (or timers) and, for A3 to A6, one object of the kernel   *)
(* that they share: event flags, a mutex, a semaphore or a message queue.  *)
(*                                                                         *)
(* A step of a thread is what it does between two calls that may block.  A *)
(* tick passes when no thread has anything left to do, and start-up takes  *)
(* less than a tick.                                                       *)
(***************************************************************************)
EXTENDS Integers, Sequences

CONSTANTS
  Second,        (* ticks in a second, an even number                      *)
  MaxTicks,      (* bound: ticks in a behaviour                            *)
  MSGQUEUE_SIZE  (* MSGQUEUE_COUNT of A6                                   *)

ASSUME KernelAssumption ==
  /\ Second \in Nat \ {0} /\ Second % 2 = 0
  /\ MSGQUEUE_SIZE \in Nat \ {0}

VARIABLES
  example,   (* "A1" to "A6"                                               *)
  toCreate,  (* what the example's entry still has to create               *)
  object,    (* the shared object: "unset", "made" or "failed"             *)
  content,   (* of the mutex the owner (0: none), else how much is in it   *)
  place,     (* of every thread, "none" before and "failed" if not created *)
  delay,     (* ticks it still sleeps                                      *)
  turns,     (* how often it got what it waits for, or gave                *)
  unlocked,  (* threads in A4's section that the mutex did not let in      *)
  missed,    (* what had become of the receiver or the object when         *)
             (* something was given, or waited for, in vain                *)
  ticks      (* ticks passed                                               *)

kernelVars == <<example, toCreate, object, content, place, delay, turns, unlocked, missed, ticks>>

Workers == 1..3
Object == 0

(* The entries: A4 and A5 create their threads before their object. *)
Entry(e) == CASE e \in {"A1", "A2"} -> <<1, 2>>
              [] e \in {"A3", "A6"} -> <<Object, 1, 2>>
              [] e \in {"A4", "A5"} -> <<1, 2, 3, Object>>

KernelInit ==
  /\ example \in {"A1", "A2", "A3", "A4", "A5", "A6"}
  /\ toCreate = Entry(example)
  /\ object = "unset" /\ content = 0
  /\ place = [t \in Workers |-> "none"]
  /\ delay = [t \in Workers |-> 0]
  /\ turns = [t \in Workers |-> 0]
  /\ unlocked = {} /\ missed = {}
  /\ ticks = 0

(* HighPrioThread and MidPrioThread of A4 sleep first, and so do the       *)
(* timers of A2, by their periods.                                         *)
FirstDelay(t) ==
  CASE example = "A2" -> IF t = 1 THEN Second ELSE 3 * Second
    [] example = "A4" -> IF t \in {1, 2} THEN Second ELSE 0
    [] OTHER -> 0

Create ==
  /\ toCreate # <<>>
  /\ toCreate' = Tail(toCreate)
  /\ LET new == Head(toCreate)
     IN  IF new = Object
         THEN object' \in {"made", "failed"} /\ UNCHANGED <<place, delay>>
         ELSE /\ \E how \in {"first", "failed"} : place' = [place EXCEPT ![new] = how]
              /\ delay' = [delay EXCEPT ![new] = FirstDelay(new)]
              /\ UNCHANGED object
  /\ UNCHANGED <<example, content, turns, unlocked, missed, ticks>>

At(e, t, p) == example = e /\ place[t] = p /\ delay[t] = 0

Move(t, p, d) == place' = [place EXCEPT ![t] = p] /\ delay' = [delay EXCEPT ![t] = d]

Turn(t) == turns' = [turns EXCEPT ![t] = @ + 1]

rest == <<example, toCreate, object, ticks>>

-----------------------------------------------------------------------------
(* Thread1 and Thread2 of A1; Timer1Callback and Timer2Callback of A2. *)
Thread(t) ==
  /\ At("A1", t, "first")
  /\ Turn(t) /\ Move(t, "first", IF t = 1 THEN Second ELSE Second \div 2)
  /\ UNCHANGED <<rest, content, unlocked, missed>>

TimerCallback(t) ==
  /\ At("A2", t, "first")
  /\ Turn(t) /\ Move(t, "first", FirstDelay(t))
  /\ UNCHANGED <<rest, content, unlocked, missed>>

-----------------------------------------------------------------------------
(* A3: the sender sets a flag that is set already, or that does not exist. *)
EventSenderThread ==
  /\ At("A3", 1, "first")
  /\ content' = IF object = "made" THEN 1 ELSE 0
  /\ missed' = IF object # "made" THEN missed \cup {object}
               ELSE IF content = 1 THEN missed \cup {place[2]} ELSE missed
  /\ Turn(1) /\ Move(1, "first", Second)
  /\ UNCHANGED <<rest, unlocked>>

(* Without flags the wait fails at once and the loop does nothing else. *)
EventReceiverThread ==
  /\ At("A3", 2, "first") /\ content = 1
  /\ content' = 0
  /\ Turn(2)
  /\ UNCHANGED <<rest, place, delay, unlocked, missed>>

-----------------------------------------------------------------------------
(* A4: HighPrioThread is 1, LowPrioThread 3.  Without a mutex acquiring    *)
(* fails at once, and the result is not looked at; so is the result of     *)
(* releasing, which fails for a thread that does not own the mutex.        *)
MutexAcquire(t) ==
  /\ t \in {1, 3} /\ At("A4", t, "first")
  /\ IF object = "made"
     THEN content = 0 /\ content' = t /\ UNCHANGED unlocked
     ELSE unlocked' = unlocked \cup {t} /\ UNCHANGED content
  /\ Move(t, "inside", 3 * Second) /\ Turn(t)
  /\ UNCHANGED <<rest, missed>>

MutexReleaseAny(t) ==
  /\ t \in {1, 3} /\ At("A4", t, "inside")
  /\ content' = 0
  /\ unlocked' = unlocked \ {t}
  /\ Move(t, "first", 0)
  /\ UNCHANGED <<rest, turns, missed>>

MutexRelease(t) ==
  /\ t \in {1, 3} /\ At("A4", t, "inside")
  /\ content' = IF content = t THEN 0 ELSE content
  /\ unlocked' = unlocked \ {t}
  /\ Move(t, "first", 0)
  /\ UNCHANGED <<rest, turns, missed>>

MidPrioThread ==
  /\ At("A4", 2, "first")
  /\ Turn(2) /\ Move(2, "first", Second)
  /\ UNCHANGED <<rest, content, unlocked, missed>>

-----------------------------------------------------------------------------
(* A5: two releases in a row, each of which fails without a semaphore, or  *)
(* when the semaphore is at its maximum.                                   *)
SEM_MAX_COUNT == 4

Semaphore1Thread ==
  /\ \/ At("A5", 1, "first") /\ Move(1, "second", 0) /\ UNCHANGED turns
     \/ At("A5", 1, "second") /\ Move(1, "first", Second) /\ Turn(1)
  /\ IF object = "made" /\ content < SEM_MAX_COUNT
     THEN content' = content + 1 /\ UNCHANGED missed
     ELSE /\ missed' = missed \cup (IF object = "made" THEN {place[2], place[3]} ELSE {object})
          /\ UNCHANGED content
  /\ UNCHANGED <<rest, unlocked>>

(* Semaphore2Thread and Semaphore3Thread sleep for a tick whether they got *)
(* the semaphore or there is none.                                         *)
SemaphoreThread(t) ==
  /\ t \in {2, 3} /\ At("A5", t, "first")
  /\ IF object = "made"
     THEN content > 0 /\ content' = content - 1 /\ Turn(t) /\ UNCHANGED missed
     ELSE missed' = missed \cup {object} /\ UNCHANGED <<content, turns>>
  /\ Move(t, "first", 1)
  /\ UNCHANGED <<rest, unlocked>>

-----------------------------------------------------------------------------
(* A6: a message is lost without a queue, and when the queue is full.      *)
MsgQueue1Thread ==
  /\ At("A6", 1, "first")
  /\ IF object = "made" /\ content < MSGQUEUE_SIZE
     THEN content' = content + 1 /\ UNCHANGED missed
     ELSE /\ missed' = missed \cup {IF object = "made" THEN place[2] ELSE object}
          /\ UNCHANGED content
  /\ Turn(1) /\ Move(1, "first", Second)
  /\ UNCHANGED <<rest, unlocked>>

MsgQueue2Thread ==
  /\ At("A6", 2, "first") /\ content > 0
  /\ content' = content - 1
  /\ Turn(2)
  /\ UNCHANGED <<rest, place, delay, unlocked, missed>>

-----------------------------------------------------------------------------
Run ==
  \/ \E t \in Workers : Thread(t) \/ TimerCallback(t) \/ MutexAcquire(t) \/ MutexRelease(t)
                          \/ SemaphoreThread(t)
  \/ EventSenderThread \/ EventReceiverThread \/ MidPrioThread
  \/ Semaphore1Thread \/ MsgQueue1Thread \/ MsgQueue2Thread

(* What each thread needs to go on, besides having slept enough. *)
Ready(t) ==
  /\ place[t] \notin {"none", "failed"} /\ delay[t] = 0
  /\ (example \in {"A3", "A6"} /\ t = 2) => content > 0
  /\ (example = "A4" /\ t \in {1, 3} /\ place[t] = "first" /\ object = "made") => content = 0
  /\ (example = "A5" /\ t \in {2, 3} /\ object = "made") => content > 0

Tick ==
  /\ toCreate = <<>>
  /\ \A t \in Workers : ~Ready(t)
  /\ ticks < MaxTicks
  /\ ticks' = ticks + 1
  /\ delay' = [t \in Workers |-> IF delay[t] > 0 THEN delay[t] - 1 ELSE 0]
  /\ UNCHANGED <<example, toCreate, object, content, place, turns, unlocked, missed>>

KernelNext == Create \/ Run \/ Tick

KernelSpec == KernelInit /\ [][KernelNext]_kernelVars

-----------------------------------------------------------------------------
KernelTypeOK ==
  /\ object \in {"unset", "made", "failed"}
  /\ content \in Nat
  /\ place \in [Workers -> {"none", "failed", "first", "second", "inside"}]
  /\ delay \in [Workers -> 0..(3 * Second)]
  /\ turns \in [Workers -> Nat]
  /\ unlocked \subseteq Workers
  /\ missed \subseteq {"none", "first", "unset", "failed"}

(* A4's section is entered by two threads at once only if one of them came *)
(* in before the mutex was made, and a thread that did cannot take the     *)
(* mutex from the one that owns it by releasing it.                        *)
OneInSection ==
  example = "A4" =>
    LET inside == { t \in {1, 3} : place[t] = "inside" }
    IN  /\ \A t \in inside : t \in unlocked <=> content # t
        /\ object = "made" /\ unlocked = {} => inside # {1, 3}

(* A flag, a release or a message is lost only while its receivers or the  *)
(* object it goes to do not exist: one of two receivers of A5 is enough to *)
(* keep the semaphore from its maximum.  And with all                      *)
(* threads, and none of them before the semaphore, Semaphore2Thread and    *)
(* Semaphore3Thread "execute synchronously": each has gone on once for     *)
(* every round of Semaphore1Thread before the next.  A thread that came    *)
(* before the semaphore puts them apart for good, by two turns at most.    *)
ReceiversKeepUp ==
  /\ missed \cap {"first"} = {}
  /\ At("A5", 1, "first") /\ "failed" \notin { place[t] : t \in Workers } /\ toCreate = <<>> =>
       /\ turns[2] - turns[3] \in -2..2
       /\ missed = {} => turns[2] = turns[1] /\ turns[3] = turns[1]

(* What A3 to A6 are written to show: the shared object keeps its threads  *)
(* out of each other's section and delivers what is given to it.           *)
ObjectsServe == OneInSection /\ ReceiversKeepUp
=============================================================================
