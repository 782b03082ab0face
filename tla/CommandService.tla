--------------------------- MODULE CommandService ---------------------------
(***************************************************************************)
(* What a cloud application promises the IoT platform about the commands   *)
(* it is sent, with no task, queue or memory in sight.  Commands are       *)
(* numbered in the order the platform delivers them, and ask to set one    *)
(* actuator.  The board may refuse a command only while it is the newest   *)
(* one; the others are taken one at a time, oldest first.  Each is         *)
(* answered at most once, with the success code only while its actuator is *)
(* as it asks, and let go unanswered only if it names no actuator.         *)
(***************************************************************************)
EXTENDS Integers, Sequences

CONSTANTS
  Actuators,   (* what a command can switch                                *)
  Kinds,       (* what commands ask: [target, value], "ON" or another value*)
  Idle         (* stands for "no command is being handled"                 *)

VARIABLES
  delivered,   (* number of commands delivered so far                      *)
  inbox,       (* the commands, [n, kind], accepted and not yet taken      *)
  current,     (* the command being handled, or Idle                       *)
  switched,    (* the actuators that are on                                *)
  answers      (* responses sent, oldest first: [n, code, kind]            *)

serviceVars == <<delivered, inbox, current, switched, answers>>

Answered == { answers[i].n : i \in DOMAIN answers }

ServiceInit ==
  /\ delivered = 0
  /\ inbox = {}
  /\ current = Idle
  /\ switched = {}
  /\ answers = <<>>

(* A command arrives; it is accepted, or there is no memory for it. *)
Deliver ==
  /\ delivered' = delivered + 1
  /\ \/ \E kind \in Kinds : inbox' = inbox \cup {[n |-> delivered + 1, kind |-> kind]}
     \/ UNCHANGED inbox
  /\ UNCHANGED <<current, switched, answers>>

(* The newest command finds no room and is given back. *)
Refuse ==
  /\ \E c \in inbox : c.n = delivered /\ inbox' = inbox \ {c}
  /\ UNCHANGED <<delivered, current, switched, answers>>

(* The oldest accepted command is taken. *)
Take ==
  /\ current = Idle
  /\ \E c \in inbox :
       /\ \A d \in inbox : c.n <= d.n
       /\ current' = c
       /\ inbox' = inbox \ {c}
  /\ UNCHANGED <<delivered, switched, answers>>

(* The command being handled names an actuator. *)
IsAboutActuator == current.kind.target \in Actuators

(* The command being handled sets its actuator and no other one. *)
Switch ==
  /\ current # Idle
  /\ IsAboutActuator
  /\ switched' = IF current.kind.value = "ON" THEN switched \cup {current.kind.target}
                                              ELSE switched \ {current.kind.target}
  /\ UNCHANGED <<delivered, inbox, current, answers>>

(* Its actuator is as the command being handled asks. *)
HasEffect ==
  IsAboutActuator /\ (current.kind.target \in switched <=> current.kind.value = "ON")

(* The command being handled is answered, once: with 0 for success. *)
Answer ==
  /\ current # Idle
  /\ current.n \notin Answered
  /\ \E code \in {0, 1} :
       /\ code = 0 => HasEffect
       /\ answers' = Append(answers, [n |-> current.n, code |-> code, kind |-> current.kind])
  /\ UNCHANGED <<delivered, inbox, current, switched>>

(* The command is done with: answered, if it is about an actuator. *)
Finish ==
  /\ current # Idle
  /\ IsAboutActuator => current.n \in Answered
  /\ current' = Idle
  /\ UNCHANGED <<delivered, inbox, switched, answers>>

ServiceNext == Deliver \/ Refuse \/ Take \/ Switch \/ Answer \/ Finish

ServiceSpec == ServiceInit /\ [][ServiceNext]_serviceVars
=============================================================================
