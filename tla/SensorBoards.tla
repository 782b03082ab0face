---------------------------- MODULE SensorBoards ----------------------------
(***************************************************************************)
(* The sensor examples C1-C5 of bearpi_hm_nano/app with the drivers of     *)
(* their E53 boards: a call of a driver is a row of bus transfers, each of *)
(* which may fail; what it measured ends up in the caller's variables, and *)
(* the example's loop switches the board's actuators by them.              *)
(*                                                                         *)
(* A measured value is the round it was measured in: 0 is what a variable  *)
(* holds that nothing was ever measured into, and -1 what a transfer that  *)
(* failed leaves in a local variable.                                      *)
(***************************************************************************)
EXTENDS Integers, Sequences, FiniteSets

CONSTANT MaxRounds      (* bound: rounds of an example's loop *)

ASSUME BoardAssumption == MaxRounds \in Nat \ {0}

VARIABLES
  board,     (* the example: "C1" to "C5"                                  *)
  task,      (* its task: "init", "read", "act", "sleep", "wait", "ended"  *)
  transfers, (* what the driver's call still has to do                     *)
  round,     (* rounds begun                                               *)
  awake,     (* 1 once the accelerometer took the command to wake up       *)
  local,     (* what the driver has read into its own variables            *)
  data,      (* the caller's variables                                     *)
  passed,    (* the last round in which a field passed its checksum        *)
  reference, (* R0 of C1, X, Y and Z of C4, as a measured value            *)
  basis,     (* of every actuator: the values it was last switched by      *)
  bell       (* of C5: the event flag and whether there is one, interrupts *)
             (* taken and alarms begun                                     *)

boardVars == <<board, task, transfers, round, awake, local, data, passed, reference, basis, bell>>

Fields == {"Lux", "Temperature", "Humidity", "Accel", "ppm"}

-----------------------------------------------------------------------------
(* The drivers.  A transfer that fails ends the call with -1, or nobody    *)
(* looks at it.                                                            *)

Write(command) == [do |-> command, to |-> {}, checked |-> TRUE]
WriteReg(command) == [do |-> command, to |-> {}, checked |-> FALSE]
Read(fields) == [do |-> "read", to |-> fields, checked |-> TRUE]

E53IA1Init == <<Write("InitBH1750"), Write("InitSHT30")>>
E53IA1ReadData == <<Write("StartBH1750"), Read({"Lux"}),
                    [Read({"Temperature", "Humidity"}) EXCEPT !.do = "crc"]>>

E53SC1Init == <<Write("InitBH1750")>>
E53SC1ReadData == <<Write("StartBH1750"), Read({"Lux"})>>

(* MPU6050Init: reset, wake up, and nine registers that do not matter to   *)
(* what is measured here.  E53SC2Init does it again once the chip has told *)
(* its name.                                                               *)
MPU6050Init == <<WriteReg("reset"), WriteReg("wake"), WriteReg("configure")>>
MPU6050ReadID == <<Write("ReadID")>>
E53SC2Init == MPU6050Init \o MPU6050ReadID \o MPU6050Init

E53SC2ReadCopying ==
  MPU6050ReadID \o <<Read({"Accel"}), Read({"Temperature"})>>

(* The caller's variables are written when all three transfers worked. *)
E53SC2ReadData ==
  MPU6050ReadID \o <<[Read({"Accel"}) EXCEPT !.do = "ReadAcc"],
                     [Read({"Temperature"}) EXCEPT !.do = "ReturnTemp"],
                     WriteReg("copy")>>

(* GetVoltage goes on with an uninitialised variable if the converter      *)
(* fails; GetMQ2PPM returns -1.                                            *)
MQ2PPMCalibration == <<WriteReg("GetVoltage")>>
GetMQ2PPM == <<Read({"ppm"})>>

E53IS1ReadData == <<Write("RegisterIsr")>>

InitOf(b) == CASE b = "C1" -> MQ2PPMCalibration
               [] b = "C2" -> E53IA1Init
               [] b = "C3" -> E53SC1Init
               [] b = "C4" -> E53SC2Init
               [] b = "C5" -> E53IS1ReadData

ReadOf(b) == CASE b = "C1" -> GetMQ2PPM
               [] b = "C2" -> E53IA1ReadData
               [] b = "C3" -> E53SC1ReadData
               [] b = "C4" -> E53SC2ReadData

-----------------------------------------------------------------------------
BoardInit ==
  /\ board \in {"C1", "C2", "C3", "C4", "C5"}
  /\ task = "init"
  /\ transfers = InitOf(board)
  /\ round = 0
  /\ awake = 0
  /\ local = [f \in Fields |-> 0]
  /\ data = [f \in Fields |-> 0]
  /\ passed = [f \in Fields |-> 0]
  /\ reference = 0
  /\ basis = [light |-> {}, motor |-> {}, leds |-> {}, buzzer |-> {}]
  /\ bell \in [flag : {0}, made : {0, 1}, taken : {0}, alarms : {0}]

Put(variables, fields, value) ==
  [f \in Fields |-> IF f \in fields THEN value ELSE variables[f]]

(* What a sleeping accelerometer delivers is no measurement. *)
Measured == IF board = "C4" /\ awake = 0 THEN 0 ELSE round

(* The first transfer of the call succeeds.  Of the SHT30's values those   *)
(* whose checksum is wrong are left out; the call succeeds all the same.   *)
Transfer ==
  LET t == Head(transfers)
  IN  /\ task \in {"init", "read"} /\ transfers # <<>>
      /\ transfers' = Tail(transfers)
      /\ awake' = CASE t.do = "reset" -> 0 [] t.do = "wake" -> 1 [] OTHER -> awake
      /\ reference' = IF t.do = "GetVoltage" THEN 1 ELSE reference
      /\ local' = IF t.do \in {"ReadAcc", "ReturnTemp"} THEN Put(local, t.to, Measured) ELSE local
      /\ \E good \in IF t.do = "crc" THEN SUBSET t.to ELSE {t.to} :
           /\ data' = CASE t.do \in {"read", "crc"} -> Put(data, good, Measured)
                        [] t.do = "copy" -> [data EXCEPT !["Accel"] = local["Accel"],
                                                         !["Temperature"] = local["Temperature"]]
                        [] OTHER -> data
           /\ passed' = IF t.do \in {"read", "crc", "ReadAcc", "ReturnTemp"}
                        THEN Put(passed, good, round) ELSE passed
      /\ UNCHANGED <<board, task, round, basis, bell>>

(* ... or fails: the call returns -1, which ends the task, or goes on.     *)
(* Copying and calculating do not fail; a sensor at 0 V is not calibrated. *)
TransferFails ==
  LET t == Head(transfers)
  IN  /\ task \in {"init", "read"} /\ transfers # <<>>
      /\ t.do # "copy"
      /\ IF t.checked
         THEN task' = "ended" /\ transfers' = <<>>
         ELSE task' = task /\ transfers' = Tail(transfers)
      /\ reference' \in IF t.do = "GetVoltage" THEN {-1, 0} ELSE {reference}
      /\ UNCHANGED <<board, round, awake, local, data, passed, basis, bell>>

(* The loop of the example begins; C5 waits for its interrupt instead. *)
Initialised ==
  /\ task = "init" /\ transfers = <<>>
  /\ task' = IF board = "C5" THEN "wait" ELSE "sleep"
  /\ UNCHANGED <<board, transfers, round, awake, local, data, passed, reference, basis, bell>>

NextRound ==
  /\ task = "sleep" /\ board # "C5"
  /\ round < MaxRounds
  /\ round' = round + 1
  /\ transfers' = ReadOf(board)
  /\ local' = [f \in Fields |-> -1]
  /\ task' = "read"
  /\ UNCHANGED <<board, awake, data, passed, reference, basis, bell>>

ReadReturns ==
  /\ task = "read" /\ transfers = <<>>
  /\ task' = "act"
  /\ UNCHANGED <<board, transfers, round, awake, local, data, passed, reference, basis, bell>>

-----------------------------------------------------------------------------
(* The examples switch their actuators by the values. *)

Switch(actuator, fields) ==
  /\ task = "act"
  /\ basis' = [basis EXCEPT ![actuator] = { data[f] : f \in fields }]
  /\ task' = "sleep"
  /\ UNCHANGED <<board, transfers, round, awake, local, data, passed, reference, bell>>

(* C1: the buzzer, by the gas; C3: the light, by the brightness. *)
SwitchBuzzer == board = "C1" /\ Switch("buzzer", {"ppm"})
SwitchLight  == board = "C3" /\ Switch("light", {"Lux"})

(* C2: the light, by the brightness, and the motor by the climate. *)
SwitchClimate ==
  /\ board = "C2" /\ task = "act"
  /\ basis' = [basis EXCEPT !.light = {data["Lux"]},
                            !.motor = {data["Temperature"], data["Humidity"]}]
  /\ task' = "sleep"
  /\ UNCHANGED <<board, transfers, round, awake, local, data, passed, reference, bell>>

(* C4: two LEDs, by the position; the first that is not 0 is the reference, and *)
(* nothing is switched by it.                                              *)
SwitchLeds ==
  /\ board = "C4"
  /\ \/ reference # 0 /\ Switch("leds", {"Accel"})
     \/ /\ task = "act" /\ reference = 0
        /\ reference' = data["Accel"]
        /\ task' = "sleep"
        /\ UNCHANGED <<board, transfers, round, awake, local, data, passed, basis, bell>>

-----------------------------------------------------------------------------
(* C5: BeepAlarm, the interrupt's handler, and the task that waits. *)
Infrared ==
  /\ board = "C5" /\ task \in {"wait", "sleep"}
  /\ bell.taken < MaxRounds
  /\ bell' = [bell EXCEPT !.flag = bell.made, !.taken = @ + 1]
  /\ UNCHANGED <<board, task, transfers, round, awake, local, data, passed, reference, basis>>

BeepOn ==
  /\ board = "C5" /\ task = "wait"
  /\ bell.flag = 1 \/ (bell.made = 0 /\ bell.alarms < MaxRounds)
  /\ bell' = [bell EXCEPT !.flag = 0, !.alarms = @ + 1]
  /\ task' = "sleep"
  /\ UNCHANGED <<board, transfers, round, awake, local, data, passed, reference, basis>>

BeepOff ==
  /\ board = "C5" /\ task = "sleep"
  /\ task' = "wait"
  /\ UNCHANGED <<board, transfers, round, awake, local, data, passed, reference, basis, bell>>

BoardNext ==
  \/ Transfer \/ TransferFails \/ Initialised \/ NextRound \/ ReadReturns
  \/ SwitchBuzzer \/ SwitchLight \/ SwitchClimate \/ SwitchLeds
  \/ Infrared \/ BeepOn \/ BeepOff

BoardSpec == BoardInit /\ [][BoardNext]_boardVars

-----------------------------------------------------------------------------
BoardTypeOK ==
  /\ task \in {"init", "read", "act", "sleep", "wait", "ended"}
  /\ round \in 0..MaxRounds
  /\ awake \in {0, 1}
  /\ local \in [Fields -> -1..MaxRounds]
  /\ data \in [Fields -> 0..MaxRounds]
  /\ reference \in -1..MaxRounds

(* An actuator is switched by values of the round it is switched in: the   *)
(* accelerometer's are handed over together or not at all, a call that     *)
(* failed half-way included, and of the SHT30 the newest that passed its   *)
(* checksum stands in, however old.  Where nothing was ever measured - the *)
(* motor before a first good checksum, a gas sensor that was never         *)
(* calibrated, a sleeping accelerometer - no call reports it.  The alarm   *)
(* of C5 has an interrupt of its own.                                      *)
SwitchedByNewest ==
  /\ task = "act" =>
       /\ board \in {"C2", "C3"} => data["Lux"] = round
       /\ board = "C2" => \A f \in {"Temperature", "Humidity"} : data[f] = passed[f]
       /\ board = "C4" => data["Accel"] = (IF awake = 1 THEN round ELSE 0)
       /\ board = "C1" => data["ppm"] = round
  /\ board = "C4" => data["Accel"] = data["Temperature"]
  /\ board = "C5" /\ bell.made = 1 => bell.alarms + bell.flag <= bell.taken
=============================================================================
