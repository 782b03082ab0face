----------------------------- MODULE GpsPosition -----------------------------
(***************************************************************************)
(* The driver of the GPS board, E53_ST1.c of D12_iot_cloud_oc_gps: every   *)
(* call reads a hundred bytes from the receiver over what the buffer held, *)
(* and takes the position out of the first $GPRMC sentence in it:          *)
(*   $GPRMC,<1 time>,<2 status>,<3 latitude>,<4 N/S>,<5 longitude>,<6 E/W> *)
(*                                                                         *)
(* A field is the sentence it belongs to; the window need not hold all of  *)
(* it.  What is taken from a field is likewise the sentence, or 0.         *)
(***************************************************************************)
EXTENDS Integers

CONSTANT MaxSentences      (* bound: windows with a sentence *)

ASSUME GpsAssumption == MaxSentences \in Nat

VARIABLES
  full,         (* 1 if every window the receiver delivers is full         *)
  gps_uart,     (* the fields 1 to 6 in the buffer                         *)
  analysed,     (* 1 while gpsmsg is the analysis of the buffer            *)
  sentence,     (* sentences that came                                     *)
  latitude_bd, nshemi_bd, longitude_bd, ewhemi_bd   (* gpsmsg              *)

gpsmsg == <<latitude_bd, nshemi_bd, longitude_bd, ewhemi_bd>>
gpsVars == <<full, gps_uart, analysed, sentence, gpsmsg>>

(* A field of sentence n is n, and -n when its comma is missing; Mixed is  *)
(* a number that begins in one sentence and ends in another.               *)
Nothing == 0
Mixed == MaxSentences + 1
Complete(field) == field > 0

GpsInit ==
  /\ full \in {0, 1}
  /\ gps_uart = [f \in 1..6 |-> Nothing]
  /\ analysed = 1
  /\ sentence = 0
  /\ latitude_bd = 0 /\ nshemi_bd = 0 /\ longitude_bd = 0 /\ ewhemi_bd = 0

(* IoTUartRead.  The window ends behind or within a field; what a short    *)
(* one does not overwrite stays in the buffer, where the last sentence had *)
(* the same layout.                                                        *)
IoTUartRead ==
  /\ analysed = 1
  /\ sentence < MaxSentences
  /\ sentence' = sentence + 1
  /\ \E last \in 0..6, cut \in BOOLEAN, short \in IF full = 1 THEN {FALSE} ELSE BOOLEAN :
       gps_uart' = [f \in 1..6 |->
         IF f <= last THEN sentence'
         ELSE IF f = last + 1 /\ cut
              THEN IF ~short THEN -sentence'
                   ELSE IF ~Complete(gps_uart[f]) THEN -sentence'
                   ELSE IF f \in {1, 3, 5} THEN Mixed ELSE sentence'
         ELSE IF short THEN gps_uart[f] ELSE Nothing]
  /\ analysed' = 0
  /\ UNCHANGED <<full, gpsmsg>>

(* NMEA_Comma_Pos: a field is found if all commas before it are. *)
NMEA_Comma_Pos(comma) == \A f \in 1..(comma - 1) : Complete(gps_uart[f])

(* NMEA_Str2num: what does not end in a comma or is no number is 0. *)
NMEA_Str2num(comma) ==
  IF Complete(gps_uart[comma]) /\ comma \in {1, 3, 5} THEN gps_uart[comma] ELSE 0

Number(comma, old) == IF NMEA_Comma_Pos(comma) THEN NMEA_Str2num(comma) ELSE old

LetterIfComplete(comma, old) ==
  IF NMEA_Comma_Pos(comma) /\ Complete(gps_uart[comma]) THEN gps_uart[comma] ELSE old

(* A letter is taken from where a field begins, whatever stands there. *)
Letter(comma, old) ==
  IF ~NMEA_Comma_Pos(comma) THEN old
  ELSE IF gps_uart[comma] < 0 THEN -gps_uart[comma] ELSE gps_uart[comma]

(* NMEA_BDS_GPRMC_Analysis.  The latitude is looked for behind the second  *)
(* comma.                                                                  *)
NMEA_BDS_GPRMC_Analysis ==
  /\ analysed = 0
  /\ analysed' = 1
  /\ latitude_bd' = Number(2, latitude_bd)
  /\ nshemi_bd' = Letter(4, nshemi_bd)
  /\ longitude_bd' = Number(5, longitude_bd)
  /\ ewhemi_bd' = Letter(6, ewhemi_bd)
  /\ UNCHANGED <<full, gps_uart, sentence>>

(* E53ST1ReadData *)
GpsNext == IoTUartRead \/ NMEA_BDS_GPRMC_Analysis

GpsSpec == GpsInit /\ [][GpsNext]_gpsVars

-----------------------------------------------------------------------------
GpsTypeOK ==
  /\ full \in {0, 1} /\ analysed \in {0, 1}
  /\ gps_uart \in [1..6 -> (-MaxSentences)..Mixed]
  /\ \A n \in {latitude_bd, nshemi_bd, longitude_bd, ewhemi_bd} : n \in 0..Mixed

(* Four fields are taken one by one from a window that may end anywhere,   *)
(* and kept from the window before where it ends too early.  As long as    *)
(* windows are full, a longitude is never paired with the hemisphere of    *)
(* another sentence, and no number is made of two; a short window, whose   *)
(* length the driver does not look at, allows both.                        *)
HemisphereOfItsLongitude ==
  full = 1 /\ analysed = 1 =>
    /\ longitude_bd # 0 => ewhemi_bd \in {0, longitude_bd}
    /\ longitude_bd # Mixed

(* "Gets the latitude", as the comment says: of a sentence that is whole,  *)
(* the latitude is taken.                                                  *)
LatitudeIsTaken ==
  analysed = 1 /\ sentence > 0 /\ (\A f \in 1..6 : gps_uart[f] = sentence)
    => latitude_bd = sentence
=============================================================================
