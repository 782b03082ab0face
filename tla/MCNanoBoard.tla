----------------------------- MODULE MCNanoBoard ----------------------------
(***************************************************************************)
(* Finite instances of the programs of BearPi-HM_Nano.  app/BUILD.gn links *)
(* one of them into the image: a behaviour follows the program that was    *)
(* chosen, or the driver or layer it calls, and the others stay as they    *)
(* began.                                                                  *)
(***************************************************************************)
EXTENDS CoverApp, OcSample, OcProfile, SensorBoards, GpsPosition, KernelExamples, NetExamples,
        NfcTag

(* A sensor that is not ready yet, a cover that lies still, and moves that *)
(* are at the threshold, beyond it, and below it on two axes at once.      *)
FewPositions == { <<0, 0, 0>>, <<0, 0, 1000>>, <<0, 0, 900>>, <<0, 101, 1000>>, <<60, 60, 1000>> }

(* Commands in the product's profile, without their parameter, for another *)
(* device, and no JSON at all.                                             *)
FewTexts ==
  {[target |-> "light", value |-> "ON"], [target |-> "light", value |-> "no_paras"],
   [target |-> "text", value |-> "ON"], [target |-> "unnamed", value |-> "ON"]}

FewCalls ==
  {oc_msgup(TRUE, TRUE, 2), oc_msgup(FALSE, TRUE, 0), oc_msgup(TRUE, FALSE, 0),
   oc_propertyreport(TRUE, <<make_service(2, 1), make_service(0, 0)>>),
   oc_propertyreport(TRUE, <<make_service(0, 1)>>),
   oc_gwpropertyreport(TRUE, <<<<make_service(1, 1)>>, <<>>>>),
   oc_propertysetresp(TRUE, TRUE, 1), oc_propertygetresp(TRUE, TRUE, <<make_service(1, 0)>>),
   oc_cmdresp(TRUE, TRUE, 1, 2), oc_cmdresp(TRUE, TRUE, 0, 0)}

TextRecord(n) == [head |-> TEXT_RECORD_LEN, text |-> n]
UriRecord(n)  == [head |-> URI_RECORD_LEN, text |-> n]

(* The records of the example, and rows that end around a page's border. *)
SomeRecords ==
  {<<TextRecord(26), UriRecord(14)>>}
    \cup {<<TextRecord(a), UriRecord(b)>> : a \in 0..18, b \in {0, 3, 8, 11, 20, 40}}
    \cup {<<TextRecord(a), UriRecord(3), TextRecord(b)>> : a \in {1, 8, 9}, b \in 1..10}
    \cup {<<TextRecord(n)>> : n \in {240, 247, 248}}

VARIABLE program

nanoVars == <<program, coverVars, ocSampleVars, ocVars, boardVars, gpsVars, kernelVars, netVars,
              nfcVars>>

(* A program that is not followed begins in one state only. *)
Chosen(p, choices) == program = p \/ choices

NanoInit ==
  /\ program \in {"cover", "sample", "layer", "board", "gps", "kernel", "net", "nfc"}
  /\ CoverInit /\ OcInit
  /\ OcSampleInit /\ Chosen("sample", queueMade = 1)
  /\ BoardInit    /\ Chosen("board", board = "C1" /\ bell.made = 1)
  /\ GpsInit      /\ Chosen("gps", full = 1)
  /\ KernelInit   /\ Chosen("kernel", example = "A1")
  /\ NetInit      /\ Chosen("net", demo = "D1" /\ ap.on = 0)
  /\ NfcInit      /\ Chosen("nfc", records = <<TextRecord(26), UriRecord(14)>> /\ tag = TagWithout)

Cover == program = "cover" /\ CoverNext
         /\ UNCHANGED <<program, ocSampleVars, ocVars, boardVars, gpsVars, kernelVars, netVars,
                        nfcVars>>

CloudSample == program = "sample" /\ OcSampleNext
               /\ UNCHANGED <<program, coverVars, ocVars, boardVars, gpsVars, kernelVars, netVars,
                              nfcVars>>

ProfileLayer == program = "layer" /\ OcNext
                /\ UNCHANGED <<program, coverVars, ocSampleVars, boardVars, gpsVars, kernelVars,
                               netVars, nfcVars>>

SensorBoard == program = "board" /\ BoardNext
               /\ UNCHANGED <<program, coverVars, ocSampleVars, ocVars, gpsVars, kernelVars,
                              netVars, nfcVars>>

Gps == program = "gps" /\ GpsNext
       /\ UNCHANGED <<program, coverVars, ocSampleVars, ocVars, boardVars, kernelVars, netVars,
                      nfcVars>>

Kernel == program = "kernel" /\ KernelNext
          /\ UNCHANGED <<program, coverVars, ocSampleVars, ocVars, boardVars, gpsVars, netVars,
                         nfcVars>>

Net == program = "net" /\ NetNext
       /\ UNCHANGED <<program, coverVars, ocSampleVars, ocVars, boardVars, gpsVars, kernelVars,
                      nfcVars>>

Nfc == program = "nfc" /\ NfcNext
       /\ UNCHANGED <<program, coverVars, ocSampleVars, ocVars, boardVars, gpsVars, kernelVars,
                      netVars>>

NanoNext == Cover \/ CloudSample \/ ProfileLayer \/ SensorBoard \/ Gps \/ Kernel \/ Net \/ Nfc

NanoSpec == NanoInit /\ [][NanoNext]_nanoVars

NanoTypeOK ==
  /\ CoverTypeOK /\ OcSampleTypeOK /\ OcTypeOK /\ BoardTypeOK /\ GpsTypeOK /\ KernelTypeOK
  /\ NetTypeOK /\ NfcTypeOK
=============================================================================
