---------------------------- MODULE NetExamples -----------------------------
(***************************************************************************)
(* The network examples of bearpi_hm_nano/app: the access point with its   *)
(* UDP echo server (D1), the UDP client (D3), the TCP server (D4) and the  *)
(* MQTT client (D5), each against an environment that sends what it likes. *)
(*                                                                         *)
(* A datagram is who sent it and how many bytes stand before its first     *)
(* zero byte: "text" ends within the buffer, "full" has no zero byte in it *)
(***************************************************************************)
EXTENDS Integers, Sequences, FiniteSets

CONSTANTS
  Server,      (* CONFIG_SERVER_IP, the server D3 is configured for        *)
  Others,      (* other hosts, and the stations of the access point        *)
  TCP_BACKLOG, (* connections D4 lets wait                                 *)
  MaxSteps     (* bound: datagrams, connections, events, and rounds        *)

VARIABLES
  demo,      (* "D1", "D3", "D4" or "D5"                                   *)
  netPc,     (* where its task is                                          *)
  ap,        (* D1: hotspot on, handlers registered, stations joined,      *)
             (* g_apEnableSuccess, and whether some change went unseen     *)
  inbox,     (* datagrams, or connections, that wait                       *)
  peer,      (* client_addr, send_addr, or the client behind new_fd        *)
  held,      (* the datagram in recvBuf, or the last one that was in it    *)
  arrived,   (* everything that came into inbox                            *)
  handled,   (* everything recvfrom or accept delivered                    *)
  sent,      (* everything handed to sendto, send or the MQTT broker       *)
  link,      (* D5's connection: "none", "open" or "closed"                *)
  rounds     (* D5's count; failures of recvfrom in D3                     *)

netVars == <<demo, netPc, ap, inbox, peer, held, arrived, handled, sent, link, rounds>>
traffic == <<inbox, peer, held, arrived, handled, sent>>

Hosts == {Server} \cup Others
Blank == [from |-> Server, data |-> "none"]

NetInit ==
  /\ demo \in {"D1", "D3", "D4", "D5"}
  /\ netPc = "start"
  /\ ap \in [on : {0, 1}, registered : {0}, stations : {{}}, count : {0}, unseen : {0}]
  /\ inbox = <<>> /\ arrived = <<>> /\ handled = <<>> /\ sent = <<>>
  /\ peer = Server /\ held = Blank
  /\ link = "none"
  /\ rounds = 0

Step(d, from, to) == demo = d /\ netPc = from /\ netPc' = to

(* A datagram, or a connection, arrives; a full backlog refuses it. *)
Arrive(host, data) ==
  /\ Len(arrived) < MaxSteps
  /\ netPc \in {"serve", "reply", "hello", "answer", "accept", "recv", "send"}
  /\ demo = "D4" => Len(inbox) < TCP_BACKLOG
  /\ inbox' = Append(inbox, [from |-> host, data |-> data])
  /\ arrived' = Append(arrived, host)
  /\ UNCHANGED <<demo, netPc, ap, peer, held, handled, sent, link, rounds>>

TakeFrom(queued) ==
  /\ inbox' = Tail(inbox)
  /\ handled' = Append(handled, queued)

-----------------------------------------------------------------------------
(* D1.  WifiAPTask registers its handlers and gives up on a hotspot that   *)
(* is on already; then it configures and enables its own.                  *)
RegisterWifiEvent ==
  /\ \/ Step("D1", "start", "enable") /\ ap.on = 0
     \/ Step("D1", "start", "ended") /\ ap.on = 1
  /\ ap' = [ap EXCEPT !.registered = 1]
  /\ UNCHANGED <<demo, traffic, link, rounds>>

RegisterFails ==
  /\ Step("D1", "start", "ended")
  /\ UNCHANGED <<demo, ap, traffic, link, rounds>>

EnableHotspot ==
  /\ \/ Step("D1", "enable", "serve") /\ ap' = [ap EXCEPT !.on = 1]
     \/ Step("D1", "enable", "ended") /\ ap' \in {ap, [ap EXCEPT !.on = 1]}   (* no socket *)
  /\ UNCHANGED <<demo, traffic, link, rounds>>

(* OnHotspotStaJoinHandler and OnHotspotStaLeaveHandler, which count only  *)
(* what comes with info.                                                   *)
StationEvent(station) ==
  /\ demo = "D1" /\ ap.on = 1
  /\ Len(arrived) < MaxSteps
  /\ LET joins   == station \notin ap.stations
         members == IF joins THEN ap.stations \cup {station} ELSE ap.stations \ {station}
     IN  \E info \in BOOLEAN :
           IF ap.registered = 1 /\ info
           THEN ap' = [ap EXCEPT !.stations = members, !.count = IF joins THEN @ + 1 ELSE @ - 1]
           ELSE ap' = [ap EXCEPT !.stations = members, !.unseen = 1]
  /\ arrived' = Append(arrived, station)
  /\ UNCHANGED <<demo, netPc, inbox, peer, held, handled, sent, link, rounds>>

StartUdpServerKeepingAddress ==
  \/ /\ Step("D1", "serve", "reply")
     /\ inbox # <<>>
     /\ TakeFrom(Head(inbox).from)
     /\ held' = Head(inbox)
     /\ peer' = IF handled = <<>> THEN Head(inbox).from ELSE peer
     /\ UNCHANGED <<demo, ap, arrived, sent, link, rounds>>
  \/ /\ Step("D1", "reply", "serve")
     /\ sent' = Append(sent, [to |-> peer, data |-> held.data, after |-> Len(handled)])
     /\ UNCHANGED <<demo, ap, inbox, peer, held, arrived, handled, link, rounds>>

(* The loop of StartUdpServer: recvfrom, and sendto of what strlen finds,  *)
(* which for a full buffer is what happens to stand behind it, too.        *)
StartUdpServer ==
  \/ /\ Step("D1", "serve", "reply")
     /\ inbox # <<>>
     /\ TakeFrom(Head(inbox).from)
     /\ held' = Head(inbox)
     /\ peer' = Head(inbox).from
     /\ UNCHANGED <<demo, ap, arrived, sent, link, rounds>>
  \/ /\ Step("D1", "reply", "serve")
     /\ \E data \in IF held.data = "full" THEN {"full", "more"} ELSE {held.data} :
          sent' = Append(sent, [to |-> peer, data |-> data, after |-> Len(handled)])
     /\ UNCHANGED <<demo, ap, inbox, peer, held, arrived, handled, link, rounds>>

(* recvfrom or sendto fails: the server returns, and its socket stays. *)
UdpServerEnds ==
  /\ Step("D1", "serve", "ended") \/ Step("D1", "reply", "ended")
  /\ UNCHANGED <<demo, ap, traffic, link, rounds>>

-----------------------------------------------------------------------------
(* D3.  WifiConnect, and the socket. *)
UDPClientStart ==
  /\ Step("D3", "start", "hello") \/ Step("D3", "start", "ended")
  /\ UNCHANGED <<demo, ap, traffic, link, rounds>>

(* sendto, whose result is not looked at, and the sleep. *)
SendHello ==
  /\ Step("D3", "hello", "answer")
  /\ sent' = Append(sent, [to |-> peer, data |-> "text", after |-> Len(handled)])
  /\ UNCHANGED <<demo, ap, inbox, peer, held, arrived, handled, link, rounds>>

(* recvfrom overwrites send_addr with the address of whoever sent what it  *)
(* delivers; there is no timeout, and a failure leaves the address alone.  *)
ReceiveAnswer ==
  /\ Step("D3", "answer", "hello")
  /\ \/ /\ inbox # <<>>
        /\ TakeFrom(Head(inbox).from)
        /\ held' = Head(inbox)
        /\ peer' = Head(inbox).from
        /\ UNCHANGED rounds
     \/ /\ rounds < MaxSteps
        /\ rounds' = rounds + 1
        /\ UNCHANGED <<inbox, handled, held, peer>>
  /\ UNCHANGED <<demo, ap, arrived, sent, link>>

-----------------------------------------------------------------------------
(* D4.  WifiConnect, socket, bind and listen. *)
TCPServerStart ==
  /\ Step("D4", "start", "accept") \/ Step("D4", "start", "ended")
  /\ UNCHANGED <<demo, ap, traffic, link, rounds>>

(* accept; the address is copied into a block that nobody frees. *)
Accept ==
  /\ Step("D4", "accept", "recv")
  /\ inbox # <<>>
  /\ TakeFrom(Head(inbox).from)
  /\ peer' = Head(inbox).from
  /\ UNCHANGED <<demo, ap, held, arrived, sent, link, rounds>>

(* recv and send on new_fd, in a loop that is not left when they fail or   *)
(* the client is gone.                                                     *)
ServeClient ==
  /\ demo = "D4"
  /\ \/ netPc = "recv" /\ netPc' = "send" /\ UNCHANGED sent
     \/ /\ netPc = "send" /\ Len(sent) < MaxSteps
        /\ netPc' = "recv"
        /\ sent' = Append(sent, [to |-> peer, data |-> "text", after |-> Len(handled)])
  /\ UNCHANGED <<demo, ap, inbox, peer, held, arrived, handled, link, rounds>>

-----------------------------------------------------------------------------
(* D5.  WifiConnect, NetworkConnect and MQTTConnect: when that fails the   *)
(* connection is closed, and the task goes on.                             *)
MQTTConnect ==
  /\ Step("D5", "start", "subscribe")
  /\ link' \in {"open", "closed"}
  /\ UNCHANGED <<demo, ap, traffic, rounds>>

MQTTSubscribe ==
  /\ Step("D5", "subscribe", "publish")
  /\ UNCHANGED <<demo, ap, traffic, link, rounds>>

(* MQTTPublish of message number count; when it fails, which it may after  *)
(* the broker got the message, the connection is closed.                   *)
MQTTPublish ==
  /\ Step("D5", "publish", "publish")
  /\ rounds < MaxSteps
  /\ rounds' = rounds + 1
  /\ LET message == [to |-> Server, data |-> "text", after |-> rounds + 1]
     IN  \/ link = "open" /\ link' = "open" /\ sent' = Append(sent, message)
         \/ link' = "closed" /\ sent' \in {sent} \cup
              (IF link = "open" THEN {Append(sent, message)} ELSE {})
  /\ UNCHANGED <<demo, ap, inbox, peer, held, arrived, handled>>

-----------------------------------------------------------------------------
NetNext ==
  \/ \E host \in Hosts, data \in {"text", "full"} : Arrive(host, data)
  \/ \E station \in Others : StationEvent(station)
  \/ RegisterWifiEvent \/ RegisterFails \/ EnableHotspot \/ StartUdpServer \/ UdpServerEnds
  \/ UDPClientStart \/ SendHello \/ ReceiveAnswer
  \/ TCPServerStart \/ Accept \/ ServeClient
  \/ MQTTConnect \/ MQTTSubscribe \/ MQTTPublish

NetSpec == NetInit /\ [][NetNext]_netVars

-----------------------------------------------------------------------------
NetTypeOK ==
  /\ netPc \in {"start", "enable", "serve", "reply", "ended", "hello", "answer", "accept",
                "recv", "send", "subscribe", "publish"}
  /\ ap \in [on : {0, 1}, registered : {0, 1}, stations : SUBSET Others, count : Int,
             unseen : {0, 1}]
  /\ peer \in Hosts
  /\ link \in {"none", "open", "closed"}

(* The echo server answers in order, each datagram once and to the one who *)
(* sent it; the UDP client sends to whom it heard from last, in place of   *)
(* its server if that is another host, and sends nothing more until it has *)
(* heard something; the TCP server answers its first client and nobody     *)
(* else; and the MQTT client's messages reach the broker without a gap     *)
(* from the first one until the first failure, and none after it.          *)
AnswersItsPeer ==
  \A i \in DOMAIN sent :
    /\ demo = "D1" => sent[i].after = i /\ sent[i].to = handled[i]
    /\ demo = "D3" =>
         /\ sent[i].to = (IF sent[i].after = 0 THEN Server ELSE handled[sent[i].after])
         /\ i <= sent[i].after + rounds + 1
    /\ demo = "D4" => sent[i].to = handled[1] /\ Len(handled) = 1
    /\ demo = "D5" => sent[i].after = i /\ (link = "open" => Len(sent) = rounds)
=============================================================================
