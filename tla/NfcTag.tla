------------------------------- MODULE NfcTag -------------------------------
(***************************************************************************)
(* The NFC example B5_basic_i2c_nfc of BearPi-HM_Nano: NDEF records are    *)
(* written to the tag by nfc/NT3H.c, a page at a time; a record after the  *)
(* first one is put where the end byte of the last one was, in a page that *)
(* is read back first.  Every transfer may fail.                           *)
(*                                                                         *)
(* A byte is what it stands for: a byte of record r (its header, its       *)
(* length, the rest of its head, its text), the start or the end byte, the *)
(* length of all records, nothing, or what an earlier run left there.      *)
(***************************************************************************)
EXTENDS Integers, Sequences

CONSTANTS
  NfcPages,        (* pages of the tag: USER_END_REG is the last           *)
  Records,         (* the rows of records that are written; a record is    *)
                   (* its head's length and its text's                     *)
  OldLengths,      (* the lengths of all records an earlier run may have   *)
                   (* left on the tag                                      *)
  MaxFaults        (* bound: transfers that fail                           *)

NFC_PAGE_SIZE   == 16
TEXT_RECORD_LEN == 7
URI_RECORD_LEN  == 5

(* The lengths of the records, one after the other.                        *)
Size(record) == record.head + record.text

Totals(row) ==
  LET total[r \in 0..Len(row)] == IF r = 0 THEN 0 ELSE total[r - 1] + Size(row[r])
  IN  total

(* The length of all records is one byte, and twice as much fits on the    *)
(* tag, with two pages more: those of an earlier run may come first.       *)
ASSUME NfcAssumption ==
  /\ NfcPages \in Nat /\ NfcPages >= 34 /\ MaxFaults \in Nat
  /\ OldLengths \subseteq 0..255
  /\ \A row \in Records :
       /\ row \in Seq([head : {TEXT_RECORD_LEN, URI_RECORD_LEN}, text : Nat]) /\ row # <<>>
       /\ Totals(row)[Len(row)] < 256

VARIABLES
  records,    (* the records the application stores, one after the other   *)
  nth,        (* the record being written                                  *)
  nfcPc,      (* where NT3HwriteRecord is                                  *)
  tag,        (* the tag's user memory                                     *)
  nfcPageBuffer,
  addPage,    (* page and usedBytes                                        *)
  header,     (* newRecordPtr and mbMe of addRecord                        *)
  payloadPtr, addedPayload,
  returned,   (* what storeText and storeUrihttp returned, by record       *)
  faults      (* transfers that failed                                     *)

nfcVars == <<records, nth, nfcPc, tag, nfcPageBuffer, addPage, header, payloadPtr, addedPayload,
             returned, faults>>

Byte(what, r, i) == [what |-> what, r |-> r, i |-> i]
Zero  == Byte("zero", 0, 0)
Old   == Byte("old", 0, 0)
Start == Byte("start", 0, 0)
End   == Byte("end", 0, 0)
Length(n) == Byte("length", 0, n % 256)

Offsets == 0..(NFC_PAGE_SIZE - 1)
ZeroPage == [o \in Offsets |-> Zero]

(* What bytes of record r stand for: its header with the begin and end     *)
(* marks in i, its length, the rest of its head, its text.                 *)
Head4(r, marks) ==
  [o \in 0..(records[r].head - 1) |->
     CASE o = 0 -> Byte("header", r, marks)
       [] o = 2 -> Byte("length", r, (records[r].text + records[r].head - 4) % 256)
       [] OTHER -> Byte("head", r, o)]
Text(r, i) == Byte("text", r, i)
TextFrom(r, i, n) == [o \in 0..(n - 1) |-> Text(r, i + o)]

(* What a buffer becomes when bytes are copied over it from an offset on.  *)
Over(buffer, from, bytes) ==
  [o \in Offsets |-> IF o - from \in DOMAIN bytes THEN bytes[o - from] ELSE buffer[o]]

PageOf(p) == [o \in Offsets |-> tag[p * NFC_PAGE_SIZE + o]]

MB == 2
ME == 1

(* The tag as an earlier run left it, with n bytes of records, or without  *)
(* a start byte: its memory outlives a reset.                              *)
TagWithout == [b \in 0..(NfcPages * NFC_PAGE_SIZE - 1) |-> Old]
TagWith(n) == [TagWithout EXCEPT ![0] = Start, ![1] = Length(n), ![2] = Byte("header", 0, MB)]

NfcInit ==
  /\ records \in Records
  /\ nth = 1
  /\ nfcPc = "store"
  /\ tag \in {TagWithout} \cup {TagWith(n) : n \in OldLengths}
  /\ nfcPageBuffer = ZeroPage
  /\ addPage = [page |-> 0, usedBytes |-> 0]
  /\ header = [newRecordPtr |-> 0, mbMe |-> Zero]
  /\ payloadPtr = 0 /\ addedPayload = 0
  /\ returned = <<>>
  /\ faults = 0

-----------------------------------------------------------------------------
(* NT3HReadUserData and NT3HWriteUserData; the loop at the end may come to *)
(* a page that the tag does not have, and checks it where it writes.       *)

ReadPage(p) == nfcPageBuffer' = PageOf(p) /\ UNCHANGED faults

Fault == faults < MaxFaults /\ faults' = faults + 1

WritePage(p, buffer) ==
  tag' = [b \in DOMAIN tag |-> IF b \div NFC_PAGE_SIZE = p THEN buffer[b % NFC_PAGE_SIZE] ELSE tag[b]]

-----------------------------------------------------------------------------
(* NT3HwriteRecord of the first record, with firstRecord. *)
firstRecord ==
  /\ nfcPc = "store" /\ nth = 1
  /\ nfcPageBuffer' =
       Over([ZeroPage EXCEPT ![0] = Start, ![1] = Length(records[1].text + records[1].head)],
            2, Head4(1, MB + ME))
  /\ addPage' = [addPage EXCEPT !.page = 0]
  /\ payloadPtr' = 2 + records[1].head
  /\ nfcPc' = "payload"
  /\ UNCHANGED <<records, nth, tag, header, addedPayload, returned, faults>>

PlaceWithoutEnd(recordLength) ==
  addPage' = [page |-> (recordLength + 3) \div NFC_PAGE_SIZE,
              usedBytes |-> (recordLength + 3) % NFC_PAGE_SIZE]

(* Where the end byte is, unless it is the last byte of its page.          *)
Place(recordLength) ==
  addPage' = [page |-> (recordLength + 3) \div NFC_PAGE_SIZE,
              usedBytes |-> (((recordLength + 3) % NFC_PAGE_SIZE) - 1) % 256]

(* The length of all records, as the first page has it.  Where transfers   *)
(* that failed put another byte in its place, it is that byte's value.     *)
EndRecords(page) ==
  IF page[0] # Start THEN {0} ELSE IF page[1].what = "length" THEN {page[1].i} ELSE 0..255

(* NT3HwriteRecord of a later record up to addRecord.  When the read fails *)
(* the length is 0.                                                        *)
FindEnd ==
  /\ nfcPc = "store" /\ nth \in 2..Len(records)
  /\ \/ ReadPage(0) /\ \E n \in EndRecords(PageOf(0)) : Place(n)
     \/ Fault /\ Place(0) /\ UNCHANGED nfcPageBuffer
  /\ nfcPc' = "readHeader"
  /\ UNCHANGED <<records, nth, tag, header, payloadPtr, addedPayload, returned>>

(* addRecord reads the header again; mbMe is what it was before, nothing   *)
(* for the first call, when the read fails.                                *)
ReadHeader ==
  /\ nfcPc = "readHeader"
  /\ \/ /\ ReadPage(0)
        /\ \E n \in EndRecords(PageOf(0)) :
             header' = [newRecordPtr |-> n,
                        mbMe |-> IF PageOf(0)[0] = Start THEN [PageOf(0)[2] EXCEPT !.i = MB]
                                 ELSE header.mbMe]
     \/ Fault /\ header' = [header EXCEPT !.newRecordPtr = 0] /\ UNCHANGED nfcPageBuffer
  /\ nfcPc' = "writeHeader"
  /\ UNCHANGED <<records, nth, tag, addPage, payloadPtr, addedPayload, returned>>

(* NT3HWriteHeaderNfc with the length of all records, and without the end  *)
(* mark; its result is not looked at.                                      *)
WriteHeader ==
  LET new == [PageOf(0) EXCEPT
                ![1] = Length(header.newRecordPtr + records[nth].text + records[nth].head),
                ![2] = header.mbMe]
  IN  /\ nfcPc = "writeHeader"
      /\ \/ nfcPageBuffer' = new /\ WritePage(0, new) /\ UNCHANGED faults
         \/ Fault /\ nfcPageBuffer' \in {nfcPageBuffer, new} /\ UNCHANGED tag
      /\ nfcPc' = "load"
      /\ UNCHANGED <<records, nth, addPage, header, payloadPtr, addedPayload, returned>>

NewHead ==
  Head4(nth, IF nth = Len(records) THEN ME ELSE 0)

(* The rest of addRecord, for a record whose head fits in the page ...     *)
HeadFits ==
  LET head == NewHead  used == addPage.usedBytes
  IN  /\ nfcPc = "load"
      /\ used + records[nth].head < NFC_PAGE_SIZE
      /\ \E buffer \in {PageOf(addPage.page), nfcPageBuffer} :
           /\ nfcPageBuffer' = Over(buffer, used, head)
           /\ IF buffer = PageOf(addPage.page) THEN UNCHANGED faults ELSE Fault
      /\ payloadPtr' = used + records[nth].head
      /\ nfcPc' = "payload"
      /\ UNCHANGED <<records, nth, tag, addPage, header, addedPayload, returned>>

(* ... or is divided over two, the first of which is written here ...      *)
HeadDivided ==
  LET head == NewHead  used == addPage.usedBytes  n == NFC_PAGE_SIZE - used
  IN  /\ nfcPc = "load"
      /\ used < NFC_PAGE_SIZE /\ used + records[nth].head >= NFC_PAGE_SIZE
      /\ \E buffer \in {PageOf(addPage.page), nfcPageBuffer}, written \in BOOLEAN :
           LET first == Over(buffer, used, head)
           IN  /\ IF written THEN WritePage(addPage.page, first) ELSE UNCHANGED tag
               /\ IF buffer = PageOf(addPage.page) /\ written THEN UNCHANGED faults ELSE Fault
               /\ nfcPageBuffer' = Over(first, 0, [o \in 0..(records[nth].head - n - 1) |-> head[n + o]])
      /\ addPage' = [page |-> addPage.page + 1, usedBytes |-> records[nth].head - n]
      /\ payloadPtr' = records[nth].head - n
      /\ nfcPc' = "payload"
      /\ UNCHANGED <<records, nth, header, addedPayload, returned>>

(* ... or is copied behind the page buffer: usedBytes wrapped around.      *)
HeadBehindBuffer ==
  /\ nfcPc = "load"
  /\ addPage.usedBytes >= NFC_PAGE_SIZE
  /\ nfcPc' = "overrun"
  /\ UNCHANGED <<records, nth, tag, nfcPageBuffer, addPage, header, payloadPtr, addedPayload,
                 returned, faults>>

-----------------------------------------------------------------------------
(* writeUserPayload. *)

Smaller(a, b) == IF a < b THEN a ELSE b

RecordReturns(result) ==
  /\ returned' = Append(returned, result)
  /\ nth' = nth + 1
  /\ nfcPc' = IF nth = Len(records) THEN "done" ELSE "store"

Continue == nfcPc' = "more" /\ UNCHANGED <<nth, returned>>

(* The page that holds the head, with the beginning of the text, and the   *)
(* end byte if there is room.  Its result counts only if it is the last.   *)
WriteFirstPage ==
  LET text == records[nth].text
      copy == Smaller(text, NFC_PAGE_SIZE - payloadPtr)
      ends == copy = text /\ payloadPtr + copy < NFC_PAGE_SIZE
      body == Over(nfcPageBuffer, payloadPtr, TextFrom(nth, 0, copy))
      page == IF ends THEN [body EXCEPT ![payloadPtr + copy] = End] ELSE body
  IN  /\ nfcPc = "payload"
      /\ nfcPageBuffer' = page
      /\ addedPayload' = copy
      /\ \E written \in BOOLEAN :
           /\ IF written THEN WritePage(addPage.page, page) /\ UNCHANGED faults
              ELSE Fault /\ UNCHANGED tag
           /\ IF ends THEN RecordReturns(written) ELSE Continue
      /\ UNCHANGED <<records, addPage, header, payloadPtr>>

FollowingPage(left) ==
  LET body == Over(ZeroPage, 0, TextFrom(nth, addedPayload, Smaller(left, NFC_PAGE_SIZE)))
  IN  IF left < NFC_PAGE_SIZE THEN [body EXCEPT ![left] = End] ELSE body

(* The loop: one page more, with what is left of the text, which may be    *)
(* the end byte alone.  addedPayload is one byte: near 256 it starts again *)
(* at the text's beginning, until the tag has no page left.  After a last  *)
(* page with text the loop clears the buffer before it ends.               *)
WriteNextPage ==
  LET text  == records[nth].text
      left  == text - addedPayload
      added == IF left = 0 THEN addedPayload ELSE (addedPayload + NFC_PAGE_SIZE) % 256
      page  == FollowingPage(left)
      ends  == left = 0 \/ added > text
  IN  /\ nfcPc = "more"
      /\ addPage' = [addPage EXCEPT !.page = @ + 1]
      /\ addedPayload' = added
      /\ \E written \in BOOLEAN :
           /\ nfcPageBuffer' = IF written /\ ends /\ left > 0 THEN ZeroPage ELSE page
           /\ IF written
              THEN addPage.page + 1 < NfcPages /\ WritePage(addPage.page + 1, page) /\ UNCHANGED faults
              ELSE UNCHANGED tag /\ IF addPage.page + 1 < NfcPages THEN Fault ELSE UNCHANGED faults
           /\ IF ~written \/ ends THEN RecordReturns(written) ELSE Continue
      /\ UNCHANGED <<records, header, payloadPtr>>

NfcNext ==
  \/ firstRecord \/ FindEnd \/ ReadHeader \/ WriteHeader
  \/ HeadFits \/ HeadDivided \/ HeadBehindBuffer
  \/ WriteFirstPage \/ WriteNextPage

NfcSpec == NfcInit /\ [][NfcNext]_nfcVars

-----------------------------------------------------------------------------
NfcTypeOK ==
  /\ nfcPc \in {"store", "readHeader", "writeHeader", "load", "payload", "more", "done", "overrun"}
  /\ nth \in 1..(Len(records) + 1)
  /\ addPage.page \in 0..NfcPages /\ addPage.usedBytes \in 0..255
  /\ payloadPtr \in 0..NFC_PAGE_SIZE /\ addedPayload \in 0..255
  /\ faults \in 0..MaxFaults
  /\ \A b \in DOMAIN tag : tag[b].r \in 0..Len(records)

(* What the tag should hold: start byte, length, the records with their    *)
(* marks one after the other, and the end byte.                            *)
TotalTo == Totals(records)

RecordByte(r, o, marks) ==
  IF o < records[r].head THEN Head4(r, marks)[o] ELSE Text(r, o - records[r].head)

TagHoldsRecords ==
  LET last == Len(records)
  IN  /\ tag[0] = Start /\ tag[1] = Length(TotalTo[last]) /\ tag[TotalTo[last] + 2] = End
      /\ \A r \in 1..last : \A o \in 0..(Size(records[r]) - 1) :
           tag[TotalTo[r - 1] + 2 + o] =
             RecordByte(r, o, (IF r = 1 THEN MB ELSE 0) + (IF r = last THEN ME ELSE 0))

(* addedPayload comes near 256 only for texts that are longer.             *)
TextsCounted == \A r \in DOMAIN records : records[r].text <= 240

(* After all records, with texts of 240 bytes at most, were written        *)
(* without a fault a phone reads all of them, whatever was on the tag      *)
(* before and however their heads and texts divide over the pages; only a  *)
(* record that follows one whose end byte is the last of a page goes       *)
(* astray.  And none of them is reported as not written without a fault,   *)
(* even if it was put behind the records of an earlier run.                *)
RecordsReadable ==
  TextsCounted =>
    /\ nfcPc = "done" /\ faults = 0 => TagHoldsRecords /\ \A r \in DOMAIN returned : returned[r]
    /\ nfcPc = "overrun" /\ faults = 0 => (TotalTo[nth - 1] + 3) % NFC_PAGE_SIZE = 0
    /\ \A r \in DOMAIN returned : ~returned[r] => faults > 0
=============================================================================
