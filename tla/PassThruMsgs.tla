----------------------------- MODULE PassThruMsgs -----------------------------
(***************************************************************************)
(* The messages of PassThruWriteMsgs and PassThruReadMsgs (J2534.cpp) on   *)
(* their way between the host's PASSTHRU_MSG arrays and the JSON objects   *)
(* of the device.  A JSON message holds the first four bytes of Data as    *)
(* its header and the rest as its data, both in hexadecimal: here as       *)
(* sequences of bytes.  Numbers go as decimal text, which gives an         *)
(* unsigned long back as it was.                                           *)
(*                                                                         *)
(* Assumed: DataSize is not above the size of Data, what follows Data in   *)
(* memory begins with a zero, and the device sends at most as many         *)
(* messages as were asked for (the code checks none of it).                *)
(***************************************************************************)
EXTENDS Integers, Sequences

CONSTANTS
    DataMax,      \* the size of PASSTHRU_MSG.Data, 4128
    HostMsgs,     \* BOUND: the messages the host writes: [size, data, fields]
    DeviceMsgs,   \* BOUND: the JSON messages of the device's own
    NoFields,     \* the fields of a message that was not filled yet
    BufferLen,    \* BOUND: the length of the host's array
    MaxHeld       \* BOUND: the messages the device holds

HeaderLen == 4
Byte == 0..255

ASSUME MsgsAssumption ==
    /\ DataMax \in Nat /\ DataMax >= HeaderLen /\ BufferLen \in Nat /\ MaxHeld \in Nat
    /\ \A m \in HostMsgs : m.size \in 0..DataMax /\ m.data \in Seq(Byte) /\ Len(m.data) = DataMax
    /\ \A j \in DeviceMsgs : j.header \in Seq(Byte) /\ j.data \in Seq(Byte)

VARIABLES
    held,      \* the device's messages, in order: [json, of: what the host wrote, if it did]
    pMsg,      \* the array the host reads into
    numMsgs,   \* *pNumMsgs after the last read
    read       \* the messages that read has returned, as the device held them

msgsVars == <<held, pMsg, numMsgs, read>>

NotOurs == [size |-> -1]
Unfilled == [size |-> 0, data |-> [i \in 1..DataMax |-> 0], fields |-> NoFields]

MsgsInit ==
    /\ held = <<>> /\ read = <<>> /\ numMsgs = 0
    /\ pMsg = [i \in 1..BufferLen |-> Unfilled]

(* The bytes of d from the fifth on, up to the first zero. *)
UpToZero(d) ==
    LET ends == {i \in (HeaderLen + 1)..DataMax : d[i] = 0}
        last == IF ends = {} THEN DataMax ELSE (CHOOSE i \in ends : \A j \in ends : i <= j) - 1
    IN  SubSeq(d, HeaderLen + 1, last)

(* PtMsgToJson; QByteArray takes a negative size for "up to the first zero" *)
PtMsgToJson(m) ==
    [header |-> SubSeq(m.data, 1, HeaderLen),
     data |-> IF m.size < HeaderLen THEN UpToZero(m.data)
              ELSE SubSeq(m.data, HeaderLen + 1, m.size),
     fields |-> m.fields]

(* CopyJsonMsg: the size and the fields come first, and a message too short or too
   long for Data leaves it as it was                                               *)
CopyJsonMsg(j, dest) ==
    LET raw == j.header \o j.data
    IN  [size |-> Len(raw), fields |-> j.fields,
         data |-> IF Len(raw) < HeaderLen \/ Len(raw) > DataMax THEN dest.data
                  ELSE raw \o SubSeq(dest.data, Len(raw) + 1, DataMax)]

(* PassThruWriteMsgs, of each message, which a device in loopback mode holds for the
   reader; a call that fails changes nothing here                                  *)
WriteMsg(m) ==
    /\ Len(held) < MaxHeld
    /\ held' = Append(held, [json |-> PtMsgToJson(m), of |-> m])
    /\ UNCHANGED <<pMsg, numMsgs, read>>

(* The device receives a message from the vehicle. *)
DeviceMsg(j) ==
    /\ Len(held) < MaxHeld
    /\ held' = Append(held, [json |-> j, of |-> NotOurs])
    /\ UNCHANGED <<pMsg, numMsgs, read>>

(* Mistake: the whole array is written, not what came. *)
ReadMsgsAll(n, k) ==
    /\ k <= Len(held) /\ k <= n
    /\ held' = SubSeq(held, k + 1, Len(held))
    /\ read' = SubSeq(held, 1, k) /\ numMsgs' = k
    /\ pMsg' = [i \in 1..BufferLen |-> IF i <= k THEN CopyJsonMsg(held[i].json, pMsg[i])
                                       ELSE IF i <= n THEN Unfilled ELSE pMsg[i]]

(* PassThruReadMsgs: n messages are asked for and the first k come *)
ReadMsgs(n, k) ==
    /\ k <= Len(held) /\ k <= n
    /\ held' = SubSeq(held, k + 1, Len(held))
    /\ read' = SubSeq(held, 1, k) /\ numMsgs' = k
    /\ pMsg' = [i \in 1..BufferLen |-> IF i <= k THEN CopyJsonMsg(held[i].json, pMsg[i])
                                       ELSE pMsg[i]]

MsgsNext ==
    \/ \E m \in HostMsgs : WriteMsg(m)
    \/ \E j \in DeviceMsgs : DeviceMsg(j)
    \/ \E n \in 0..BufferLen : \E k \in 0..n : ReadMsgs(n, k)

MsgsSpec == MsgsInit /\ [][MsgsNext]_msgsVars

-----------------------------------------------------------------------------
(* A message the host wrote, with a header and no more than Data holds, is read back
   as it was written: size, bytes and fields, whatever the array held before.       *)
LoopbackIntact ==
    \A i \in 1..numMsgs :
        LET w == read[i].of
        IN  w.size >= HeaderLen =>
                /\ pMsg[i].size = w.size /\ pMsg[i].fields = w.fields
                /\ SubSeq(pMsg[i].data, 1, w.size) = SubSeq(w.data, 1, w.size)

(* A read writes no message beyond those it counts, and in those it counts no byte
   beyond their DataSize.                                                          *)
NothingBeyondCount ==
    [][\A i \in 1..BufferLen :
          /\ i > numMsgs' => pMsg'[i] = pMsg[i]
          /\ \A b \in 1..DataMax : b > pMsg'[i].size => pMsg'[i].data[b] = pMsg[i].data[b]]_msgsVars

(* Messages come back as they were written, and a read keeps to its count. *)
MsgsPromises == []LoopbackIntact /\ NothingBeyondCount

=============================================================================
