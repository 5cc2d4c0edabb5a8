--------------------------- MODULE FrameReceiver ---------------------------
(***************************************************************************)
(* lively_serial::receive_loop: the frames of a CAN port cut out of the    *)
(* bytes of the serial line.  A frame is the byte 0xF7, four more bytes    *)
(* of header (command, length, CRC8 of the three), a CRC16 of the payload  *)
(* and the payload.  Bytes may be lost or changed on the line, and the     *)
(* receiver may come in the middle of a frame.                             *)
(*                                                                         *)
(* Byte j of frame k is <<k, j>>; a byte that was changed is <<0, 0>>, or  *)
(* <<0, 1>> if it became 0xF7.  The CRCs find every damage, except that a  *)
(* header may pass by accident (a fault); payloads that pass are whole.    *)
(*                                                                         *)
(* Names that every module has begin with Rx here: FrameProofs takes this  *)
(* module beside TxFrame, the other direction.                             *)
(***************************************************************************)
EXTENDS Integers, FiniteSets, SequencesExt

CONSTANTS
  MaxLen,     \* kCdcTrMessageDataLen, the size of frame_data
  Contents,   \* frames a board sends: payload length, the bytes that are 0xF7
  MaxFrames,  \* bound: frames sent
  MaxFaults   \* bound: damages of the line

HeaderSize == 5          \* head, cmd, len, crc8
CrcSize == 2             \* crc16
Overhead == HeaderSize + CrcSize

ASSUME ReceiverAssumption ==
  /\ MaxLen \in Nat \ {0} /\ MaxFrames \in Nat /\ MaxFaults \in Nat
  /\ \A c \in Contents : c.len \in 1..MaxLen /\ c.heads \subseteq 2..Overhead + c.len

VARIABLES
  frames,     \* the frames sent so far
  line,       \* bytes sent and not yet read
  at,         \* what receive_loop reads next, or "ended"
  header,     \* the frame that the accepted header is of, 0 if by accident
  want,       \* frame_header.len
  crcOf,      \* the frame that received_crc16 is of, or 0
  delivered,  \* what dispatch_frame was given: frame of the command, payload
  excused,    \* frames that went by while the port was closed
  faults

receiver == <<at, header, want, crcOf, delivered, excused>>
rxVars == <<frames, line, receiver, faults>>

Noise == {<<0, 0>>, <<0, 1>>}
Size(c) == Overhead + c.len
Bytes(k, c) == [j \in 1..Size(c) |-> <<k, j>>]
Part(k, from, to) == [j \in 1..(to - from + 1) |-> <<k, from + j - 1>>]

RxInit ==
  /\ frames = <<>> /\ line = <<>>
  /\ at = "head" /\ header = 0 /\ want = 0 /\ crcOf = 0
  /\ delivered = <<>> /\ excused = {} /\ faults = 0

-----------------------------------------------------------------------------
(* The line.                                                               *)

\* One damage: a byte lost, a byte changed, the beginning or the end missing.
Damaged(s) ==
  {RemoveAt(s, j) : j \in 1..Len(s)}
    \cup {[s EXCEPT ![j] = b] : j \in 1..Len(s), b \in Noise}
    \cup {SubSeq(s, j, Len(s)) : j \in 3..Len(s)}
    \cup {SubSeq(s, 1, j) : j \in 1..Len(s) - 2}

Send(c) ==
  /\ Len(frames) < MaxFrames
  /\ frames' = Append(frames, c)
  /\ LET s == Bytes(Len(frames'), c) IN
     \/ line' = line \o s /\ UNCHANGED faults
     \/ /\ faults < MaxFaults
        /\ faults' = faults + 1
        /\ \E d \in Damaged(s) : line' = line \o d
  /\ UNCHANGED receiver

-----------------------------------------------------------------------------
(* The receiver. A read returns when all its bytes are there, and short     *)
(* when its time is over.                                                  *)

IsHead(b) ==
  \/ b = <<0, 1>>
  \/ b[1] # 0 /\ (b[2] = 1 \/ b[2] \in frames[b[1]].heads)

\* Mutant: any byte starts a frame.
StartsAny(b) == TRUE

\* frame_header.head == 0xF7
Starts(b) == IsHead(b)

ReadHead ==
  /\ at = "head" /\ line # <<>>
  /\ line' = Tail(line)
  /\ at' = IF Starts(Head(line)) THEN "rest" ELSE "head"
  /\ UNCHANGED <<frames, header, want, crcOf, delivered, excused, faults>>

Taken(n) == SubSeq(line, 1, n)
Take(n) == line' = SubSeq(line, n + 1, Len(line))

\* mark_error: the thread ends, and the recovery will open the port again.
MarkError == at' = "ended"

\* Mutant: the length is not compared with the size of the buffer.
FitsAny(n) == TRUE

FitsBuffer(n) == n <= MaxLen

\* Mutant: the command of the first frame stays.
AcceptHeaderStale(k, n) ==
  /\ header' = IF header = 0 THEN k ELSE header
  /\ IF FitsBuffer(n) THEN at' = "crc" /\ want' = n ELSE MarkError /\ UNCHANGED want

AcceptHeader(k, n) ==
  /\ header' = k
  /\ IF FitsBuffer(n) THEN at' = "crc" /\ want' = n ELSE MarkError /\ UNCHANGED want

\* frame_header.crc8 == Get_CRC8_Check_Sum
HeaderMatches(k, r) == k # 0 /\ r = Part(k, 2, HeaderSize)

\* The rest of a header, with its CRC8. A header that fails is forgotten, and
\* its four bytes are gone.
ReadRest ==
  /\ at = "rest" /\ Len(line) >= HeaderSize - 1
  /\ Take(HeaderSize - 1)
  /\ LET r == Taken(HeaderSize - 1)
         k == r[1][1] IN
     IF HeaderMatches(k, r)
     THEN AcceptHeader(k, frames[k].len) /\ UNCHANGED faults
     ELSE \/ at' = "head" /\ UNCHANGED <<header, want, faults>>
          \/ /\ faults < MaxFaults
             /\ faults' = faults + 1
             /\ \E n \in 0..MaxLen + 1 : AcceptHeader(0, n)
  /\ UNCHANGED <<frames, crcOf, delivered, excused>>

ReadCrc ==
  /\ at = "crc" /\ Len(line) >= CrcSize
  /\ Take(CrcSize)
  /\ LET r == Taken(CrcSize)
         k == r[1][1] IN
     crcOf' = IF k # 0 /\ r = Part(k, HeaderSize + 1, Overhead) THEN k ELSE 0
  /\ at' = "payload"
  /\ UNCHANGED <<frames, header, want, delivered, excused, faults>>

Payload(k) == Part(k, Overhead + 1, Size(frames[k]))

\* Mutant: only the first byte of the payload is covered by the CRC16.
CrcMatchesFirst(k, data) == k # 0 /\ data # <<>> /\ data[1] = <<k, Overhead + 1>>

\* received_crc16 == crc_ccitt(frame_data): the CRC16 knows nothing of the
\* header.
CrcMatches(k, data) == k # 0 /\ data = Payload(k)

ReadPayload ==
  /\ at = "payload" /\ Len(line) >= want
  /\ Take(want)
  /\ LET data == Taken(want) IN
     delivered' = IF CrcMatches(crcOf, data)
                  THEN Append(delivered, [cmd |-> header, data |-> data])
                  ELSE delivered
  /\ at' = "head"
  /\ UNCHANGED <<frames, header, want, crcOf, excused, faults>>

Needed ==
  CASE at = "rest" -> HeaderSize - 1 [] at = "crc" -> CrcSize [] at = "payload" -> want
    [] OTHER -> 0

\* read_exact: nothing more comes for a second. A head that does not come is
\* not an error.
ShortRead ==
  /\ Len(line) < Needed
  /\ MarkError
  /\ line' = <<>>
  /\ excused' = excused \cup {line[i][1] : i \in 1..Len(line)}
  /\ UNCHANGED <<frames, header, want, crcOf, delivered, faults>>

\* The port is opened again by the recovery; what came meanwhile is gone.
Reopen ==
  /\ at = "ended"
  /\ at' = "head"
  /\ line' = <<>>
  /\ excused' = excused \cup {line[i][1] : i \in 1..Len(line)}
  /\ UNCHANGED <<frames, header, want, crcOf, delivered, faults>>

RxNext ==
  \/ \E c \in Contents : Send(c)
  \/ ReadHead \/ ReadRest \/ ReadCrc \/ ReadPayload \/ ShortRead \/ Reopen

RxSpec == RxInit /\ [][RxNext]_rxVars

-----------------------------------------------------------------------------
Byte == Noise \cup ((1..Len(frames)) \X (1..Overhead + MaxLen))

\* A payload never needs more room than frame_data has.
RxTypeOK ==
  /\ frames \in Seq(Contents) /\ Len(frames) <= MaxFrames
  /\ line \in Seq(Byte)
  /\ at \in {"head", "rest", "crc", "payload", "ended"}
  /\ header \in 0..Len(frames) /\ crcOf \in 0..Len(frames)
  /\ want \in 0..MaxLen
  /\ delivered \in Seq([cmd : 0..Len(frames), data : Seq(Byte)])
  /\ excused \subseteq 0..Len(frames)
  /\ faults \in 0..MaxFaults

\* The frame whose payload was delivered i-th
Source(i) == delivered[i].data[1][1]

\* However the line is damaged, what is dispatched is the whole payload of a
\* frame that was sent, and these come in the order they were sent in, none
\* of them twice; and nothing is read that frame_data has no room for.
WholeAndInOrder ==
  /\ want <= MaxLen
  /\ \A i \in 1..Len(delivered) :
       /\ delivered[i].data # <<>>
       /\ Source(i) \in 1..Len(frames) /\ delivered[i].data = Payload(Source(i))
       /\ \A j \in 1..i - 1 : Source(j) < Source(i)

\* The CRC16 does not cover the header, but one damage is not enough to put
\* the payload of one frame under the command of another.
CommandOfItsPayload ==
  faults < 2 => \A i \in 1..Len(delivered) : delivered[i].cmd = Source(i)

\* Frames that have gone by and were not dispatched
Missed ==
  IF at # "head" THEN {}
  ELSE {k \in 1..Len(frames) \ excused :
          /\ \A i \in 1..Len(line) : line[i][1] # k
          /\ \A i \in 1..Len(delivered) : Source(i) # k}

\* The most that one damage costs: its own frame, the one whose head the rest
\* of it swallows, and what a wrong length takes.
Cost == 2 + (MaxLen + CrcSize) \div (Overhead + 1)

\* No 0xF7 in the last four bytes, which would be taken for the head of a
\* header whose rest takes in the head of the next frame.
EndsPlainly(c) == \A j \in c.heads : j + HeaderSize - 1 <= Size(c)

\* The receiver finds the next frame again: as long as frames end plainly, the
\* ones it misses are bounded by the damages. An undamaged line is read
\* without loss or error, whatever the frames hold.
DamageIsBounded ==
  /\ (faults = 0 \/ \A k \in 1..Len(frames) : EndsPlainly(frames[k]))
       => Cardinality(Missed) <= faults * Cost
  /\ at = "ended" => faults > 0
=============================================================================
