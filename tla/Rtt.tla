-------------------------------- MODULE Rtt --------------------------------
(***************************************************************************)
(* The debug channel of SEGGER_RTT.c, which printf writes to: a ring       *)
(* buffer that one side fills and the other empties, each moving its own   *)
(* offset and reading the other's. In the up-buffer the firmware writes    *)
(* and the debug probe reads, which has no lock at all; in the down-buffer *)
(* it is the other way round. The two share nothing, and a behaviour is    *)
(* about one of them (chan).                                               *)
(*                                                                         *)
(* SEGGER_RTT_LOCK keeps the interrupts out of a call, so that one call is *)
(* in progress at a time. SEGGER_RTT_WriteWithOverwriteNoLock must not be  *)
(* used with a probe (its NOTE 3) and is left out.                         *)
(***************************************************************************)
EXTENDS Naturals, Sequences

CONSTANTS
  SIZE,      \* SizeOfBuffer
  Terminals, \* terminals in use, 0 among them
  NUMBERS,   \* text bytes are numbered modulo this
  Lengths,   \* lengths of the texts that are written
  Modes      \* values of Flags: "skip", "trim", "block"

ASSUME RttAssumption ==
  /\ SIZE \in Nat \ {0} /\ NUMBERS \in Nat \ {0}
  /\ Terminals \subseteq Nat /\ 0 \in Terminals
  /\ Lengths \subseteq Nat
  /\ Modes \subseteq {"skip", "trim", "block"} /\ "skip" \in Modes

VARIABLES
  chan,           \* "up" or "down"
  mem,            \* pBuffer
  WrOff, RdOff,   \* moved by the one that fills, and by the one that empties
  Flags,
  ActiveTerminal, \* _ActiveTerminal
  pc,             \* what the call that fills does next
  rest,           \* what it has yet to write
  cuts,           \* the lengths of the pieces it writes that in
  n,              \* bytes of the copy in progress
  want, taken,    \* the call that empties: bytes to read, and bytes read
  number,         \* history: number of the next text byte
  shown, escaped, \* the viewer: terminal it shows bytes on, and 0xFF seen
  misplaced       \* history: it showed a byte on another terminal than meant

offsets == <<WrOff, RdOff>>
filling == <<pc, rest, cuts, n>>
viewer  == <<shown, escaped, misplaced>>
vars == <<chan, mem, offsets, Flags, ActiveTerminal, filling, want, taken, number, viewer>>

-----------------------------------------------------------------------------
(* Bytes: a text byte says for which terminal it is meant. The terminal is *)
(* switched by 0xFF and the terminal's letter. What a byte leaves behind   *)
(* when it has been read is Free.                                          *)
Byte == [kind : {"text", "FF", "letter", "free"}, term : Terminals, no : 0 .. NUMBERS - 1]
Free == [kind |-> "free", term |-> 0, no |-> 0]

Text(t, length) ==
  [i \in 1 .. length |-> [kind |-> "text", term |-> t, no |-> (number + i) % NUMBERS]]
Switch(t) == << [kind |-> "FF", term |-> 0, no |-> 0], [kind |-> "letter", term |-> t, no |-> 0] >>

Wrap(i) == IF i >= SIZE THEN i - SIZE ELSE i
Min2(a, b) == IF a <= b THEN a ELSE b

(* How many unread bytes there are.                                        *)
Used == IF WrOff >= RdOff THEN WrOff - RdOff ELSE WrOff + SIZE - RdOff

(* Mutant of Avail: the byte that tells a full ring from an empty one is   *)
(* used.                                                                   *)
AvailAll == IF RdOff <= WrOff THEN SIZE - WrOff + RdOff ELSE RdOff - WrOff

(* _GetAvailWriteSpace.                                                    *)
Avail == IF RdOff <= WrOff THEN SIZE - 1 - WrOff + RdOff ELSE RdOff - WrOff - 1

(* The three cases in which SEGGER_RTT_WriteSkipNoLock writes.             *)
FitsSkip(length) ==
  \/ RdOff <= WrOff /\ SIZE - 1 - WrOff >= length
  \/ RdOff <= WrOff /\ SIZE - 1 - WrOff + RdOff >= length
  \/ RdOff > WrOff /\ RdOff - WrOff - 1 >= length

(* A turn of _WriteBlocking: the room, up to the end of the buffer.        *)
Chunk == LET room == IF RdOff > WrOff THEN RdOff - WrOff - 1 ELSE SIZE - (WrOff - RdOff + 1)
         IN  Min2(Min2(room, SIZE - WrOff), cuts[1])
-----------------------------------------------------------------------------
(* The firmware writes to the up-buffer.                                   *)

Calling == chan = "up" /\ pc = "idle"

(* _WriteNoCheck: all at once. The offsets are read before and the other   *)
(* side can only have made room since.                                     *)
WriteNoCheck(text) ==
  /\ rest' = text /\ cuts' = <<Len(text)>> /\ n' = Len(text) /\ pc' = "copy"

(* _WriteBlocking, for each of the pieces.                                 *)
WriteBlocking(text, pieces) ==
  /\ rest' = text /\ cuts' = pieces /\ pc' = "room" /\ UNCHANGED n

Fixed == UNCHANGED <<chan, mem, offsets, Flags, want, taken, viewer>>
Numbered(length) == number' = (number + length) % NUMBERS

(* SEGGER_RTT_Write, with SEGGER_RTT_WriteString and printf. What does not *)
(* fit is dropped whole or in part.                                        *)
Write(length) ==
  LET text == Text(ActiveTerminal, length)
  IN  /\ Calling
      /\ \/ Flags = "skip" /\ Avail >= length /\ WriteNoCheck(text)
         \/ Flags = "trim" /\ WriteNoCheck(SubSeq(text, 1, Min2(Avail, length)))
         \/ Flags = "block" /\ WriteBlocking(text, <<length>>)
      /\ Numbered(length)
      /\ UNCHANGED ActiveTerminal /\ Fixed

WriteSkip(length) ==
  /\ Calling /\ FitsSkip(length)
  /\ WriteNoCheck(Text(ActiveTerminal, length))
  /\ Numbered(length)
  /\ UNCHANGED ActiveTerminal /\ Fixed

(* SEGGER_RTT_PutCharSkip, and SEGGER_RTT_PutChar, which spins in blocking *)
(* mode until there is room.                                               *)
PutChar ==
  /\ Calling /\ Wrap(WrOff + 1) # RdOff
  /\ WriteNoCheck(Text(ActiveTerminal, 1))
  /\ Numbered(1)
  /\ UNCHANGED ActiveTerminal /\ Fixed

(* Mutant of SetTerminal: changed also if there is no room to say so.      *)
SetTerminalAlways(t) ==
  /\ Calling
  /\ ActiveTerminal' = t
  /\ \/ Flags = "block" /\ WriteBlocking(Switch(t), <<2>>)
     \/ Flags # "block" /\ Avail >= 2 /\ WriteNoCheck(Switch(t))
     \/ Flags # "block" /\ Avail < 2 /\ UNCHANGED filling
  /\ UNCHANGED number /\ Fixed

SetTerminal(t) ==
  /\ Calling
  /\ ActiveTerminal' = t
  /\ \/ Flags = "block" /\ WriteBlocking(Switch(t), <<2>>)
     \/ Flags # "block" /\ Avail >= 2 /\ WriteNoCheck(Switch(t))
  /\ UNCHANGED number /\ Fixed

(* Mutant of Switches: room for one switch only.                           *)
SwitchesOnce == 2

(* SEGGER_RTT_TerminalOut writes a text between two switches of terminal,  *)
(* each by _WriteBlocking. In the modes that must not block it looks for   *)
(* the room first.                                                         *)
Switches == 4

TerminalOut(t, length) ==
  LET out(k) == WriteBlocking(Switch(t) \o Text(t, k) \o Switch(ActiveTerminal), <<2, k, 2>>)
  IN  /\ Calling
      /\ \/ Flags = "skip" /\ Avail >= length + Switches /\ out(length)
         \/ Flags = "trim" /\ Avail >= Switches /\ out(Min2(length, Avail - Switches))
         \/ Flags = "block" /\ out(length)
      /\ Numbered(length)
      /\ UNCHANGED ActiveTerminal /\ Fixed

(* SEGGER_RTT_SetFlagsUpBuffer, SEGGER_RTT_ConfigUpBuffer.                 *)
SetFlags(mode) ==
  /\ Calling
  /\ Flags' = mode
  /\ UNCHANGED <<chan, mem, offsets, ActiveTerminal, filling, want, taken, number, viewer>>

(* The steps of a call: the room is computed, ...                          *)
Room ==
  /\ pc = "room"
  /\ n' = Chunk
  /\ pc' = "copy"
  /\ UNCHANGED <<chan, mem, offsets, Flags, ActiveTerminal, rest, cuts, want, taken, number, viewer>>

(* ... the bytes are copied, around the end of the buffer if need be, ...  *)
Copy ==
  /\ pc = "copy"
  /\ mem' = [i \in 0 .. SIZE - 1 |->
               LET k == IF i >= WrOff THEN i - WrOff ELSE i + SIZE - WrOff
               IN  IF k < n THEN rest[k + 1] ELSE mem[i]]
  /\ pc' = "post"
  /\ UNCHANGED <<chan, offsets, Flags, ActiveTerminal, rest, cuts, n, want, taken, number, viewer>>

(* ... the new offset is stored, and the next turn or piece begins.        *)
Post ==
  /\ pc = "post"
  /\ WrOff' = Wrap(WrOff + n)
  /\ rest' = SubSeq(rest, n + 1, Len(rest))
  /\ cuts' = IF n = cuts[1] THEN Tail(cuts) ELSE [cuts EXCEPT ![1] = @ - n]
  /\ pc' = IF cuts' = <<>> THEN "idle" ELSE "room"
  /\ UNCHANGED <<chan, mem, RdOff, Flags, ActiveTerminal, n, want, taken, number, viewer>>

(* The probe fills the down-buffer with what is typed, a byte at a time.   *)
Type ==
  /\ chan = "down" /\ pc = "idle" /\ Avail >= 1
  /\ WriteNoCheck(Text(0, 1))
  /\ Numbered(1)
  /\ UNCHANGED ActiveTerminal /\ Fixed
-----------------------------------------------------------------------------
(* The other side empties the ring.                                        *)

Emptying == UNCHANGED <<chan, WrOff, Flags, ActiveTerminal, filling, number>>

(* SEGGER_RTT_ReadNoLock: what is left up to the end of the buffer, then   *)
(* what is at its start.                                                   *)
ReadLength(size) ==
  LET first == IF RdOff > WrOff THEN Min2(SIZE - RdOff, size) ELSE 0
      from  == IF RdOff + first = SIZE THEN 0 ELSE RdOff + first
  IN  first + IF first = size THEN 0 ELSE Min2(WrOff - from, size - first)

(* SEGGER_RTT_Read, SEGGER_RTT_GetKey, SEGGER_RTT_WaitKey.                 *)
Read(size) ==
  /\ chan = "down" /\ want = 0 /\ RdOff # WrOff
  /\ want' = ReadLength(size)
  /\ Emptying /\ UNCHANGED <<mem, RdOff, taken, viewer>>

(* The probe reads both offsets.                                           *)
Probe ==
  /\ chan = "up" /\ want = 0 /\ RdOff # WrOff
  /\ want' = Used
  /\ Emptying /\ UNCHANGED <<mem, RdOff, taken, viewer>>

(* A byte is read; the viewer follows the switches of terminal.            *)
Fetch ==
  LET b == mem[Wrap(RdOff + taken)]
  IN  /\ taken < want
      /\ taken' = taken + 1
      /\ mem' = [mem EXCEPT ![Wrap(RdOff + taken)] = Free]
      /\ escaped' = (b.kind = "FF")
      /\ shown' = IF escaped THEN b.term ELSE shown
      /\ misplaced' = (misplaced \/ (b.kind = "text" /\ (escaped \/ b.term # shown)))
      /\ Emptying /\ UNCHANGED <<RdOff, want>>

(* The offset is stored when all of them were read.                        *)
Store ==
  /\ want > 0 /\ taken = want
  /\ RdOff' = Wrap(RdOff + want)
  /\ want' = 0 /\ taken' = 0
  /\ Emptying /\ UNCHANGED <<mem, viewer>>
-----------------------------------------------------------------------------
Init ==
  /\ chan \in {"up", "down"}
  /\ mem = [i \in 0 .. SIZE - 1 |-> Free]
  /\ WrOff = 0 /\ RdOff = 0
  /\ Flags = "skip" /\ ActiveTerminal = 0
  /\ pc = "idle" /\ rest = <<>> /\ cuts = <<>> /\ n = 0
  /\ want = 0 /\ taken = 0
  /\ number = 0
  /\ shown = 0 /\ escaped = FALSE /\ misplaced = FALSE

Calls == \/ \E length \in Lengths : Write(length) \/ WriteSkip(length)
         \/ PutChar \/ Type
         \/ \E t \in Terminals : SetTerminal(t)
         \/ \E t \in Terminals, length \in Lengths : TerminalOut(t, length)
         \/ \E mode \in Modes : SetFlags(mode)

Next == \/ Calls \/ Room \/ Copy \/ Post
        \/ Probe \/ (\E size \in Lengths : Read(size)) \/ Fetch \/ Store

Spec == Init /\ [][Next]_vars
-----------------------------------------------------------------------------
TypeOK ==
  /\ chan \in {"up", "down"}
  /\ mem \in [0 .. SIZE - 1 -> Byte]
  /\ WrOff \in 0 .. SIZE - 1 /\ RdOff \in 0 .. SIZE - 1
  /\ Flags \in Modes /\ ActiveTerminal \in Terminals
  /\ pc \in {"idle", "room", "copy", "post"}
  /\ rest \in Seq(Byte) /\ cuts \in Seq(Nat) /\ n \in Nat
  /\ want \in 0 .. SIZE - 1 /\ taken \in 0 .. want
  /\ number \in 0 .. NUMBERS - 1
  /\ shown \in Terminals /\ escaped \in BOOLEAN /\ misplaced \in BOOLEAN

(* What was posted and not yet read.                                       *)
Stream == [i \in 1 .. Used - taken |-> mem[Wrap(RdOff + taken + i - 1)]]

(* However the two sides interleave, the ring is a stream of bytes: none   *)
(* is lost, repeated, changed before it is read, or out of order.          *)
B == INSTANCE ByteStream WITH stream <- Stream
Streams == B!Spec

(* A call that found room for all it writes never spins in _WriteBlocking  *)
(* with the interrupts off, whatever the probe does: only the blocking     *)
(* mode waits for the probe.                                               *)
NeverSpins ==
  pc = "copy" /\ Flags # "block" => n > 0 \/ cuts[1] = 0

(* The viewer shows each text on the terminal it was written to, though    *)
(* SetTerminal may fail and texts are dropped or trimmed.                  *)
OnItsTerminal == ~misplaced
=============================================================================
