----------------------------- MODULE RttProofs -----------------------------
(***************************************************************************)
(* The ring buffer of SEGGER_RTT.c for every size, every set of terminals  *)
(* and texts of any length: no call that must not block spins, no byte     *)
(* that is still to be read is overwritten, and the ring implements the    *)
(* stream of bytes of ByteStream.                                          *)
(***************************************************************************)
EXTENDS Rtt, TLAPS, SequenceTheorems

(* What is left to write, in at most three pieces.                         *)
Piece(i) == IF i <= Len(cuts) THEN cuts[i] ELSE 0
Total    == Piece(1) + Piece(2) + Piece(3)

Offsets ==
  /\ WrOff \in 0 .. SIZE - 1 /\ RdOff \in 0 .. SIZE - 1
  /\ want \in Nat /\ taken \in 0 .. want /\ want <= Used

(* A call is made of at most three pieces, and a copy fits the room and    *)
(* the piece.                                                              *)
Call ==
  /\ pc \in {"idle", "room", "copy", "post"}
  /\ cuts \in Seq(Nat) /\ Len(cuts) <= 3
  /\ n \in Nat
  /\ pc = "idle" <=> cuts = <<>>
  /\ pc \in {"copy", "post"} => n <= Avail /\ n <= cuts[1]

(* Outside the blocking mode there is room for all that is left, and each  *)
(* turn of the loop writes some of it.                                     *)
Roomy ==
  Flags # "block" =>
    /\ Total <= Avail
    /\ pc \in {"copy", "post"} => n > 0 \/ cuts[1] = 0

IInv == Offsets /\ Call /\ Roomy

-----------------------------------------------------------------------------
(* Free and used bytes and the one that is never used make up the ring.    *)
LEMMA RoomAndUse ==
  ASSUME Offsets
  PROVE  /\ Avail = SIZE - 1 - Used
         /\ Used \in 0 .. SIZE - 1
BY RttAssumption DEF Offsets, Avail, Used

(* Moving the write offset uses up as much room.                           *)
LEMMA WriteMoves ==
  ASSUME Offsets, NEW k \in Nat, k <= Avail,
         WrOff' = Wrap(WrOff + k), RdOff' = RdOff
  PROVE  /\ WrOff' \in 0 .. SIZE - 1
         /\ Avail' = Avail - k
         /\ Used' = Used + k
BY RttAssumption DEF Offsets, Avail, Used, Wrap

(* Moving the read offset makes as much.                                   *)
LEMMA ReadMoves ==
  ASSUME Offsets, NEW k \in Nat, k <= Used,
         RdOff' = Wrap(RdOff + k), WrOff' = WrOff
  PROVE  /\ RdOff' \in 0 .. SIZE - 1
         /\ Avail' = Avail + k
         /\ Used' = Used - k
BY RttAssumption DEF Offsets, Avail, Used, Wrap

(* A call written at once: its only piece has room.                        *)
LEMMA NoCheckFits ==
  ASSUME IInv, NEW text, Len(text) \in Nat, Len(text) <= Avail,
         WriteNoCheck(text), Fixed
  PROVE  IInv'
<1>1. Offsets' /\ Avail' = Avail
  BY DEF IInv, Offsets, Fixed, offsets, Used, Avail
<1>2. cuts' \in Seq(Nat) /\ Len(cuts') = 1 /\ cuts'[1] = Len(text) /\ cuts' # <<>>
  BY DEF WriteNoCheck
<1>3. Call'
  BY <1>1, <1>2 DEF WriteNoCheck, Call
<1>4. Roomy'
  BY <1>1, <1>2 DEF WriteNoCheck, Roomy, Total, Piece, Fixed
<1> QED BY <1>1, <1>3, <1>4 DEF IInv

(* A call written by _WriteBlocking.                                       *)
LEMMA BlockingFits ==
  ASSUME IInv, NEW text, NEW pieces \in Seq(Nat), pieces # <<>>, Len(pieces) <= 3,
         Flags # "block" => Len(pieces) = 3 /\ pieces[1] + pieces[2] + pieces[3] <= Avail,
         WriteBlocking(text, pieces), Fixed
  PROVE  IInv'
<1>1. Offsets' /\ Avail' = Avail
  BY DEF IInv, Offsets, Fixed, offsets, Used, Avail
<1>2. Call'
  <2>2. cuts' = pieces /\ n' = n /\ pc' = "room"
    BY DEF WriteBlocking
  <2>3. n \in Nat
    BY DEF IInv, Call
  <2>4. Len(cuts') <= 3
    BY <2>2, Zenon
  <2>5. (pc' = "idle") <=> (cuts' = <<>>)
    BY <2>2
  <2> QED BY <2>2, <2>3, <2>4, <2>5 DEF Call
<1>3. Roomy'
  <2>1. cuts' = pieces /\ pc' = "room" /\ Flags' = Flags
    BY DEF WriteBlocking, Fixed
  <2>2. CASE Flags = "block"
    BY <2>1, <2>2 DEF Roomy
  <2>3. CASE Flags # "block"
    <3>1. Len(pieces) = 3 /\ pieces[1] + pieces[2] + pieces[3] <= Avail'
      BY <1>1, <2>3
    <3>2. Total' = pieces[1] + pieces[2] + pieces[3]
      BY <2>1, <3>1 DEF Total, Piece
    <3> QED BY <2>1, <3>1, <3>2 DEF Roomy
  <2> QED BY <2>2, <2>3
<1> QED BY <1>1, <1>2, <1>3 DEF IInv

-----------------------------------------------------------------------------
(* The calls of the firmware keep the invariant; first, a text is as long  *)
(* as was asked.                                                           *)
LEMMA TextLength ==
  ASSUME NEW t, NEW length \in Nat
  PROVE  Len(Text(t, length)) = length
BY DEF Text

(* A write that fits at once, is trimmed or may block.                     *)
LEMMA WriteStep ==
  ASSUME IInv, NEW length \in Nat, Write(length)
  PROVE  IInv'
<1> DEFINE text == Text(ActiveTerminal, length)
<1>1. Len(text) = length
  BY TextLength
<1>2. Avail \in Nat
  BY RoomAndUse, RttAssumption DEF IInv, Offsets
<1> HIDE DEF text
<1>3. CASE Flags = "skip" /\ Avail >= length /\ WriteNoCheck(text)
  BY <1>1, <1>3, NoCheckFits DEF Write, text
<1>4. CASE Flags = "trim" /\ WriteNoCheck(SubSeq(text, 1, Min2(Avail, length)))
  <2>1. Min2(Avail, length) \in 0 .. length /\ Min2(Avail, length) <= Avail
    BY <1>2 DEF Min2
  <2> DEFINE part == SubSeq(text, 1, Min2(Avail, length))
  <2>2. Len(part) = Min2(Avail, length)
    BY <1>1, <2>1
  <2>3. Len(part) \in Nat /\ Len(part) <= Avail
    BY <2>1, <2>2
  <2>4. WriteNoCheck(part) /\ Fixed
    BY <1>4 DEF Write
  <2> QED BY <2>3, <2>4, NoCheckFits
<1>5. CASE Flags = "block" /\ WriteBlocking(text, <<length>>)
  <2>1. <<length>> \in Seq(Nat) /\ <<length>> # <<>> /\ Len(<<length>>) <= 3
    OBVIOUS
  <2>2. Fixed
    BY DEF Write
  <2> QED BY <1>5, <2>1, <2>2, BlockingFits
<1> QED BY <1>3, <1>4, <1>5 DEF Write, text

(* A write that takes all or nothing.                                      *)
LEMMA WriteSkipStep ==
  ASSUME IInv, NEW length \in Nat, WriteSkip(length)
  PROVE  IInv'
<1>1. length <= Avail
  BY RttAssumption DEF IInv, Offsets, WriteSkip, FitsSkip, Avail
<1> QED BY <1>1, TextLength, NoCheckFits DEF WriteSkip

(* A character goes in if the next offset is free.                         *)
LEMMA PutCharStep == ASSUME IInv, PutChar PROVE IInv'
<1>1. 1 <= Avail
  BY RttAssumption DEF IInv, Offsets, PutChar, Wrap, Avail
<1> QED BY <1>1, TextLength, NoCheckFits DEF PutChar

(* So does the one of the down ring.                                       *)
LEMMA TypeStep == ASSUME IInv, Type PROVE IInv'
<1>1. 1 <= Avail
  BY RttAssumption DEF IInv, Offsets, Type, Avail
<1> QED BY <1>1, TextLength, NoCheckFits DEF Type

(* A switch of two bytes.                                                  *)
LEMMA SetTerminalStep ==
  ASSUME IInv, NEW t, SetTerminal(t)
  PROVE  IInv'
<1>1. Len(Switch(t)) = 2
  BY DEF Switch
<1>2. CASE Flags = "block" /\ WriteBlocking(Switch(t), <<2>>)
  <2>1. <<2>> \in Seq(Nat) /\ <<2>> # <<>> /\ Len(<<2>>) <= 3
    OBVIOUS
  <2>2. Fixed
    BY DEF SetTerminal
  <2> QED BY <1>2, <2>1, <2>2, BlockingFits
<1>3. CASE Flags # "block" /\ Avail >= 2 /\ WriteNoCheck(Switch(t))
  <2>1. Avail \in Nat
    BY RoomAndUse, RttAssumption DEF IInv, Offsets
  <2>2. Len(Switch(t)) \in Nat /\ Len(Switch(t)) <= Avail
    BY <1>1, <1>3, <2>1
  <2> QED BY <1>3, <2>2, NoCheckFits DEF SetTerminal
<1> QED BY <1>2, <1>3 DEF SetTerminal

(* Two switches and the text between them, the four bytes of which are     *)
(* taken from the room before the text is.                                 *)
LEMMA TerminalOutStep ==
  ASSUME IInv, NEW t, NEW length \in Nat, TerminalOut(t, length)
  PROVE  IInv'
<1> DEFINE text(k) == Switch(t) \o Text(t, k) \o Switch(ActiveTerminal)
<1> HIDE DEF text
<1>1. Avail \in Nat
  BY RoomAndUse, RttAssumption DEF IInv, Offsets
<1>2. ASSUME NEW k \in Nat, Flags # "block" => k + 4 <= Avail,
             WriteBlocking(text(k), <<2, k, 2>>), Fixed
      PROVE  IInv'
  <2>1. <<2, k, 2>> \in Seq(Nat) /\ <<2, k, 2>> # <<>> /\ Len(<<2, k, 2>>) <= 3
    OBVIOUS
  <2>2. Flags # "block" =>
          Len(<<2, k, 2>>) = 3 /\ <<2, k, 2>>[1] + <<2, k, 2>>[2] + <<2, k, 2>>[3] <= Avail
    BY <1>1, <1>2
  <2> QED BY <1>2, <2>1, <2>2, BlockingFits
<1>3. CASE Flags = "skip" /\ Avail >= length + 4 /\ WriteBlocking(text(length), <<2, length, 2>>)
  BY <1>2, <1>3 DEF TerminalOut
<1>4. CASE /\ Flags = "trim" /\ Avail >= 4
           /\ WriteBlocking(text(Min2(length, Avail - 4)), <<2, Min2(length, Avail - 4), 2>>)
  <2>1. Min2(length, Avail - 4) \in Nat /\ Min2(length, Avail - 4) + 4 <= Avail
    BY <1>1, <1>4 DEF Min2
  <2> QED BY <1>2, <1>4, <2>1 DEF TerminalOut
<1>5. CASE Flags = "block" /\ WriteBlocking(text(length), <<2, length, 2>>)
  BY <1>2, <1>5 DEF TerminalOut
<1> QED BY <1>3, <1>4, <1>5 DEF TerminalOut, Switches, text

(* The mode changes between calls only.                                    *)
LEMMA SetFlagsStep == ASSUME IInv, NEW mode, SetFlags(mode) PROVE IInv'
<1>1. Offsets' /\ Avail' = Avail
  BY DEF IInv, Offsets, SetFlags, offsets, Used, Avail
<1>2. Call'
  BY <1>1 DEF IInv, Call, SetFlags, Calling, filling
<1>3. Roomy'
  BY <1>1, RoomAndUse, RttAssumption DEF IInv, Offsets, Call, Roomy, Total, Piece, SetFlags, Calling, filling
<1> QED BY <1>1, <1>2, <1>3 DEF IInv

-----------------------------------------------------------------------------
(* So do the steps of a call: it has one to three pieces to write.         *)
LEMMA FirstPiece ==
  ASSUME Call, pc # "idle"
  PROVE  /\ cuts[1] \in Nat /\ Len(cuts) \in 1 .. 3
         /\ Total \in Nat /\ cuts[1] <= Total
<1>1. Len(cuts) \in 1 .. 3
  <2>1. cuts \in Seq(Nat) /\ cuts # <<>> /\ Len(cuts) <= 3
    BY DEF Call
  <2> DEFINE pieces == Len(cuts)
  <2>2. pieces \in Nat \ {0} /\ pieces <= 3
    BY <2>1, EmptySeq
  <2> HIDE DEF pieces
  <2>3. pieces \in 1 .. 3
    BY <2>2
  <2> QED BY <2>3 DEF pieces
<1>2. \A i \in 1 .. 3 : Piece(i) \in Nat
  BY DEF Call, Piece
<1>3. cuts[1] \in Nat /\ Piece(1) = cuts[1]
  BY <1>1 DEF Call, Piece
<1> QED BY <1>1, <1>2, <1>3 DEF Total

(* The room that was read is still there: only this side uses it up.       *)
LEMMA RoomStep == ASSUME IInv, Room PROVE IInv'
<1>1. Offsets' /\ Avail' = Avail /\ Total' = Total
  BY DEF IInv, Offsets, Room, offsets, Used, Avail, Total, Piece
<1>2. cuts[1] \in Nat /\ Total \in Nat /\ cuts[1] <= Total
  BY FirstPiece DEF IInv, Room
<1>3. n' = Min2(Min2(Avail, SIZE - WrOff), cuts[1]) /\ Avail \in Nat
  BY RoomAndUse, RttAssumption DEF IInv, Offsets, Room, Chunk, Avail
<1>4. n' \in Nat /\ n' <= Avail /\ n' <= cuts[1]
  BY <1>2, <1>3, RttAssumption DEF IInv, Offsets, Min2
<1>5. cuts[1] <= Avail => n' > 0 \/ cuts[1] = 0
  BY <1>2, <1>3, RttAssumption DEF IInv, Offsets, Min2
<1>6. Call'
  BY <1>1, <1>4 DEF IInv, Call, Room
<1>7. Roomy'
  BY <1>1, <1>2, <1>3, <1>5 DEF IInv, Roomy, Room
<1> QED BY <1>1, <1>6, <1>7 DEF IInv

(* Copying moves no offset.                                                *)
LEMMA CopyStep == ASSUME IInv, Copy PROVE IInv'
<1>1. Offsets' /\ Avail' = Avail /\ Total' = Total
  BY DEF IInv, Offsets, Copy, offsets, Used, Avail, Total, Piece
<1>2. Call' /\ Roomy'
  BY <1>1 DEF IInv, Call, Roomy, Copy
<1> QED BY <1>1, <1>2 DEF IInv

(* What is left to write shrinks by what was copied.                       *)
LEMMA PiecesShrink ==
  ASSUME Call, pc = "post",
         cuts' = IF n = cuts[1] THEN Tail(cuts) ELSE [cuts EXCEPT ![1] = @ - n]
  PROVE  cuts' \in Seq(Nat) /\ Len(cuts') <= 3 /\ Total' = Total - n
<1>1. cuts \in Seq(Nat) /\ cuts # <<>> /\ n \in Nat /\ n <= cuts[1]
  BY DEF Call
<1>2. cuts[1] \in Nat /\ Len(cuts) \in 1 .. 3
  BY FirstPiece
<1>3. CASE n = cuts[1]
  <2>1. cuts' = Tail(cuts)
    BY <1>3
  <2>2. cuts' \in Seq(Nat) /\ Len(cuts') = Len(cuts) - 1
    BY <1>1, <2>1
  <2>3. \A i \in 1 .. Len(cuts') : cuts'[i] = cuts[i + 1]
    BY <1>1, <2>1
  <2>4. Piece(1)' = Piece(2) /\ Piece(2)' = Piece(3) /\ Piece(3)' = 0 /\ Piece(1) = n
    BY <1>2, <1>3, <2>2, <2>3, SMTT(30) DEF Piece
  <2>5. \A i \in 1 .. 3 : Piece(i) \in Nat
    BY <1>1 DEF Piece
  <2>6. Total' = Piece(2) + Piece(3) /\ Total = n + Piece(2) + Piece(3)
    BY <2>4, <2>5 DEF Total
  <2>7. Total' = Total - n
    BY <1>1, <2>5, <2>6
  <2>8. Len(cuts') <= 3
    BY <1>2, <2>2
  <2> QED BY <2>2, <2>7, <2>8
<1>4. CASE n # cuts[1]
  <2>1. cuts' = [cuts EXCEPT ![1] = @ - n] /\ cuts[1] - n \in Nat
    BY <1>1, <1>2, <1>4
  <2>2. cuts' \in Seq(Nat) /\ Len(cuts') = Len(cuts)
    BY <1>1, <1>2, <2>1
  <2>3. cuts'[1] = cuts[1] - n /\ \A i \in 2 .. Len(cuts) : cuts'[i] = cuts[i]
    BY <1>1, <1>2, <2>1
  <2>4. Piece(1)' = Piece(1) - n /\ Piece(2)' = Piece(2) /\ Piece(3)' = Piece(3)
    BY <1>2, <2>2, <2>3 DEF Piece
  <2>5. \A i \in 1 .. 3 : Piece(i) \in Nat
    BY <1>1 DEF Piece
  <2>6. Total' = Piece(1) - n + Piece(2) + Piece(3) /\ Total = Piece(1) + Piece(2) + Piece(3)
    BY <2>4 DEF Total
  <2>7. Total' = Total - n
    BY <1>1, <2>5, <2>6
  <2>8. Len(cuts') <= 3
    BY <1>2, <2>2
  <2> QED BY <2>2, <2>7, <2>8
<1> QED BY <1>3, <1>4

(* Posting uses up the room that the copy took.                            *)
LEMMA PostStep == ASSUME IInv, Post PROVE IInv'
<1>1. n \in Nat /\ n <= Avail /\ pc = "post"
  BY DEF IInv, Call, Post
<1>2. /\ WrOff' \in 0 .. SIZE - 1
      /\ Avail' = Avail - n
      /\ Used' = Used + n
  BY <1>1, WriteMoves DEF IInv, Post
<1>3. Used \in Nat /\ Avail \in Nat
  BY RoomAndUse, RttAssumption DEF IInv, Offsets
<1>4. Offsets'
  BY <1>1, <1>2, <1>3 DEF IInv, Offsets, Post
<1>5. cuts' \in Seq(Nat) /\ Len(cuts') <= 3 /\ Total' = Total - n
  BY <1>1, PiecesShrink DEF IInv, Post
<1>6. Call'
  BY <1>1, <1>5 DEF Call, Post
<1>7. Total \in Nat
  BY <1>1, FirstPiece DEF IInv
<1>8. Roomy'
  BY <1>1, <1>2, <1>3, <1>5, <1>7 DEF IInv, Roomy, Post
<1> QED BY <1>4, <1>6, <1>8 DEF IInv

-----------------------------------------------------------------------------
(* And so do those of the other side, which reads only what was posted.    *)
LEMMA ReadsPosted ==
  ASSUME Offsets, NEW size \in Nat
  PROVE  ReadLength(size) \in 0 .. Used
BY RttAssumption DEF Offsets, ReadLength, Min2, Used

(* A step that moves neither offset.                                       *)
LEMMA WantStep ==
  ASSUME IInv, Emptying, RdOff' = RdOff,
         want' \in Nat, taken' \in 0 .. want', want' <= Used
  PROVE  IInv'
<1>1. Offsets' /\ Avail' = Avail /\ Total' = Total
  BY DEF IInv, Offsets, Emptying, filling, Used, Avail, Total, Piece
<1>2. Call' /\ Roomy'
  BY <1>1 DEF IInv, Call, Roomy, Emptying, filling
<1> QED BY <1>1, <1>2 DEF IInv

(* The other side takes no more than was posted.                           *)
LEMMA EmptyingStep ==
  ASSUME IInv, Probe \/ (\E size \in Lengths : Read(size)) \/ Fetch
  PROVE  IInv'
<1>1. Used \in Nat /\ taken \in 0 .. want /\ want \in Nat /\ want <= Used
  BY RoomAndUse, RttAssumption DEF IInv, Offsets
<1>2. CASE Probe
  BY <1>1, <1>2, WantStep DEF Probe
<1>3. ASSUME NEW size \in Lengths, Read(size) PROVE IInv'
  <2>1. ReadLength(size) \in 0 .. Used
    BY ReadsPosted, RttAssumption DEF IInv
  <2>2. want' = ReadLength(size) /\ taken' = taken /\ want = 0 /\ RdOff' = RdOff /\ Emptying
    BY <1>3 DEF Read
  <2>3. want' \in Nat /\ taken' \in 0 .. want' /\ want' <= Used
    BY <1>1, <2>1, <2>2
  <2> QED BY <2>2, <2>3, WantStep
<1>4. CASE Fetch
  <2>1. taken' = taken + 1 /\ want' = want /\ taken < want /\ RdOff' = RdOff /\ Emptying
    BY <1>4 DEF Fetch
  <2>2. want' \in Nat /\ taken' \in 0 .. want' /\ want' <= Used
    BY <1>1, <2>1
  <2> QED BY <2>1, <2>2, WantStep
<1> QED BY <1>2, <1>3, <1>4

(* What it has taken becomes room.                                         *)
LEMMA StoreStep == ASSUME IInv, Store PROVE IInv'
<1>1. want \in Nat /\ want <= Used /\ WrOff' = WrOff /\ RdOff' = Wrap(RdOff + want)
  BY DEF IInv, Offsets, Store, Emptying
<1>2. /\ RdOff' \in 0 .. SIZE - 1
      /\ Avail' = Avail + want
      /\ Used' = Used - want
  BY <1>1, ReadMoves DEF IInv
<1>3. Used \in Nat /\ Avail \in Nat
  BY RoomAndUse, RttAssumption DEF IInv, Offsets
<1>4. Offsets'
  BY <1>1, <1>2, <1>3 DEF IInv, Offsets, Store
<1>5. Call' /\ Total' = Total
  BY <1>1, <1>2, <1>3 DEF IInv, Call, Store, Emptying, filling, Total, Piece
<1>6. Total \in Nat
  BY DEF IInv, Call, Total, Piece
<1>7. Roomy'
  BY <1>1, <1>2, <1>3, <1>5, <1>6 DEF IInv, Roomy, Store, Emptying, filling
<1> QED BY <1>4, <1>5, <1>7 DEF IInv

-----------------------------------------------------------------------------
(* The invariant holds of the empty ring.                                  *)
LEMMA IInvInit == Init => IInv
<1> SUFFICES ASSUME Init PROVE IInv
  OBVIOUS
<1>1. Offsets
  BY RttAssumption DEF Init, Offsets, Used
<1>2. Call
  BY DEF Init, Call
<1>3. Total = 0 /\ Avail = SIZE - 1
  BY RttAssumption DEF Init, Total, Piece, Avail
<1>4. Roomy
  BY <1>3, RttAssumption DEF Init, Roomy
<1> QED BY <1>1, <1>2, <1>4 DEF IInv

(* Whatever call is made keeps it.                                         *)
LEMMA CallsStep == IInv /\ Calls => IInv'
<1> SUFFICES ASSUME IInv, Calls PROVE IInv'
  OBVIOUS
<1>1. \A length \in Lengths : length \in Nat
  BY RttAssumption
<1> QED BY <1>1, WriteStep, WriteSkipStep, PutCharStep, TypeStep, SetTerminalStep, TerminalOutStep,
           SetFlagsStep DEF Calls

(* Every step keeps the invariant.                                         *)
LEMMA IInvStep == IInv /\ [Next]_vars => IInv'
<1>1. IInv /\ UNCHANGED vars => IInv'
  <2> SUFFICES ASSUME IInv, UNCHANGED vars PROVE IInv'
    OBVIOUS
  <2>1. Offsets' /\ Avail' = Avail /\ Total' = Total
    BY DEF IInv, Offsets, vars, offsets, Used, Avail, Total, Piece, filling
  <2>2. Call' /\ Roomy'
    BY <2>1 DEF IInv, Call, Roomy, vars, filling
  <2> QED BY <2>1, <2>2 DEF IInv
<1> QED BY <1>1, CallsStep, RoomStep, CopyStep, PostStep, EmptyingStep, StoreStep DEF Next

(* The invariant holds throughout.                                         *)
LEMMA Invariance == Spec => []IInv
<1> QED BY IInvInit, IInvStep, PTL DEF Spec

(* A call that found room for all it writes never spins with the           *)
(* interrupts off.                                                         *)
THEOREM CallsNeverSpin == Spec => []NeverSpins
<1>1. IInv => NeverSpins
  BY DEF IInv, Roomy, NeverSpins
<1> QED BY <1>1, Invariance, PTL

(* No byte that was posted and is still to be read changes: neither a copy *)
(* in progress nor a call that takes the offsets while the other side      *)
(* moves one of them touches it.                                           *)
Unread(i) ==
  LET k == IF i >= RdOff THEN i - RdOff ELSE i + SIZE - RdOff
  IN  taken <= k /\ k < Used

UnreadKept == \A i \in 0 .. SIZE - 1 : Unread(i) /\ Unread(i)' => mem'[i] = mem[i]

(* A copy goes to free slots.                                              *)
LEMMA CopyKeeps == ASSUME IInv, Copy PROVE UnreadKept
<1> SUFFICES ASSUME NEW i \in 0 .. SIZE - 1, Unread(i) PROVE mem'[i] = mem[i]
  BY DEF UnreadKept
<1> DEFINE k == IF i >= WrOff THEN i - WrOff ELSE i + SIZE - WrOff
<1>1. n <= Avail /\ n \in Nat
  BY DEF IInv, Call, Copy
<1>2. ~(k < n)
  BY <1>1, RttAssumption DEF IInv, Offsets, Unread, Used, Avail
<1> QED BY <1>2 DEF Copy

(* The ring has one slot for each offset.                                  *)
Slots == mem = [i \in 0 .. SIZE - 1 |-> mem[i]]

(* No step adds or removes a slot.                                         *)
LEMMA SlotsStep == Slots /\ [Next]_vars => Slots'
<1> SUFFICES ASSUME Slots, [Next]_vars PROVE Slots'
  OBVIOUS
<1>1. CASE Copy
  BY <1>1 DEF Slots, Copy
<1>2. CASE Fetch
  BY <1>2 DEF Slots, Fetch
<1>3. CASE mem' = mem
  BY <1>3 DEF Slots
<1>4. Copy \/ Fetch \/ mem' = mem
  BY DEF Next, vars, Calls, Write, WriteSkip, PutChar, Type, SetTerminal, TerminalOut, SetFlags,
         Fixed, Room, Post, Probe, Read, Store
<1> QED BY <1>1, <1>2, <1>3, <1>4

(* A slot that was fetched is no longer to be read.                        *)
LEMMA FetchKeeps == ASSUME IInv, Slots, Fetch PROVE UnreadKept
<1> SUFFICES ASSUME NEW i \in 0 .. SIZE - 1, Unread(i)' PROVE mem'[i] = mem[i]
  BY DEF UnreadKept
<1>1. taken' = taken + 1 /\ RdOff' = RdOff /\ WrOff' = WrOff /\ taken < want
  BY DEF Fetch, Emptying
<1>2. i # Wrap(RdOff + taken)
  BY <1>1, RttAssumption DEF IInv, Offsets, Unread, Wrap, Used
<1>3. mem' = [mem EXCEPT ![Wrap(RdOff + taken)] = Free]
  BY DEF Fetch
<1> QED BY <1>2, <1>3 DEF Slots

(* _WriteBlocking and the read never lose a posted byte to each other,     *)
(* whatever the ring's size, the modes and the order of their steps.       *)
THEOREM NeverOverwrites == Spec => [][UnreadKept]_vars
<1>1. Init => Slots
  BY DEF Init, Slots
<1>2. IInv /\ Slots /\ [Next]_vars => [UnreadKept]_vars
  <2> SUFFICES ASSUME IInv, Slots, Next PROVE UnreadKept
    OBVIOUS
  <2>1. CASE mem' = mem
    BY <2>1 DEF UnreadKept
  <2>2. Copy \/ Fetch \/ mem' = mem
    BY DEF Next, Calls, Write, WriteSkip, PutChar, Type, SetTerminal, TerminalOut, SetFlags,
           Fixed, Room, Post, Probe, Read, Store
  <2> QED BY <2>1, <2>2, CopyKeeps, FetchKeeps
<1> QED BY <1>1, <1>2, SlotsStep, Invariance, PTL DEF Spec
-----------------------------------------------------------------------------
(* What the bytes are: the pieces make up the rest of the call, and those  *)
(* that were copied and not posted yet are in their slots.                 *)
Bytes ==
  /\ mem \in [0 .. SIZE - 1 -> Byte]
  /\ rest \in Seq(Byte) /\ Len(rest) = Total
  /\ number \in 0 .. NUMBERS - 1 /\ ActiveTerminal \in Terminals
  /\ pc = "post" => \A k \in 1 .. n : mem[Wrap(WrOff + k - 1)] = rest[k]

(* Texts and switches are bytes.                                           *)
LEMMA TextBytes ==
  ASSUME NEW t \in Terminals, NEW length \in Nat, number \in 0 .. NUMBERS - 1
  PROVE  Text(t, length) \in Seq(Byte) /\ Len(Text(t, length)) = length
<1>1. \A i \in 1 .. length :
        [kind |-> "text", term |-> t, no |-> (number + i) % NUMBERS] \in Byte
  BY RttAssumption DEF Byte
<1>2. Text(t, length) \in [1 .. length -> Byte]
  BY <1>1 DEF Text
<1> QED BY <1>2 DEF Text

(* So are the two bytes of a switch.                                       *)
LEMMA SwitchBytes ==
  ASSUME NEW t \in Terminals
  PROVE  Switch(t) \in Seq(Byte) /\ Len(Switch(t)) = 2
<1>1. /\ [kind |-> "FF", term |-> 0, no |-> 0] \in Byte
      /\ [kind |-> "letter", term |-> t, no |-> 0] \in Byte
  BY RttAssumption DEF Byte
<1> QED BY <1>1 DEF Switch

(* A call that begins.                                                     *)
LEMMA CallBytes ==
  ASSUME Bytes, mem' = mem, pc' # "post", NEW text \in Seq(Byte), rest' = text, Len(text) = Total',
         number' \in 0 .. NUMBERS - 1, ActiveTerminal' \in Terminals
  PROVE  Bytes'
BY DEF Bytes

(* One that is written at once.                                            *)
LEMMA NoCheckBytes ==
  ASSUME Bytes, NEW text \in Seq(Byte), WriteNoCheck(text), Fixed,
         number' \in 0 .. NUMBERS - 1, ActiveTerminal' \in Terminals
  PROVE  Bytes'
<1>1. Len(text) \in Nat
  OBVIOUS
<1>2. Total' = Len(text)
  BY <1>1 DEF WriteNoCheck, Total, Piece
<1> QED BY <1>2, CallBytes DEF WriteNoCheck, Fixed

(* One that is written piece by piece.                                     *)
LEMMA BlockingBytes ==
  ASSUME Bytes, NEW text \in Seq(Byte), Fixed,
         NEW pieces, WriteBlocking(text, pieces),
         \/ pieces = <<Len(text)>>
         \/ \E k \in Nat : pieces = <<2, k, 2>> /\ Len(text) = k + 4,
         number' \in 0 .. NUMBERS - 1, ActiveTerminal' \in Terminals
  PROVE  Bytes'
<1>1. Len(text) \in Nat
  OBVIOUS
<1>2. Total' = Len(text)
  BY <1>1 DEF WriteBlocking, Total, Piece
<1> QED BY <1>2, CallBytes DEF WriteBlocking, Fixed

(* Every call begins with the bytes that its pieces add up to.             *)
LEMMA WriteBytes ==
  ASSUME IInv, Bytes, NEW length \in Nat, Write(length)
  PROVE  Bytes'
<1> DEFINE text == Text(ActiveTerminal, length)
<1>1. text \in Seq(Byte) /\ Len(text) = length
  BY TextBytes DEF Bytes
<1>2. number' \in 0 .. NUMBERS - 1 /\ ActiveTerminal' \in Terminals /\ Fixed
  BY RttAssumption DEF Bytes, Write, Numbered
<1> HIDE DEF text
<1>3. CASE WriteNoCheck(text)
  BY <1>1, <1>2, <1>3, NoCheckBytes
<1>4. CASE WriteNoCheck(SubSeq(text, 1, Min2(Avail, length)))
  <2>1. Min2(Avail, length) \in 0 .. length
    BY RoomAndUse, RttAssumption DEF IInv, Offsets, Min2
  <2>2. SubSeq(text, 1, Min2(Avail, length)) \in Seq(Byte)
    BY <1>1, <2>1
  <2> QED BY <1>2, <1>4, <2>2, NoCheckBytes
<1>5. CASE WriteBlocking(text, <<length>>)
  BY <1>1, <1>2, <1>5, BlockingBytes
<1> QED BY <1>3, <1>4, <1>5 DEF Write, text

(* A text that is written at once or not at all.                           *)
LEMMA WriteSkipBytes ==
  ASSUME Bytes, NEW length \in Nat,
         WriteNoCheck(Text(ActiveTerminal, length)), Numbered(length), UNCHANGED ActiveTerminal, Fixed
  PROVE  Bytes'
<1>1. Text(ActiveTerminal, length) \in Seq(Byte)
  BY TextBytes DEF Bytes
<1>2. number' \in 0 .. NUMBERS - 1 /\ ActiveTerminal' \in Terminals
  BY RttAssumption DEF Bytes, Numbered
<1> QED BY <1>1, <1>2, NoCheckBytes

(* What is typed is for terminal 0.                                        *)
LEMMA TypeBytes == ASSUME Bytes, Type PROVE Bytes'
<1>1. Text(0, 1) \in Seq(Byte)
  BY TextBytes, RttAssumption DEF Bytes
<1>2. number' \in 0 .. NUMBERS - 1 /\ ActiveTerminal' \in Terminals
  BY RttAssumption DEF Bytes, Type, Numbered
<1> QED BY <1>1, <1>2, NoCheckBytes DEF Type

(* A switch of terminal.                                                   *)
LEMMA SetTerminalBytes ==
  ASSUME Bytes, NEW t \in Terminals, SetTerminal(t)
  PROVE  Bytes'
<1>1. Switch(t) \in Seq(Byte) /\ Len(Switch(t)) = 2
  BY SwitchBytes
<1>2. number' \in 0 .. NUMBERS - 1 /\ ActiveTerminal' \in Terminals /\ Fixed
  BY DEF Bytes, SetTerminal
<1>3. CASE WriteBlocking(Switch(t), <<2>>)
  BY <1>1, <1>2, <1>3, BlockingBytes
<1>4. CASE WriteNoCheck(Switch(t))
  BY <1>1, <1>2, <1>4, NoCheckBytes
<1> QED BY <1>3, <1>4 DEF SetTerminal

(* Bytes after bytes are bytes.                                            *)
LEMMA JoinBytes ==
  ASSUME NEW a \in Seq(Byte), NEW b \in Seq(Byte)
  PROVE  a \o b \in Seq(Byte) /\ Len(a \o b) = Len(a) + Len(b)
BY ConcatProperties

(* A text between two switches.                                            *)
LEMMA TerminalOutBytes ==
  ASSUME IInv, Bytes, NEW t \in Terminals, NEW length \in Nat, TerminalOut(t, length)
  PROVE  Bytes'
<1> DEFINE text(k) == Switch(t) \o Text(t, k) \o Switch(ActiveTerminal)
<1>1. ASSUME NEW k \in Nat PROVE text(k) \in Seq(Byte) /\ Len(text(k)) = k + 4
  <2>1. /\ Switch(t) \in Seq(Byte) /\ Len(Switch(t)) = 2
        /\ Switch(ActiveTerminal) \in Seq(Byte) /\ Len(Switch(ActiveTerminal)) = 2
        /\ Text(t, k) \in Seq(Byte) /\ Len(Text(t, k)) = k
    BY SwitchBytes, TextBytes DEF Bytes
  <2>2. /\ Switch(t) \o Text(t, k) \in Seq(Byte)
        /\ Len(Switch(t) \o Text(t, k)) = 2 + k
    BY <2>1, JoinBytes
  <2>3. /\ text(k) \in Seq(Byte)
        /\ Len(text(k)) = (2 + k) + 2
    BY <2>1, <2>2, JoinBytes
  <2> QED BY <2>3
<1> HIDE DEF text
<1>2. number' \in 0 .. NUMBERS - 1 /\ ActiveTerminal' \in Terminals /\ Fixed
  BY RttAssumption DEF Bytes, TerminalOut, Numbered
<1>3. ASSUME NEW k \in Nat, WriteBlocking(text(k), <<2, k, 2>>) PROVE Bytes'
  BY <1>1, <1>2, <1>3, BlockingBytes
<1>4. Avail >= 4 => Min2(length, Avail - 4) \in Nat
  BY RoomAndUse, RttAssumption DEF IInv, Offsets, Min2
<1>5. \E k \in Nat : WriteBlocking(text(k), <<2, k, 2>>)
  BY <1>4 DEF TerminalOut, Switches, text
<1> QED BY <1>3, <1>5

(* All calls do.                                                           *)
LEMMA CallsBytes == ASSUME IInv, Bytes, Calls PROVE Bytes'
<1>1. \A length \in Lengths : length \in Nat
  BY RttAssumption
<1>2. ASSUME NEW mode \in Modes, SetFlags(mode) PROVE Bytes'
  BY <1>2 DEF Bytes, SetFlags, Calling, filling, Total, Piece, offsets
<1>3. ASSUME PutChar PROVE Bytes'
  BY <1>3, WriteSkipBytes DEF PutChar
<1>4. ASSUME NEW length \in Lengths, WriteSkip(length) PROVE Bytes'
  BY <1>1, <1>4, WriteSkipBytes DEF WriteSkip
<1> QED BY <1>1, <1>2, <1>3, <1>4, WriteBytes, TypeBytes, SetTerminalBytes, TerminalOutBytes DEF Calls

(* A copy puts the bytes into their slots, and no other step before the    *)
(* offset is posted touches them.                                          *)
LEMMA CopyBytes == ASSUME IInv, Bytes, Copy PROVE Bytes'
<1>1. n \in Nat /\ n <= cuts[1] /\ n <= Avail /\ cuts[1] <= Total /\ Total \in Nat /\ cuts[1] \in Nat
  BY FirstPiece DEF IInv, Call, Copy
<1>2. n <= Len(rest)
  BY <1>1 DEF Bytes
<1>3. \A k \in 0 .. n - 1 : rest[k + 1] \in Byte
  BY <1>1, <1>2 DEF Bytes
<1>4. mem' \in [0 .. SIZE - 1 -> Byte]
  BY <1>1, <1>3, RttAssumption DEF Bytes, Copy, IInv, Offsets
<1>5. ASSUME NEW k \in 1 .. n PROVE mem'[Wrap(WrOff' + k - 1)] = rest'[k]
  <2>1. Avail \in Nat /\ Avail < SIZE
    BY RoomAndUse, RttAssumption DEF IInv, Offsets
  <2>2. Wrap(WrOff + k - 1) \in 0 .. SIZE - 1
    BY <1>1, <2>1, RttAssumption DEF IInv, Offsets, Wrap
  <2> DEFINE i == Wrap(WrOff + k - 1)
  <2>3. (IF i >= WrOff THEN i - WrOff ELSE i + SIZE - WrOff) = k - 1
    BY <1>1, <2>1, RttAssumption DEF IInv, Offsets, Wrap
  <2>4. mem'[i] = rest[k]
    BY <1>1, <2>2, <2>3 DEF Copy
  <2> QED BY <2>4 DEF Copy, offsets
<1> QED BY <1>4, <1>5 DEF Bytes, Copy, offsets, Total, Piece

(* What was posted is left to write no longer.                             *)
LEMMA PostBytes == ASSUME IInv, Bytes, Post PROVE Bytes'
<1>1. n \in Nat /\ n <= cuts[1] /\ cuts[1] <= Total /\ cuts[1] \in Nat /\ Total \in Nat
  BY FirstPiece DEF IInv, Call, Post
<1>2. Total' = Total - n
  BY PiecesShrink DEF IInv, Post
<1>3. rest' \in Seq(Byte) /\ Len(rest') = Len(rest) - n
  BY <1>1 DEF Bytes, Post
<1> QED BY <1>1, <1>2, <1>3 DEF Bytes, Post

(* Fetching clears a slot that was posted.                                 *)
LEMMA FetchBytes == ASSUME IInv, Bytes, Fetch PROVE Bytes'
<1> DEFINE at == Wrap(RdOff + taken)
<1>1. Free \in Byte
  BY RttAssumption DEF Free, Byte
<1>2. mem' = [mem EXCEPT ![at] = Free] /\ Emptying
  BY DEF Fetch
<1>3. mem' \in [0 .. SIZE - 1 -> Byte]
  BY <1>1, <1>2 DEF Bytes
<1>4. ASSUME pc = "post", NEW k \in 1 .. n PROVE mem'[Wrap(WrOff + k - 1)] = rest[k]
  <2>1. n \in Nat /\ n <= Avail
    BY <1>4 DEF IInv, Call
  <2>2. Used \in Nat /\ taken < Used /\ taken \in Nat /\ Avail = SIZE - 1 - Used
    BY RoomAndUse, RttAssumption DEF IInv, Offsets, Fetch
  <2>3. Wrap(WrOff + k - 1) # at /\ Wrap(WrOff + k - 1) \in 0 .. SIZE - 1
    BY <2>1, <2>2, RttAssumption DEF IInv, Offsets, Wrap, Used
  <2>4. mem[Wrap(WrOff + k - 1)] = rest[k]
    BY <1>4 DEF Bytes
  <2> QED BY <1>2, <2>3, <2>4 DEF Bytes
<1> QED BY <1>2, <1>3, <1>4 DEF Bytes, Emptying, filling, Total, Piece

(* Every step keeps the bytes.                                             *)
LEMMA BytesStep == IInv /\ Bytes /\ [Next]_vars => Bytes'
<1> SUFFICES ASSUME IInv, Bytes, [Next]_vars PROVE Bytes'
  OBVIOUS
<1>1. CASE Room \/ Probe \/ (\E size \in Lengths : Read(size)) \/ Store \/ UNCHANGED vars
  <2>1. UNCHANGED <<mem, WrOff, rest, cuts, number, ActiveTerminal>> /\ pc' \in {pc, "copy"} /\ (pc' = pc => n' = n)
    BY <1>1 DEF Room, Probe, Read, Store, Emptying, filling, offsets, vars
  <2> QED BY <2>1 DEF Bytes, Total, Piece
<1> QED BY <1>1, CallsBytes, CopyBytes, PostBytes, FetchBytes DEF Next

-----------------------------------------------------------------------------
(* The ring as a stream. The bytes in it are those in the slots between    *)
(* the one that is fetched next and the write offset.                      *)
StreamFacts ==
  /\ Used - taken \in Nat
  /\ Stream \in Seq(Byte) /\ Len(Stream) = Used - taken
  /\ \A i \in 1 .. Used - taken : Stream[i] = mem[Wrap(RdOff + taken + i - 1)]

(* The ring holds the stream.                                              *)
LEMMA StreamIs == IInv /\ Bytes => StreamFacts
<1> SUFFICES ASSUME IInv, Bytes PROVE StreamFacts
  OBVIOUS
<1>1. Used - taken \in Nat
  BY RoomAndUse, RttAssumption DEF IInv, Offsets
<1>2. ASSUME NEW i \in 1 .. Used - taken PROVE mem[Wrap(RdOff + taken + i - 1)] \in Byte
  <2>1. Used \in 0 .. SIZE - 1 /\ taken \in 0 .. Used /\ RdOff \in 0 .. SIZE - 1
    BY RoomAndUse, RttAssumption DEF IInv, Offsets
  <2>2. Wrap(RdOff + taken + i - 1) \in 0 .. SIZE - 1
    BY <2>1, RttAssumption DEF Wrap
  <2> QED BY <2>2 DEF Bytes
<1>3. Stream \in [1 .. Used - taken -> Byte]
  BY <1>2 DEF Stream
<1> QED BY <1>1, <1>3 DEF Stream, StreamFacts

(* And after the step, too.                                                *)
LEMMA StreamWillBe == IInv' /\ Bytes' => StreamFacts'
BY StreamIs, PTL

(* What the proofs below compare: the length and each byte.                *)
LEMMA SameStream ==
  ASSUME IInv, Bytes, IInv', Bytes', Used' - taken' = Used - taken,
         \A i \in 1 .. Used - taken :
           mem'[Wrap(RdOff' + taken' + i - 1)] = mem[Wrap(RdOff + taken + i - 1)]
  PROVE  Stream' = Stream
<1>1. StreamFacts /\ StreamFacts'
  BY StreamIs, StreamWillBe
<1>2. Stream' \in Seq(Byte) /\ Stream \in Seq(Byte) /\ Len(Stream') = Len(Stream)
  BY <1>1 DEF StreamFacts
<1>3. \A i \in 1 .. Len(Stream') : Stream'[i] = Stream[i]
  BY <1>1 DEF StreamFacts
<1> QED BY <1>2, <1>3, SeqEqual

(* The ring's variables, and the step of the abstract stream.              *)
Both     == IInv /\ Bytes /\ IInv' /\ Bytes'
Streamed == [B!Next]_<<rest, Stream>>

(* The slot of the i-th byte of the stream.                                *)
Slot(i) == Wrap(RdOff + taken + i - 1)

(* It is one that is still to be read.                                     *)
LEMMA SlotUnread ==
  ASSUME IInv, NEW i \in 1 .. Used - taken
  PROVE  Slot(i) \in 0 .. SIZE - 1 /\ Unread(Slot(i))
<1>1. Used \in 0 .. SIZE - 1 /\ taken \in 0 .. Used /\ RdOff \in 0 .. SIZE - 1
  BY RoomAndUse, RttAssumption DEF IInv, Offsets
<1> QED BY <1>1, RttAssumption DEF Slot, Wrap, Unread

(* A call begins when nothing is left of the one before.                   *)
LEMMA CallsStream == ASSUME IInv, Bytes, Calls PROVE Streamed
<1>1. UNCHANGED <<mem, WrOff, RdOff, taken>> /\ (pc = "idle" \/ UNCHANGED rest)
  BY DEF Calls, Write, WriteSkip, PutChar, Type, SetTerminal, TerminalOut, SetFlags, Calling,
         Fixed, offsets, filling
<1>2. Stream' = Stream
  BY <1>1 DEF Stream, Used
<1>3. CASE pc = "idle"
  <2>1. Len(rest) = 0 /\ rest \in Seq(Byte)
    BY <1>3 DEF IInv, Call, Bytes, Total, Piece
  <2>2. rest = <<>>
    BY <2>1, EmptySeq
  <2>3. B!Call(rest')
    BY <1>2, <2>2 DEF B!Call
  <2> QED BY <2>3 DEF Streamed, B!Next
<1> QED BY <1>1, <1>2, <1>3 DEF Streamed

(* A copy does not show.                                                   *)
LEMMA CopyStream == ASSUME Both, Copy PROVE Streamed
<1>1. UNCHANGED <<rest, WrOff, RdOff, taken>>
  BY DEF Copy, offsets
<1>2. UnreadKept
  BY CopyKeeps DEF Both
<1>3. Used' = Used
  BY <1>1 DEF Used
<1>4. ASSUME NEW i \in 1 .. Used - taken
      PROVE  mem'[Wrap(RdOff' + taken' + i - 1)] = mem[Wrap(RdOff + taken + i - 1)]
  <2>1. Slot(i) \in 0 .. SIZE - 1 /\ Unread(Slot(i))
    BY SlotUnread DEF Both
  <2>2. Unread(Slot(i))'
    BY <1>1, <1>3, <2>1 DEF Unread, Slot
  <2>3. mem'[Slot(i)] = mem[Slot(i)]
    BY <1>1, <1>2, <1>3, <2>1 DEF UnreadKept, Unread
  <2> QED BY <1>1, <2>3 DEF Slot
<1>5. Stream' = Stream
  BY <1>1, <1>3, <1>4, SameStream DEF Both
<1> QED BY <1>1, <1>5 DEF Streamed

(* The new offset makes the copied bytes part of the stream.               *)
LEMMA PostStream == ASSUME Both, Post PROVE Streamed
<1>1. n \in Nat /\ n <= Avail /\ n <= cuts[1] /\ cuts[1] <= Total /\ cuts[1] \in Nat /\ Total \in Nat
  BY FirstPiece DEF Both, IInv, Call, Post
<1>2. n <= Len(rest) /\ rest \in Seq(Byte)
  BY <1>1 DEF Both, Bytes
<1>3. /\ Used' = Used + n /\ WrOff' = Wrap(WrOff + n)
      /\ UNCHANGED <<mem, RdOff, taken>> /\ rest' = SubSeq(rest, n + 1, Len(rest))
  BY <1>1, WriteMoves DEF Both, IInv, Post
<1>4. StreamFacts /\ StreamFacts'
  BY StreamIs, StreamWillBe DEF Both
<1> DEFINE old == Used - taken
<1>5. /\ Used \in 0 .. SIZE - 1 /\ taken \in 0 .. Used /\ Avail = SIZE - 1 - Used
       /\ RdOff \in 0 .. SIZE - 1 /\ WrOff \in 0 .. SIZE - 1
  BY RoomAndUse, RttAssumption DEF Both, IInv, Offsets
<1>6. /\ old \in Nat /\ Len(Stream) = old /\ Len(Stream') = old + n /\ Stream' \in Seq(Byte)
       /\ Used' - taken' = old + n
  BY <1>1, <1>3, <1>4, <1>5 DEF StreamFacts
<1> DEFINE sent == SubSeq(rest, 1, n)
<1>7. sent \in Seq(Byte) /\ Len(sent) = n /\ \A k \in 1 .. n : sent[k] = rest[k]
  BY <1>1, <1>2
<1> HIDE DEF sent
<1>8. /\ Stream \o sent \in Seq(Byte) /\ Len(Stream \o sent) = Len(Stream) + n
      /\ \A i \in 1 .. Len(Stream) + n :
           (Stream \o sent)[i] = IF i <= Len(Stream) THEN Stream[i] ELSE sent[i - Len(Stream)]
  BY <1>4, <1>7, ConcatProperties DEF StreamFacts
<1>9. ASSUME NEW i \in 1 .. old + n PROVE Stream'[i] = (Stream \o sent)[i]
  <2> HIDE DEF old
  <2>1. Stream'[i] = mem[Wrap(RdOff + taken + i - 1)]
    BY <1>3, <1>4, <1>6 DEF StreamFacts
  <2>2. CASE i <= old
    <3>1. i \in 1 .. old
      BY <1>6, <2>2
    <3>2. Stream[i] = mem[Wrap(RdOff + taken + i - 1)]
      BY <1>4, <3>1 DEF StreamFacts, old
    <3> QED BY <1>8, <1>6, <2>1, <2>2, <3>2
  <2>3. CASE i > old
    <3>1. PICK k \in 1 .. n : i = old + k
      <4>1. i - old \in 1 .. n /\ i = old + (i - old)
        BY <1>1, <1>6, <2>3
      <4> QED BY <4>1
    <3>2. RdOff + taken + i - 1 = RdOff + Used + k - 1
      BY <1>5, <3>1 DEF old
    <3>3. Wrap(RdOff + Used + k - 1) = Wrap(WrOff + k - 1)
      BY <1>1, <1>5, <3>1, RttAssumption DEF Wrap, Used
    <3>4. mem[Wrap(WrOff + k - 1)] = rest[k]
      BY <3>1 DEF Both, Bytes, Post
    <3>5. (Stream \o sent)[i] = sent[k]
      <4>1. i \in 1 .. Len(Stream) + n /\ ~(i <= Len(Stream)) /\ i - Len(Stream) = k
        BY <1>1, <1>6, <2>3, <3>1
      <4> QED BY <1>8, <4>1
    <3>6. Wrap(RdOff + taken + i - 1) = Wrap(WrOff + k - 1)
      BY <3>2, <3>3, Zenon
    <3>7. Stream'[i] = rest[k]
      BY <2>1, <3>4, <3>6, Zenon
    <3>8. sent[k] = rest[k]
      BY <1>7, <3>1
    <3> QED BY <3>5, <3>7, <3>8, Zenon
  <2>4. i <= old \/ i > old
    BY <1>1, <1>6
  <2> QED BY <2>2, <2>3, <2>4
<1>10. Stream' = Stream \o sent
  <2>1. Len(Stream') = Len(Stream \o sent)
    BY <1>8, <1>6
  <2> QED BY <1>8, <1>9, <1>6, <2>1, SeqEqual
<1>11. CASE n = 0
  <2>1. sent = <<>>
    BY <1>7, <1>11, EmptySeq
  <2>2. Stream' = Stream
    BY <1>4, <1>10, <2>1, ConcatEmptySeq DEF StreamFacts
  <2>3. rest' = rest
    BY <1>2, <1>3, <1>11, SubSeqFull
  <2> QED BY <2>2, <2>3 DEF Streamed
<1>12. CASE n # 0
  <2>1. n \in 1 .. Len(rest)
    BY <1>1, <1>2, <1>12
  <2>2. B!Send(n)
    BY <1>3, <1>10 DEF B!Send, sent
  <2> QED BY <2>1, <2>2 DEF Streamed, B!Next
<1> QED BY <1>11, <1>12

(* A byte that is fetched leaves the stream ...                            *)
LEMMA FetchStream == ASSUME Both, Fetch PROVE Streamed
<1>1. taken' = taken + 1 /\ UNCHANGED <<rest, RdOff, WrOff>> /\ taken < want
  BY DEF Fetch, Emptying, filling
<1>2. Used' = Used
  BY <1>1 DEF Used
<1>3. StreamFacts /\ StreamFacts'
  BY StreamIs, StreamWillBe DEF Both
<1>4. Len(Stream) \in Nat \ {0} /\ Len(Stream') = Len(Stream) - 1 /\ taken \in Nat /\ Used \in Nat
  BY <1>1, <1>2, <1>3, RoomAndUse, RttAssumption DEF StreamFacts, Both, IInv, Offsets
<1> DEFINE left == SubSeq(Stream, 2, Len(Stream))
<1>5. /\ left \in Seq(Byte) /\ Len(left) = Len(Stream) - 1
      /\ \A i \in 1 .. Len(Stream) - 1 : left[i] = Stream[i + 1]
  BY <1>3, <1>4, SubSeqProperties DEF StreamFacts
<1> HIDE DEF left
<1>6. ASSUME NEW i \in 1 .. Len(Stream') PROVE Stream'[i] = left[i]
  <2>1. i + 1 \in 1 .. Used - taken /\ i \in Nat
    BY <1>3, <1>4 DEF StreamFacts
  <2>2. left[i] = mem[Slot(i + 1)]
    BY <1>3, <1>4, <1>5, <2>1 DEF StreamFacts, Slot
  <2>3. Stream'[i] = mem'[Wrap(RdOff + taken + 1 + i - 1)]
    <3>1. Stream'[i] = mem'[Wrap(RdOff' + taken' + i - 1)]
      BY <1>3 DEF StreamFacts
    <3>2. RdOff' + taken' + i - 1 = RdOff + taken + 1 + i - 1
      BY <1>1, <1>4, <2>1, RttAssumption DEF Both, IInv, Offsets
    <3> QED BY <3>1, <3>2
  <2>4. RdOff + taken + 1 + i - 1 = RdOff + taken + (i + 1) - 1
    BY <1>4, <2>1, RttAssumption DEF Both, IInv, Offsets
  <2>5. Slot(i + 1) # Wrap(RdOff + taken) /\ Slot(i + 1) \in 0 .. SIZE - 1
    <3>1. Used \in 0 .. SIZE - 1 /\ taken \in 0 .. Used /\ RdOff \in 0 .. SIZE - 1
      BY RoomAndUse, RttAssumption DEF Both, IInv, Offsets
    <3> QED BY <2>1, <3>1, RttAssumption DEF Slot, Wrap
  <2>6. mem'[Slot(i + 1)] = mem[Slot(i + 1)]
    BY <2>5 DEF Fetch, Both, Bytes
  <2> QED BY <2>2, <2>3, <2>4, <2>6 DEF Slot
<1>7. Stream' = left
  BY <1>3, <1>4, <1>5, <1>6, SeqEqual DEF StreamFacts
<1>8. B!Take(1) /\ 1 \in 1 .. Len(Stream)
  BY <1>1, <1>4, <1>7 DEF B!Take, left
<1> QED BY <1>8 DEF Streamed, B!Next

(* ... and the offset follows.                                             *)
LEMMA StoreStream == ASSUME Both, Store PROVE Streamed
<1>1. /\ want \in Nat /\ want <= Used /\ taken = want /\ taken' = 0
      /\ WrOff' = WrOff /\ RdOff' = Wrap(RdOff + want) /\ UNCHANGED <<mem, rest>>
  BY DEF Both, IInv, Offsets, Store, Emptying, filling
<1>2. Used' = Used - want
  BY <1>1, ReadMoves DEF Both, IInv
<1>3. Used \in 0 .. SIZE - 1 /\ RdOff \in 0 .. SIZE - 1
  BY RoomAndUse, RttAssumption DEF Both, IInv, Offsets
<1>4. ASSUME NEW i \in 1 .. Used - taken
      PROVE  Wrap(RdOff' + taken' + i - 1) = Wrap(RdOff + taken + i - 1)
  BY <1>1, <1>3, RttAssumption DEF Wrap
<1>5. Stream' = Stream
  BY <1>1, <1>2, <1>3, <1>4, SameStream DEF Both
<1> QED BY <1>1, <1>5 DEF Streamed

(* Every step of the ring is a step of the stream, or does not show.       *)
LEMMA StreamStep == Both /\ [Next]_vars => Streamed
<1> SUFFICES ASSUME Both, [Next]_vars PROVE Streamed
  OBVIOUS
<1>1. CASE Room \/ Probe \/ (\E size \in Lengths : Read(size)) \/ UNCHANGED vars
  <2>1. UNCHANGED <<mem, WrOff, RdOff, taken, rest>>
    BY <1>1 DEF Room, Probe, Read, Emptying, filling, offsets, vars
  <2> QED BY <2>1 DEF Streamed, Stream, Used
<1> QED BY <1>1, CallsStream, CopyStream, PostStream, FetchStream, StoreStream DEF Next, Both

(* The empty ring is the empty stream.                                     *)
LEMMA BytesInit == Init => Bytes /\ B!Init
<1> SUFFICES ASSUME Init PROVE Bytes /\ B!Init
  OBVIOUS
<1>1. Free \in Byte
  BY RttAssumption DEF Free, Byte
<1>2. Bytes
  BY <1>1, RttAssumption DEF Init, Bytes, Total, Piece
<1>3. Stream = <<>>
  <2>1. StreamFacts
    BY <1>2, IInvInit, StreamIs
  <2>2. Used - taken = 0
    BY RttAssumption DEF Init, Used
  <2> QED BY <2>1, <2>2, EmptySeq DEF StreamFacts
<1> QED BY <1>2, <1>3 DEF Init, B!Init

(* SEGGER_RTT.c implements the stream of bytes: for every size of the      *)
(* ring and however the two sides interleave, what is written comes out    *)
(* once, unchanged and in order.                                           *)
THEOREM RingIsStream == Spec => Streams
<1>1. IInv /\ Bytes /\ IInv' /\ [Next]_vars => Streamed
  BY BytesStep, StreamStep DEF Both
<1> QED BY <1>1, BytesInit, BytesStep, Invariance, PTL DEF Spec, Streams, B!Spec, Streamed
-----------------------------------------------------------------------------
(* Texts on their terminals. Bytes lead a viewer that shows terminal from, *)
(* and that has seen 0xFF or not (esc), to terminal to, and show each text *)
(* where it is meant to be: what a text follows says its terminal, and a   *)
(* letter comes after 0xFF and nowhere else.                               *)
Follows(x, y) ==
  /\ x.kind = "FF" <=> y.kind = "letter"
  /\ y.kind = "text" => x.term = y.term

Leads(s, esc, from, to) ==
  /\ s = <<>> => ~esc /\ from = to
  /\ s # <<>> =>
       /\ esc <=> s[1].kind = "letter"
       /\ s[1].kind = "text" => s[1].term = from
       /\ s[Len(s)].kind # "FF" /\ s[Len(s)].term = to
  /\ \A i \in 1 .. Len(s) : s[i].kind \in {"text", "FF", "letter"}
  /\ \A i \in 1 .. Len(s) - 1 : Follows(s[i], s[i + 1])

(* What the viewer has yet to see leads to the terminal that the firmware  *)
(* writes to next.                                                         *)
Placed ==
  /\ Leads(Stream \o rest, escaped, shown, ActiveTerminal)
  /\ chan = "down" => ActiveTerminal = 0
  /\ ~misplaced

(* The last byte that the viewer has to see before it shows terminal to.   *)
LEMMA LeadsEnd ==
  ASSUME NEW s \in Seq(Byte), NEW esc \in BOOLEAN, NEW from, NEW to, Leads(s, esc, from, to),
         s # <<>>
  PROVE  Len(s) \in Nat \ {0} /\ s[Len(s)].kind \in {"text", "letter"} /\ s[Len(s)].term = to
<1>1. Len(s) \in Nat \ {0}
  BY EmptySeq
<1> QED BY <1>1 DEF Leads

(* What leads on from where the bytes before it have led to.               *)
LEMMA LeadsOn ==
  ASSUME NEW s \in Seq(Byte), NEW r \in Seq(Byte), NEW esc \in BOOLEAN,
         NEW from, NEW mid, NEW to,
         Leads(s, esc, from, mid), Leads(r, FALSE, mid, to)
  PROVE  Leads(s \o r, esc, from, to)
<1>1. /\ s \o r \in Seq(Byte) /\ Len(s \o r) = Len(s) + Len(r)
      /\ \A i \in 1 .. Len(s) + Len(r) :
           (s \o r)[i] = IF i <= Len(s) THEN s[i] ELSE r[i - Len(s)]
  BY ConcatProperties
<1>2. CASE s = <<>>
  <2>1. s \o r = r /\ ~esc /\ from = mid
    BY <1>2, ConcatEmptySeq DEF Leads
  <2> QED BY <2>1
<1>3. CASE r = <<>>
  <2>1. s \o r = s /\ mid = to
    BY <1>3, ConcatEmptySeq DEF Leads
  <2> QED BY <2>1
<1>4. CASE s # <<>> /\ r # <<>>
  <2> DEFINE sr == s \o r
             a == Len(s)
             b == Len(r)
  <2>1. a \in Nat \ {0} /\ b \in Nat \ {0}
    BY <1>4, EmptySeq
  <2>2. /\ Len(sr) = a + b
        /\ \A i \in 1 .. a : sr[i] = s[i]
        /\ \A i \in 1 .. b : sr[a + i] = r[i]
    <3> HIDE DEF a, b
    <3>1. \A i \in 1 .. b : (a + i) - a = i /\ a + i \in 1 .. a + b /\ ~(a + i <= a)
      BY <2>1
    <3>2. \A i \in 1 .. a : i \in 1 .. a + b /\ i <= a
      BY <2>1
    <3> QED BY <1>1, <3>1, <3>2 DEF a, b
  <2>3. s[a].kind \in {"text", "letter"} /\ s[a].term = mid
    BY <1>4, LeadsEnd
  <2>4. r[b].kind \in {"text", "letter"} /\ r[b].term = to
    BY <1>4, LeadsEnd
  <2>5. Follows(s[a], r[1])
    BY <1>4, <2>3 DEF Leads, Follows
  <2> HIDE DEF sr
  <2>6. sr # <<>> /\ sr[1] = s[1] /\ sr[Len(sr)] = r[b]
    BY <2>1, <2>2
  <2>7. ASSUME NEW i \in 1 .. a + b PROVE sr[i].kind \in {"text", "FF", "letter"}
    <3>1. CASE i <= a
      BY <2>1, <2>2, <3>1 DEF Leads
    <3>2. CASE i > a
      <4>1. i - a \in 1 .. b /\ a + (i - a) = i
        BY <2>1, <3>2
      <4>2. sr[i] = r[i - a]
        BY <2>2, <4>1
      <4> QED BY <4>1, <4>2 DEF Leads
    <3> QED BY <2>1, <3>1, <3>2
  <2>8. ASSUME NEW i \in 1 .. (a + b) - 1 PROVE Follows(sr[i], sr[i + 1])
    <3>1. CASE i < a
      <4>1. i \in 1 .. a - 1 /\ i \in 1 .. a /\ i + 1 \in 1 .. a
        BY <2>1, <3>1
      <4> QED BY <2>2, <4>1 DEF Leads
    <3>2. CASE i = a
      <4>1. a \in 1 .. a /\ 1 \in 1 .. b
        BY <2>1
      <4>2. sr[i] = s[a] /\ sr[i + 1] = r[1]
        BY <2>2, <3>2, <4>1
      <4> QED BY <2>5, <4>2
    <3>3. CASE i > a
      <4> DEFINE j == i - a
      <4>1. j \in 1 .. b - 1 /\ j \in 1 .. b /\ j + 1 \in 1 .. b /\ a + j = i /\ a + (j + 1) = i + 1
        BY <2>1, <3>3
      <4> HIDE DEF j
      <4>2. sr[i] = r[j] /\ sr[i + 1] = r[j + 1]
        BY <2>2, <4>1
      <4> QED BY <4>1, <4>2 DEF Leads
    <3> QED BY <2>1, <3>1, <3>2, <3>3
  <2>9. /\ esc <=> sr[1].kind = "letter"
        /\ sr[1].kind = "text" => sr[1].term = from
        /\ sr[Len(sr)].kind # "FF" /\ sr[Len(sr)].term = to
    BY <1>4, <2>4, <2>6 DEF Leads
  <2>10. Leads(sr, esc, from, to)
    BY <2>2, <2>6, <2>7, <2>8, <2>9 DEF Leads
  <2> QED BY <2>10 DEF sr
<1> QED BY <1>2, <1>3, <1>4

(* What is left when the viewer has seen the first byte.                   *)
LEMMA LeadsFurther ==
  ASSUME NEW s \in Seq(Byte), s # <<>>, NEW esc \in BOOLEAN, NEW from, NEW to,
         Leads(s, esc, from, to), NEW left \in Seq(Byte), Len(left) = Len(s) - 1,
         \A i \in 1 .. Len(s) - 1 : left[i] = s[i + 1]
  PROVE  /\ Leads(left, s[1].kind = "FF", IF esc THEN s[1].term ELSE from, to)
         /\ s[1].kind = "text" => ~esc /\ s[1].term = from
<1> DEFINE m == Len(s)
<1>1. m \in Nat \ {0}
  BY EmptySeq
<1>2. s[m].kind \in {"text", "letter"} /\ s[m].term = to
  BY LeadsEnd
<1>3. /\ esc <=> s[1].kind = "letter"
      /\ s[1].kind = "text" => s[1].term = from
      /\ \A i \in 1 .. m : s[i].kind \in {"text", "FF", "letter"}
      /\ \A i \in 1 .. m - 1 : Follows(s[i], s[i + 1])
  BY DEF Leads
<1>4. 1 \in 1 .. m /\ s[1].kind \in {"text", "FF", "letter"}
  BY <1>1, <1>3
<1>5. CASE m = 1
  <2>1. Len(left) = 0 /\ left = <<>>
    BY <1>5, EmptySeq
  <2>2. s[1].kind # "FF" /\ (IF esc THEN s[1].term ELSE from) = to
    BY <1>2, <1>3, <1>5
  <2> QED BY <1>3, <2>1, <2>2 DEF Leads
<1>6. CASE m # 1
  <2>1. /\ Len(left) = m - 1 /\ m - 1 \in Nat \ {0} /\ left # <<>>
        /\ 1 \in 1 .. m - 1 /\ m - 1 \in 1 .. m - 1 /\ (m - 1) + 1 = m
    BY <1>1, <1>6
  <2> HIDE DEF m
  <2>2. left[1] = s[2] /\ left[m - 1] = s[m] /\ Follows(s[1], s[2])
    BY <1>3, <2>1 DEF m
  <2>3. ASSUME NEW i \in 1 .. m - 1 PROVE left[i].kind \in {"text", "FF", "letter"}
    <3>1. left[i] = s[i + 1] /\ i + 1 \in 1 .. m
      BY <1>1 DEF m
    <3> QED BY <1>3, <3>1
  <2>4. ASSUME NEW i \in 1 .. (m - 1) - 1 PROVE Follows(left[i], left[i + 1])
    <3>1. i + 1 \in 1 .. m - 1 /\ i \in 1 .. m - 1
      BY <1>1
    <3>2. left[i] = s[i + 1] /\ left[i + 1] = s[(i + 1) + 1]
      BY <3>1 DEF m
    <3> QED BY <1>3, <3>1, <3>2
  <2>5. /\ (s[1].kind = "FF") <=> left[1].kind = "letter"
        /\ left[1].kind = "text" => left[1].term = IF esc THEN s[1].term ELSE from
    BY <1>3, <1>4, <2>2 DEF Follows
  <2>6. left[m - 1].kind # "FF" /\ left[m - 1].term = to
    BY <1>2, <2>2
  <2> QED BY <1>3, <2>1, <2>3, <2>4, <2>5, <2>6 DEF Leads
<1> QED BY <1>5, <1>6

(* A text leads from its terminal to its terminal, a switch to any.        *)
LEMMA TextLeads ==
  ASSUME NEW t \in Terminals, NEW s \in Seq(Byte),
         \A i \in 1 .. Len(s) : s[i].kind = "text" /\ s[i].term = t
  PROVE  Leads(s, FALSE, t, t)
<1>1. Len(s) \in Nat /\ (s # <<>> => Len(s) # 0)
  BY EmptySeq
<1>2. \A i \in 1 .. Len(s) - 1 : Follows(s[i], s[i + 1])
  BY <1>1 DEF Follows
<1>3. s # <<>> => 1 \in 1 .. Len(s) /\ Len(s) \in 1 .. Len(s)
  BY <1>1
<1> QED BY <1>2, <1>3 DEF Leads

LEMMA SwitchLeads ==
  ASSUME NEW t \in Terminals, NEW from
  PROVE  Leads(Switch(t), FALSE, from, t)
<1>1. /\ Len(Switch(t)) = 2 /\ Switch(t) # <<>>
      /\ Switch(t)[1].kind = "FF" /\ Switch(t)[2].kind = "letter" /\ Switch(t)[2].term = t
  BY DEF Switch
<1>2. \A i \in 1 .. 2 : i = 1 \/ i = 2
  OBVIOUS
<1>3. \A i \in 1 .. 2 - 1 : Follows(Switch(t)[i], Switch(t)[i + 1])
  BY <1>1 DEF Follows
<1>4. \A i \in 1 .. 2 : Switch(t)[i].kind \in {"text", "FF", "letter"}
  BY <1>1, <1>2
<1> QED BY <1>1, <1>3, <1>4 DEF Leads

(* What a call writes leads from the terminal that the firmware wrote to   *)
(* before it to the one that it writes to after it.                        *)
LEMMA CallLeads ==
  ASSUME IInv, Bytes, chan = "down" => ActiveTerminal = 0, Calls
  PROVE  \/ UNCHANGED <<rest, ActiveTerminal>>
         \/ /\ pc = "idle" /\ rest' \in Seq(Byte)
            /\ Leads(rest', FALSE, ActiveTerminal, ActiveTerminal')
<1>0. ActiveTerminal \in Terminals /\ number \in 0 .. NUMBERS - 1 /\ 0 \in Terminals
      /\ Lengths \subseteq Nat
  BY RttAssumption DEF Bytes
<1>1. ASSUME NEW t \in Terminals, NEW length \in Nat
      PROVE  /\ Text(t, length) \in Seq(Byte) /\ Len(Text(t, length)) = length
             /\ \A i \in 1 .. length : Text(t, length)[i].kind = "text" /\ Text(t, length)[i].term = t
             /\ Leads(Text(t, length), FALSE, t, t)
  <2>1. Text(t, length) \in Seq(Byte) /\ Len(Text(t, length)) = length
    BY <1>0, TextBytes
  <2>2. \A i \in 1 .. length : Text(t, length)[i].kind = "text" /\ Text(t, length)[i].term = t
    BY DEF Text
  <2> QED BY <2>1, <2>2, TextLeads
<1>2. ASSUME NEW length \in Lengths, Write(length)
      PROVE  /\ pc = "idle" /\ rest' \in Seq(Byte)
             /\ Leads(rest', FALSE, ActiveTerminal, ActiveTerminal')
  <2> DEFINE text == Text(ActiveTerminal, length)
             part == SubSeq(text, 1, Min2(Avail, length))
  <2>1. length \in Nat /\ ActiveTerminal' = ActiveTerminal /\ pc = "idle"
    BY <1>0, <1>2 DEF Write, Calling
  <2>2. rest' = text \/ rest' = part
    BY <1>2 DEF Write, WriteNoCheck, WriteBlocking
  <2>3. Min2(Avail, length) \in 0 .. length
    BY <2>1, RoomAndUse, RttAssumption DEF IInv, Offsets, Min2
  <2>4. text \in Seq(Byte) /\ Len(text) = length /\ Leads(text, FALSE, ActiveTerminal, ActiveTerminal)
        /\ \A i \in 1 .. length : text[i].kind = "text" /\ text[i].term = ActiveTerminal
    BY <1>0, <1>1, <2>1
  <2> HIDE DEF text
  <2>5. /\ part \in Seq(Byte) /\ Len(part) = Min2(Avail, length)
        /\ \A i \in 1 .. Min2(Avail, length) : part[i] = text[i]
    BY <2>1, <2>3, <2>4
  <2>6. \A i \in 1 .. Len(part) : part[i].kind = "text" /\ part[i].term = ActiveTerminal
    BY <2>1, <2>3, <2>4, <2>5
  <2>7. Leads(part, FALSE, ActiveTerminal, ActiveTerminal)
    BY <1>0, <2>5, <2>6, TextLeads
  <2> QED BY <2>1, <2>2, <2>4, <2>5, <2>7
<1>3. ASSUME NEW length \in Nat, WriteNoCheck(Text(ActiveTerminal, length)),
             UNCHANGED ActiveTerminal, pc = "idle"
      PROVE  /\ pc = "idle" /\ rest' \in Seq(Byte)
             /\ Leads(rest', FALSE, ActiveTerminal, ActiveTerminal')
  BY <1>0, <1>1, <1>3 DEF WriteNoCheck
<1>4. ASSUME NEW t \in Terminals, SetTerminal(t)
      PROVE  /\ pc = "idle" /\ rest' \in Seq(Byte)
             /\ Leads(rest', FALSE, ActiveTerminal, ActiveTerminal')
  <2>1. \/ pc = "idle" /\ rest' = Switch(t) /\ ActiveTerminal' = t
    BY <1>4 DEF SetTerminal, Calling, WriteNoCheck, WriteBlocking
  <2> QED BY <2>1, SwitchBytes, SwitchLeads
<1>5. ASSUME NEW t \in Terminals, NEW length \in Lengths, TerminalOut(t, length)
      PROVE  /\ pc = "idle" /\ rest' \in Seq(Byte)
             /\ Leads(rest', FALSE, ActiveTerminal, ActiveTerminal')
  <2>1. /\ length \in Nat /\ ActiveTerminal' = ActiveTerminal /\ pc = "idle"
        /\ Avail \in Nat
    BY <1>0, <1>5, RoomAndUse, RttAssumption DEF TerminalOut, Calling, IInv, Offsets
  <2>2. PICK k \in Nat : rest' = Switch(t) \o Text(t, k) \o Switch(ActiveTerminal)
    <3>1. CASE Flags = "trim" /\ Avail >= Switches
      <4>1. Min2(length, Avail - Switches) \in Nat
        BY <2>1, <3>1 DEF Min2, Switches
      <4> QED BY <1>5, <3>1, <4>1 DEF TerminalOut, WriteBlocking
    <3>2. CASE ~(Flags = "trim" /\ Avail >= Switches)
      BY <1>5, <2>1, <3>2 DEF TerminalOut, WriteBlocking
    <3> QED BY <3>1, <3>2
  <2> DEFINE one == Switch(t) \o Text(t, k)
  <2>3. Switch(t) \in Seq(Byte) /\ Text(t, k) \in Seq(Byte) /\ Switch(ActiveTerminal) \in Seq(Byte)
    BY <1>0, <1>1, SwitchBytes
  <2>4. one \in Seq(Byte) /\ Leads(one, FALSE, ActiveTerminal, t)
    BY <1>1, <2>3, JoinBytes, SwitchLeads, LeadsOn
  <2> HIDE DEF one
  <2>5. Leads(one \o Switch(ActiveTerminal), FALSE, ActiveTerminal, ActiveTerminal)
    BY <1>0, <2>3, <2>4, SwitchLeads, LeadsOn
  <2> QED BY <2>1, <2>2, <2>3, <2>4, <2>5, JoinBytes DEF one
<1>6. CASE Type
  BY <1>0, <1>3, <1>6 DEF Type, Calling
<1>7. CASE PutChar \/ \E length \in Lengths : WriteSkip(length)
  BY <1>0, <1>3, <1>7 DEF PutChar, WriteSkip, Calling
<1>8. CASE \E mode \in Modes : SetFlags(mode)
  BY <1>8 DEF SetFlags, filling
<1> QED BY <1>2, <1>4, <1>5, <1>6, <1>7, <1>8 DEF Calls

(* What the viewer has yet to see changes by a call, which adds to it, and *)
(* by a fetch, which takes its first byte; the steps in between only move  *)
(* bytes from the call to the ring.                                        *)
ToSee == Stream \o rest

LEMMA ToSeeMoves ==
  ASSUME Both, Room \/ Copy \/ Post \/ Probe \/ (\E size \in Lengths : Read(size)) \/ Store
               \/ UNCHANGED vars
  PROVE  ToSee' = ToSee
<1>1. StreamFacts /\ StreamFacts' /\ rest \in Seq(Byte) /\ rest' \in Seq(Byte)
  BY StreamIs, StreamWillBe DEF Both, Bytes
<1>2. Stream \in Seq(Byte) /\ Stream' \in Seq(Byte) /\ Len(Stream) \in Nat /\ Len(rest) \in Nat
  BY <1>1 DEF StreamFacts
<1>3. Len(Stream') >= Len(Stream) /\ (rest = <<>> => rest' = <<>>)
  <2>1. CASE Post
    <3>1. n \in Nat /\ n <= Avail
      BY <2>1 DEF Both, IInv, Call, Post
    <3>2. Used' = Used + n /\ taken' = taken
      BY <2>1, <3>1, WriteMoves DEF Both, IInv, Post
    <3>3. Used \in Nat /\ taken \in Nat
      BY RoomAndUse, RttAssumption DEF Both, IInv, Offsets
    <3>4. rest' = SubSeq(rest, n + 1, Len(rest))
      BY <2>1 DEF Post
    <3>5. rest = <<>> => rest' = <<>>
      BY <3>1, <3>4
    <3> QED BY <1>1, <3>1, <3>2, <3>3, <3>5 DEF StreamFacts
  <2>2. CASE Store
    <3>1. /\ want \in Nat /\ want <= Used /\ taken = want /\ taken' = 0 /\ rest' = rest
          /\ WrOff' = WrOff /\ RdOff' = Wrap(RdOff + want)
      BY <2>2 DEF Both, IInv, Offsets, Store, Emptying, filling
    <3>2. Used' = Used - want
      BY <3>1, ReadMoves DEF Both, IInv
    <3>3. Used \in Nat
      BY RoomAndUse, RttAssumption DEF Both, IInv, Offsets
    <3> QED BY <1>1, <3>1, <3>2, <3>3 DEF StreamFacts
  <2>3. CASE Room \/ Copy \/ Probe \/ (\E size \in Lengths : Read(size)) \/ UNCHANGED vars
    <3>1. UNCHANGED <<WrOff, RdOff, taken, rest>>
      BY <2>3 DEF Room, Copy, Probe, Read, Emptying, filling, offsets, vars
    <3>2. Used' - taken' = Used - taken
      BY <3>1 DEF Used
    <3> QED BY <1>1, <1>2, <3>1, <3>2 DEF StreamFacts
  <2> QED BY <2>1, <2>2, <2>3
<1>4. Streamed
  BY StreamStep DEF Both, Next
<1>5. CASE UNCHANGED <<rest, Stream>>
  BY <1>5 DEF ToSee
<1>6. CASE B!Call(rest')
  BY <1>3, <1>6 DEF B!Call, ToSee
<1>7. ASSUME NEW k \in 1 .. Len(rest), B!Send(k) PROVE ToSee' = ToSee
  <2> DEFINE sent == SubSeq(rest, 1, k)
             left == SubSeq(rest, k + 1, Len(rest))
  <2>1. Stream' = Stream \o sent /\ rest' = left
    BY <1>7 DEF B!Send
  <2>2. sent \in Seq(Byte) /\ left \in Seq(Byte)
    BY <1>1, <1>2
  <2>3. sent \o left = rest
    <3>1. /\ Len(sent) = k /\ Len(left) = Len(rest) - k
          /\ \A i \in 1 .. k : sent[i] = rest[i]
          /\ \A i \in 1 .. Len(rest) - k : left[i] = rest[k + i]
      BY <1>1, <1>2
    <3> HIDE DEF sent, left
    <3>2. /\ sent \o left \in Seq(Byte) /\ Len(sent \o left) = Len(rest)
          /\ \A i \in 1 .. Len(rest) :
               (sent \o left)[i] = IF i <= k THEN sent[i] ELSE left[i - k]
      <4>1. k \in Nat /\ k + (Len(rest) - k) = Len(rest)
        BY <1>2
      <4>2. /\ sent \o left \in Seq(Byte) /\ Len(sent \o left) = Len(sent) + Len(left)
            /\ \A i \in 1 .. Len(sent) + Len(left) :
                 (sent \o left)[i] = IF i <= Len(sent) THEN sent[i] ELSE left[i - Len(sent)]
        BY <2>2, ConcatProperties
      <4>3. Len(sent) + Len(left) = Len(rest)
        BY <3>1, <4>1
      <4>4. \A i \in 1 .. Len(rest) :
              (sent \o left)[i] = IF i <= Len(sent) THEN sent[i] ELSE left[i - Len(sent)]
        BY <4>2, <4>3
      <4>5. Len(sent) = k
        BY <3>1
      <4> QED BY <4>2, <4>3, <4>4, <4>5
    <3>3. ASSUME NEW i \in 1 .. Len(rest) PROVE (sent \o left)[i] = rest[i]
      <4>1. CASE i <= k
        <5>1. i \in 1 .. k
          BY <4>1
        <5> QED BY <3>1, <3>2, <4>1, <5>1
      <4>2. CASE i > k
        <5>1. i - k \in 1 .. Len(rest) - k /\ k + (i - k) = i /\ ~(i <= k)
          BY <1>2, <4>2
        <5>2. left[i - k] = rest[i]
          BY <3>1, <5>1
        <5> QED BY <3>2, <5>1, <5>2
      <4>3. i <= k \/ i > k
        BY <1>2
      <4> QED BY <4>1, <4>2, <4>3
    <3> QED BY <1>1, <3>2, <3>3, SeqEqual
  <2> HIDE DEF sent, left
  <2>4. (Stream \o sent) \o left = Stream \o (sent \o left)
    <3>1. Stream \in Seq(Byte) /\ sent \in Seq(Byte) /\ left \in Seq(Byte)
      BY <1>2, <2>2
    <3> HIDE DEF Stream
    <3> QED BY <3>1, ConcatAssociative, SMTT(30)
  <2> QED BY <2>1, <2>3, <2>4 DEF ToSee
<1>8. ASSUME NEW k \in 1 .. Len(Stream), B!Take(k) PROVE FALSE
  <2>1. Stream' = SubSeq(Stream, k + 1, Len(Stream))
    BY <1>8 DEF B!Take
  <2>2. Len(Stream') = Len(Stream) - k
    BY <1>2, <2>1
  <2> QED BY <1>2, <1>3, <2>2
<1> QED BY <1>4, <1>5, <1>6, <1>7, <1>8 DEF Streamed, B!Next

(* The byte that is fetched is the first.                                  *)
LEMMA ToSeeFetch ==
  ASSUME Both, Fetch
  PROVE  /\ ToSee \in Seq(Byte) /\ ToSee # <<>> /\ ToSee[1] = mem[Wrap(RdOff + taken)]
         /\ ToSee' \in Seq(Byte) /\ Len(ToSee') = Len(ToSee) - 1
         /\ \A i \in 1 .. Len(ToSee) - 1 : ToSee'[i] = ToSee[i + 1]
<1>1. StreamFacts /\ StreamFacts' /\ rest \in Seq(Byte)
  BY StreamIs, StreamWillBe DEF Both, Bytes
<1>2. taken' = taken + 1 /\ UNCHANGED <<rest, RdOff, WrOff>> /\ taken < want
  BY DEF Fetch, Emptying, filling
<1>3. Used' = Used
  BY <1>2 DEF Used
<1>4. /\ Stream \in Seq(Byte) /\ Stream' \in Seq(Byte) /\ Len(Stream) \in Nat \ {0}
      /\ Len(Stream') = Len(Stream) - 1 /\ RdOff \in Nat /\ taken \in Nat
  BY <1>1, <1>2, <1>3, RoomAndUse, RttAssumption DEF StreamFacts, Both, IInv, Offsets
<1>5. Stream[1] = mem[Wrap(RdOff + taken)]
  <2>1. 1 \in 1 .. Used - taken /\ RdOff + taken + 1 - 1 = RdOff + taken
    BY <1>1, <1>4 DEF StreamFacts
  <2> QED BY <1>1, <2>1 DEF StreamFacts
<1>6. Streamed
  BY StreamStep DEF Both, Next
<1>7. PICK k \in 1 .. Len(Stream) : B!Take(k)
  <2>1. ~(Stream' = Stream)
    BY <1>4
  <2>2. ASSUME NEW k \in 1 .. Len(rest), B!Send(k) PROVE FALSE
    <3>1. SubSeq(rest, 1, k) \in Seq(Byte) /\ Len(SubSeq(rest, 1, k)) = k
      BY <1>1
    <3>2. Len(Stream') = Len(Stream) + k
      BY <1>4, <2>2, <3>1, ConcatProperties DEF B!Send
    <3> QED BY <1>1, <1>4, <3>2
  <2> QED BY <1>6, <2>1, <2>2 DEF Streamed, B!Next, B!Call
<1>8. k = 1 /\ Stream' = SubSeq(Stream, 2, Len(Stream))
  <2>1. Stream' = SubSeq(Stream, k + 1, Len(Stream))
    BY <1>7 DEF B!Take
  <2>2. Len(Stream') = Len(Stream) - k
    <3>1. Stream \in Seq(Byte) /\ Len(Stream) \in Nat
      BY <1>4
    <3> QED BY <2>1, <3>1
  <2>3. k = 1
    BY <1>4, <2>2
  <2> QED BY <2>1, <2>3
<1>9. \A i \in 1 .. Len(Stream) - 1 : Stream'[i] = Stream[i + 1]
  BY <1>4, <1>8, SubSeqProperties
<1>10. /\ ToSee \in Seq(Byte) /\ Len(ToSee) = Len(Stream) + Len(rest)
       /\ \A i \in 1 .. Len(Stream) + Len(rest) :
            ToSee[i] = IF i <= Len(Stream) THEN Stream[i] ELSE rest[i - Len(Stream)]
  BY <1>1, <1>4, ConcatProperties DEF ToSee
<1>11. /\ ToSee' \in Seq(Byte) /\ Len(ToSee') = Len(Stream') + Len(rest)
       /\ \A i \in 1 .. Len(Stream') + Len(rest) :
            ToSee'[i] = IF i <= Len(Stream') THEN Stream'[i] ELSE rest[i - Len(Stream')]
  BY <1>1, <1>2, <1>4, ConcatProperties DEF ToSee
<1>12. Len(rest) \in Nat
  BY <1>1
<1>13. ToSee # <<>> /\ ToSee[1] = Stream[1]
  BY <1>4, <1>10, <1>12
<1>14. ASSUME NEW i \in 1 .. Len(ToSee) - 1 PROVE ToSee'[i] = ToSee[i + 1]
  <2>1. i \in 1 .. Len(Stream') + Len(rest) /\ i + 1 \in 1 .. Len(Stream) + Len(rest)
    BY <1>4, <1>10, <1>12
  <2>2. CASE i <= Len(Stream')
    <3>1. i \in 1 .. Len(Stream) - 1 /\ i + 1 <= Len(Stream)
      BY <1>4, <2>2
    <3> QED BY <1>9, <1>10, <1>11, <2>1, <2>2, <3>1
  <2>3. CASE ~(i <= Len(Stream'))
    <3>1. i - Len(Stream') = (i + 1) - Len(Stream) /\ ~(i + 1 <= Len(Stream))
      BY <1>4, <2>3
    <3> QED BY <1>10, <1>11, <2>1, <2>3, <3>1
  <2> QED BY <2>2, <2>3
<1>15. Len(ToSee') = Len(ToSee) - 1
  <2>1. Len(ToSee) = Len(Stream) + Len(rest) /\ Len(ToSee') = Len(Stream') + Len(rest)
    BY <1>10, <1>11
  <2> QED BY <1>4, <1>12, <2>1
<1>16. ToSee[1] = mem[Wrap(RdOff + taken)]
  BY <1>5, <1>13
<1>17. ToSee \in Seq(Byte) /\ ToSee' \in Seq(Byte)
  BY <1>10, <1>11
<1> QED BY <1>13, <1>14, <1>15, <1>16, <1>17

(* Every step keeps what is to be seen in its place.                       *)
PlacedInv == Placed /\ escaped \in BOOLEAN

LEMMA PlacedStep ==
  ASSUME Both, PlacedInv, [Next]_vars
  PROVE  PlacedInv'
<1>0. Stream \in Seq(Byte) /\ rest \in Seq(Byte) /\ rest' \in Seq(Byte)
  BY StreamIs DEF Both, Bytes, StreamFacts
<1>1. CASE Calls
  <2>1. UNCHANGED <<chan, Stream, escaped, shown, misplaced>>
    <3>1. UNCHANGED <<chan, mem, WrOff, RdOff, taken, viewer>>
      BY <1>1 DEF Calls, Write, WriteSkip, PutChar, Type, SetTerminal, TerminalOut, SetFlags,
                  Calling, Fixed, offsets
    <3> QED BY <3>1 DEF Stream, Used, viewer
  <2>2. chan' = "down" => ActiveTerminal' = 0
    BY <1>1, <2>1 DEF PlacedInv, Placed, Calls, Write, WriteSkip, PutChar, Type, SetTerminal,
                      TerminalOut, SetFlags, Calling
  <2>3. CASE UNCHANGED <<rest, ActiveTerminal>>
    BY <2>1, <2>2, <2>3 DEF PlacedInv, Placed
  <2>4. CASE pc = "idle" /\ Leads(rest', FALSE, ActiveTerminal, ActiveTerminal')
    <3>1. rest = <<>>
      <4>1. Len(rest) = 0
        BY <2>4 DEF Both, IInv, Call, Bytes, Total, Piece
      <4> QED BY <1>0, <4>1, EmptySeq
    <3>2. Leads(Stream, escaped, shown, ActiveTerminal)
      BY <1>0, <3>1, ConcatEmptySeq DEF PlacedInv, Placed
    <3>3. Leads(Stream \o rest', escaped, shown, ActiveTerminal')
      BY <1>0, <2>4, <3>2, LeadsOn DEF PlacedInv
    <3> QED BY <2>1, <2>2, <3>3 DEF PlacedInv, Placed
  <2> QED BY <1>1, <2>3, <2>4, CallLeads DEF Both, PlacedInv, Placed
<1>2. CASE Room \/ Copy \/ Post \/ Probe \/ (\E size \in Lengths : Read(size)) \/ Store
           \/ UNCHANGED vars
  <2>1. UNCHANGED <<chan, ActiveTerminal, escaped, shown, misplaced>>
    BY <1>2 DEF Room, Copy, Post, Probe, Read, Store, Emptying, viewer, vars
  <2>2. ToSee' = ToSee
    BY <1>2, ToSeeMoves
  <2> QED BY <2>1, <2>2 DEF PlacedInv, Placed, ToSee
<1>3. CASE Fetch
  <2> DEFINE b == mem[Wrap(RdOff + taken)]
  <2>1. /\ escaped' = (b.kind = "FF") /\ shown' = (IF escaped THEN b.term ELSE shown)
        /\ misplaced' = (misplaced \/ (b.kind = "text" /\ (escaped \/ b.term # shown)))
        /\ UNCHANGED <<chan, ActiveTerminal>>
    BY <1>3 DEF Fetch, Emptying
  <2>2. /\ ToSee \in Seq(Byte) /\ ToSee # <<>> /\ ToSee[1] = b
        /\ ToSee' \in Seq(Byte) /\ Len(ToSee') = Len(ToSee) - 1
        /\ \A i \in 1 .. Len(ToSee) - 1 : ToSee'[i] = ToSee[i + 1]
    BY <1>3, ToSeeFetch
  <2>3. Leads(ToSee, escaped, shown, ActiveTerminal)
    BY DEF PlacedInv, Placed, ToSee
  <2> HIDE DEF b
  <2>4. /\ Leads(ToSee', b.kind = "FF", IF escaped THEN b.term ELSE shown, ActiveTerminal)
        /\ b.kind = "text" => ~escaped /\ b.term = shown
    BY <2>2, <2>3, LeadsFurther DEF PlacedInv
  <2>5. Leads(ToSee', escaped', shown', ActiveTerminal')
    BY <2>1, <2>4
  <2>6. ~misplaced'
    BY <2>1, <2>4 DEF PlacedInv, Placed
  <2> QED BY <2>1, <2>5, <2>6 DEF PlacedInv, Placed, ToSee
<1> QED BY <1>1, <1>2, <1>3 DEF Next

(* The viewer shows each text on the terminal it was written to, for every *)
(* size of the ring, whatever is dropped or trimmed and however the probe  *)
(* reads.                                                                  *)
THEOREM TextsOnTheirTerminals == Spec => []OnItsTerminal
<1>1. Init => PlacedInv
  <2> SUFFICES ASSUME Init PROVE PlacedInv
    OBVIOUS
  <2>1. Stream = <<>> /\ rest = <<>>
    BY BytesInit DEF B!Init
  <2>2. Stream \o rest = <<>>
    BY <2>1
  <2>3. Leads(<<>>, FALSE, 0, 0)
    BY DEF Leads
  <2> QED BY <2>2, <2>3 DEF Init, PlacedInv, Placed
<1>2. IInv /\ Bytes /\ IInv' /\ PlacedInv /\ [Next]_vars => PlacedInv'
  BY BytesStep, PlacedStep DEF Both
<1>3. PlacedInv => OnItsTerminal
  BY DEF PlacedInv, Placed, OnItsTerminal
<1> QED BY <1>1, <1>2, <1>3, BytesInit, BytesStep, Invariance, PTL DEF Spec
=============================================================================
