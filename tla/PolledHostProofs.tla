-------------------------- MODULE PolledHostProofs --------------------------
(***************************************************************************)
(* What the chips, the air and the passage of time preserve, for every     *)
(* pair of polling hosts and every value of the constants: the invariant   *)
(* HostChip, which ties the point a host is at to what its chip may be     *)
(* doing and which flags are up, and the types of the variables. The       *)
(* proofs of the examples add what their own actions do.                   *)
(***************************************************************************)
EXTENDS PolledHost, TLAPS

(* The part of the types the argument needs.                               *)
Shape ==
  /\ mode   \in [Node -> Modes]
  /\ w4r    \in [Node -> BOOLEAN]
  /\ status \in [Node -> SUBSET Flags]
  /\ pc     \in [Node -> Points]
  /\ \A m \in air : m.to \in Node

(* No event of a reception is pending ...                                  *)
NoRxFlag(n) == status[n] \cap RxMask = {}

(* ... or exactly one is, since the first one ends the reception.          *)
OneRxFlag(n) == \E f \in RxMask : status[n] \cap RxMask = {f}

(* A wait for a frame: the chip works towards the reception and no event   *)
(* is up, or it has finished and exactly one is.                           *)
RxWait(n) == /\ mode[n] # "idle" => NoRxFlag(n)
             /\ mode[n] = "idle" => OneRxFlag(n)
             /\ mode[n] = "tx" => w4r[n]

(* A wait for the end of a transmission.                                   *)
TxWait(n) == /\ mode[n] \in {"tx", "idle"}
             /\ NoRxFlag(n)
             /\ mode[n] = "tx" => ~w4r[n] /\ "TXFRS" \notin status[n]
             /\ mode[n] = "idle" => "TXFRS" \in status[n]

Asleep(n) == mode[n] = "idle" /\ NoRxFlag(n)

(* A wait that does not await timeouts may only be one without a timeout.  *)
Untimed(n) == rxTo[n] = 0 /\ "RXTO" \notin status[n]

(* The points of loops that never wait for the end of a transmission that  *)
(* expects a response, and never stop.                                     *)
PlainPoints == Points \ {"waitPoll", "waitRepTx", "stopped"}

Phase(n) ==
  /\ pc[n] \in PlainPoints
  /\ pc[n] = "sleep" => Asleep(n)
  /\ pc[n] = "waitTx" => TxWait(n)
  /\ pc[n] \notin {"sleep", "waitTx"} => RxWait(n)
  /\ pc[n] \in {"listen", "waitData"} => mode[n] \in {"rx", "idle"}
  /\ pc[n] = "waitData" => Untimed(n)

HostChip == Shape /\ \A n \in Node : Phase(n)
-----------------------------------------------------------------------------
(* Nothing the hardware or the air does by itself breaks the invariant.    *)
LEMMA HostChipRadio ==
  ASSUME NEW K, HostChip, Hardware \/ Interference(K), UNCHANGED pollVars
  PROVE  HostChip'
  <1> USE DEF HostChip, Shape, Phase, Asleep, RxWait, TxWait, NoRxFlag,
              OneRxFlag, Untimed, RxMask, Flags, Modes, Node, pollVars
  <1>1. ASSUME NEW n \in Node, Transmit(n) PROVE HostChip'
    BY <1>1 DEF Transmit, Peer
  <1>2. ASSUME NEW n \in Node, OpenRx(n) PROVE HostChip'
    BY <1>2 DEF OpenRx
  <1>3. ASSUME NEW n \in Node, RxTimeout(n) PROVE HostChip'
    BY <1>3 DEF RxTimeout, EndRx
  <1>4. ASSUME NEW m \in air, Receive(m) PROVE HostChip'
    BY <1>4 DEF Receive, EndRx
  <1>5. ASSUME NEW m \in air, Miss(m) PROVE HostChip'
    BY <1>5 DEF Miss, chipVars
  <1>6. ASSUME NEW m \in air, Corrupt(m) PROVE HostChip'
    BY <1>6 DEF Corrupt, EndRx
  <1>7. ASSUME NEW n \in Node, NEW k \in K, Interfere(n, k)
        PROVE HostChip'
    BY <1>7 DEF Interfere, EndRx
  <1>8. QED
    BY <1>1, <1>2, <1>3, <1>4, <1>5, <1>6, <1>7
       DEF Hardware, Interference

(* The passage of time leaves flags and modes alone.                       *)
LEMMA HostChipTick ==
  ASSUME HostChip, LinkTick, UNCHANGED pc
  PROVE  HostChip'
  BY DEF HostChip, Shape, Phase, Asleep, RxWait, TxWait, NoRxFlag, OneRxFlag,
         Untimed, LinkTick, Nearer

(* A step that changes nothing keeps the invariant.                        *)
LEMMA HostChipStutter ==
  ASSUME HostChip, UNCHANGED linkVars, UNCHANGED pc
  PROVE  HostChip'
  BY DEF HostChip, Shape, Phase, Asleep, RxWait, TxWait, NoRxFlag, OneRxFlag,
         Untimed, linkVars, chipVars

(* With both hosts at the top of their loops and both chips idle it holds. *)
LEMMA HostChipStart ==
  ASSUME NEW S, LinkInit(S), HostInit
  PROVE  HostChip
  BY DEF HostInit, LinkInit, HostChip, Shape, Phase, Asleep, NoRxFlag, RxMask,
         Flags, Modes, Node, Points, PlainPoints

(* What the invariant is for: while a host waits its chip is at work and   *)
(* no awaited flag is up, or the chip is idle and one is.                  *)
LEMMA HostChipWaits == HostChip => WaitWillEnd /\ NoStaleEvent
  <1> SUFFICES ASSUME HostChip PROVE WaitWillEnd /\ NoStaleEvent
    OBVIOUS
  <1> SUFFICES ASSUME NEW n \in Node, Waiting(n)
               PROVE  /\ mode[n] # "idle" \/ Noticed(n)
                      /\ Pending(n) => ~Noticed(n)
    BY DEF WaitWillEnd, NoStaleEvent
  <1>1. Phase(n) /\ status[n] \subseteq Flags
    BY DEF HostChip, Shape
  <1> USE DEF Phase, Waiting, Noticed, Awaited, Pending, RxMask, Flags,
              Points, PlainPoints, TxPoints, DataPoints, RespPoints
  <1>2. CASE pc[n] = "waitTx"
    BY <1>1, <1>2 DEF TxWait
  <1>3. CASE pc[n] = "waitData"
    BY <1>1, <1>3 DEF RxWait, NoRxFlag, OneRxFlag, Untimed
  <1>4. CASE pc[n] \notin {"waitTx", "waitData"}
    <2>1. pc[n] \in RespPoints
      BY <1>1, <1>4
    <2>2. Awaited(n) = RxMask /\ Pending(n) = (mode[n] # "idle")
      BY <2>1
    <2>3. QED
      BY <1>1, <2>1, <2>2 DEF RxWait, NoRxFlag, OneRxFlag
  <1>5. QED
    BY <1>2, <1>3, <1>4
-----------------------------------------------------------------------------
(* Any number reduced to a timestamp, or to its copy in a frame, is one.   *)
LEMMA TimeTypes ==
  ASSUME NEW t \in Int
  PROVE  /\ t % TSMOD \in Timestamps
         /\ MsgTs(t) \in 0 .. LOMOD - 1
  BY TimeAssumption DEF Timestamps, MsgTs

(* The delayed transmission time and the timestamp predicted from it are   *)
(* numbers, reduced only by the chip and by the copies in frames.          *)
LEMMA DelayedTypes ==
  ASSUME NEW t \in Timestamps, NEW d \in Nat
  PROVE  DelayedTxTime(t, d) \in Int /\ DelayedTxTs(t, d) \in Int
  BY TimeAssumption DEF DelayedTxTime, DelayedTxTs, Timestamps

(* The wait until a delayed transmission is a number of ticks.             *)
LEMMA TicksType ==
  ASSUME NEW F, LinkTypeOK(F), NEW n \in Node, NEW t \in Int
  PROVE  TicksTo(n, t) + TX_ANT_DLY \in Nat
  <1>1. clock[n] \in Int
    BY DEF LinkTypeOK, Timestamps
  <1>2. TicksTo(n, t) \in Timestamps
    BY <1>1, TimeTypes DEF TicksTo
  <1>3. QED
    BY <1>2, TimeAssumption DEF Timestamps

(* The set of frames of an example contains those the air produces.        *)
Carries(F) ==
  NoFrame \in F /\ \A k \in {"short", "long"} : Frame(k, <<>>) \in F

(* The initial states have the right types.                                *)
LEMMA TypesStart ==
  ASSUME NEW F, Carries(F), NEW S \in SUBSET Timestamps, LinkInit(S), HostInit,
         rxDly \in [Node -> Nat], rxTo \in [Node -> Nat]
  PROVE  LinkTypeOK(F) /\ HostTypeOK(F)
  <1>1. 0 \in Timestamps /\ 0 \in 0 .. MaxFaults /\ 0 \in 0 .. MaxLag
    BY TimeAssumption, LinkAssumption DEF Timestamps
  <1>2. clock \in [Node -> Timestamps]
    BY DEF LinkInit
  <1>3. QED
    BY <1>1, <1>2
       DEF Carries, LinkInit, HostInit, LinkTypeOK, HostTypeOK, Flags, RxMask,
           Modes, Points

(* The hardware and the air keep the types.                                *)
LEMMA LinkTypesRadio ==
  ASSUME NEW F, Carries(F), LinkTypeOK(F),
         NEW K \in SUBSET ForeignKinds, Hardware \/ Interference(K)
  PROVE  LinkTypeOK(F)'
  <1>n. 0 \in Nat /\ FLIGHT \in Nat
    BY LinkAssumption
  <1>l. faults \in Nat /\ (Fault => faults' \in 0 .. MaxFaults)
    BY LinkAssumption DEF LinkTypeOK, Fault
  <1> USE <1>n DEF Carries, LinkTypeOK, Node, Flags, RxMask, Modes
  <1>1. ASSUME NEW n \in Node, Transmit(n) PROVE LinkTypeOK(F)'
    <2>1. [to |-> Peer(n), left |-> FLIGHT, frame |-> txBuf[n]]
            \in [to : Node, left : Nat, frame : F]
      BY DEF Peer
    <2>2. air' \subseteq [to : Node, left : Nat, frame : F]
      BY <1>1, <2>1 DEF Transmit
    <2>3. QED
      BY <1>1, <2>2 DEF Transmit
  <1>2. ASSUME NEW n \in Node, OpenRx(n) PROVE LinkTypeOK(F)'
    BY <1>2 DEF OpenRx
  <1>3. ASSUME NEW n \in Node, RxTimeout(n) PROVE LinkTypeOK(F)'
    BY <1>3 DEF RxTimeout, EndRx
  <1>4. ASSUME NEW m \in air, Receive(m) PROVE LinkTypeOK(F)'
    <2>1. m \in [to : Node, left : Nat, frame : F]
      OBVIOUS
    <2>2. air' \subseteq [to : Node, left : Nat, frame : F]
      BY <1>4 DEF Receive
    <2>3. QED
      BY <1>4, <2>1, <2>2 DEF Receive, EndRx
  <1>5. ASSUME NEW m \in air, Miss(m) PROVE LinkTypeOK(F)'
    BY <1>5, <1>l DEF Miss, chipVars
  <1>6. ASSUME NEW m \in air, Corrupt(m) PROVE LinkTypeOK(F)'
    <2>1. m \in [to : Node, left : Nat, frame : F]
      OBVIOUS
    <2>2. air' \subseteq [to : Node, left : Nat, frame : F]
      BY <1>6 DEF Corrupt
    <2>3. QED
      BY <1>6, <1>l, <2>1, <2>2 DEF Corrupt, EndRx
  <1>7. ASSUME NEW n \in Node, NEW k \in K, Interfere(n, k)
        PROVE LinkTypeOK(F)'
    <2>1. k # "bad" => Frame(k, <<>>) \in F
      BY DEF ForeignKinds
    <2>2. QED
      BY <1>7, <1>l, <2>1 DEF Interfere, EndRx
  <1>8. QED
    BY <1>1, <1>2, <1>3, <1>4, <1>5, <1>6, <1>7
       DEF Hardware, Interference

(* The passage of time keeps the types of the chips: clocks wrap, and what *)
(* counts down stops at zero.                                              *)
LEMMA LinkTypesTick ==
  ASSUME NEW F, LinkTypeOK(F), LinkTick
  PROVE  LinkTypeOK(F)'
  <1> USE DEF LinkTypeOK, LinkTick
  <1>1. clock' \in [Node -> Timestamps]
    <2>1. ASSUME NEW n \in Node PROVE (clock[n] + 1) % TSMOD \in Timestamps
      <3>1. clock[n] + 1 \in Int
        BY DEF Timestamps
      <3>2. QED
        BY <3>1, TimeTypes
    <2>2. QED
      BY <2>1
  <1>2. left' \in [Node -> Nat]
    <2>1. ASSUME NEW n \in Node
          PROVE (IF CountsDown(n) THEN left[n] - 1 ELSE left[n]) \in Nat
      OBVIOUS
    <2>2. QED
      BY <2>1
  <1>3. air' \subseteq [to : Node, left : Nat, frame : F]
    <2>1. ASSUME NEW m \in air
          PROVE  Nearer(m) \in [to : Node, left : Nat, frame : F]
      <3>1. m \in [to : Node, left : Nat, frame : F] /\ m.left > 0
        OBVIOUS
      <3>2. m.to \in Node /\ m.left - 1 \in Nat /\ m.frame \in F
        BY <3>1
      <3>3. QED
        BY <3>2 DEF Nearer
    <2>2. air' = {Nearer(m) : m \in air}
      OBVIOUS
    <2>3. QED
      BY <2>1, <2>2
  <1>4. QED
    BY <1>1, <1>2, <1>3

(* The passage of time keeps the types of the hosts: a host that is due    *)
(* acts before it is later than MaxLag.                                    *)
LEMMA HostTypesTick ==
  ASSUME NEW F, NEW STATE due, HostTypeOK(F), HostTick(due)
  PROVE  HostTypeOK(F)'
  <1>1. nap' \in [Node -> Nat]
    <2>1. ASSUME NEW n \in Node
          PROVE (IF nap[n] > 0 THEN nap[n] - 1 ELSE 0) \in Nat
      BY DEF HostTypeOK
    <2>2. QED
      BY <2>1 DEF HostTick
  <1>2. lag' \in [Node -> 0 .. MaxLag]
    <2>1. ASSUME NEW n \in Node
          PROVE (IF n \in due THEN lag[n] + 1 ELSE 0) \in 0 .. MaxLag
      BY LinkAssumption DEF HostTypeOK, HostTick
    <2>2. QED
      BY <2>1 DEF HostTick
  <1>3. QED
    BY <1>1, <1>2 DEF HostTypeOK, HostTick

(* The clocks, timestamps and countdowns are numbers.                      *)
LEMMA LinkNumbers ==
  ASSUME NEW F, LinkTypeOK(F), HostTypeOK(F)
  PROVE  /\ \A n \in Node : /\ clock[n] \in Int /\ left[n] \in Nat /\ txTs[n] \in Int
                            /\ rxTs[n] \in Int /\ lag[n] \in Nat /\ nap[n] \in Nat
                            /\ clock[n] \in Timestamps /\ rxTs[n] \in Timestamps
         /\ \A m \in air : m.left \in Nat /\ m.to \in Node
  <1>1. /\ clock \in [Node -> Timestamps] /\ left \in [Node -> Nat]
        /\ txTs \in [Node -> Timestamps] /\ rxTs \in [Node -> Timestamps]
        /\ lag \in [Node -> 0 .. MaxLag] /\ nap \in [Node -> Nat]
        /\ air \subseteq [to : Node, left : Nat, frame : F]
    BY DEF LinkTypeOK, HostTypeOK
  <1>2. \A t \in Timestamps : t \in Int
    BY DEF Timestamps
  <1>3. \A l \in 0 .. MaxLag : l \in Nat
    BY LinkAssumption
  <1>4. \A n \in Node : /\ clock[n] \in Timestamps /\ rxTs[n] \in Timestamps
                        /\ txTs[n] \in Timestamps /\ lag[n] \in 0 .. MaxLag
                        /\ left[n] \in Nat /\ nap[n] \in Nat
    BY ONLY <1>1
  <1>5. \A m \in air : m.left \in Nat /\ m.to \in Node
    BY ONLY <1>1
  <1> QED BY ONLY <1>2, <1>3, <1>4, <1>5
-----------------------------------------------------------------------------
(* Two times that the 32-bit copies do not tell apart.                     *)
SameLo(s, t) == (s - t) % LOMOD = 0

(* They differ by a multiple of the range of the copies.                   *)
LEMMA SameLoTimes ==
  ASSUME NEW s \in Int, NEW t \in Int
  PROVE  SameLo(s, t) <=> \E k \in Int : s = t + k * LOMOD
  <1>0. LOMOD \in Nat /\ LOMOD > 0
    BY TimeAssumption
  <1>1. ASSUME SameLo(s, t) PROVE \E k \in Int : s = t + k * LOMOD
    <2> DEFINE k == (s - t) \div LOMOD
    <2>1. k \in Int
      BY <1>0
    <2>2. s - t = k * LOMOD
      BY <1>0, <1>1 DEF SameLo
    <2> HIDE DEF k
    <2>3. s = t + k * LOMOD
      BY <1>0, <2>1, <2>2
    <2> QED BY <2>1, <2>3
  <1>2. ASSUME NEW k \in Int, s = t + k * LOMOD PROVE SameLo(s, t)
    <2>1. s - t = LOMOD * k
      BY <1>0, <1>2
    <2>2. (LOMOD * k) % LOMOD = 0
      BY <1>0
    <2> QED BY <2>1, <2>2 DEF SameLo
  <1> QED BY <1>1, <1>2

(* It is an equivalence that sums, differences and both kinds of rounding  *)
(* respect.                                                                *)
LEMMA SameLoEquivalence ==
  ASSUME NEW s \in Int, NEW t \in Int, NEW u \in Int
  PROVE  /\ SameLo(s, s)
         /\ SameLo(s, t) => SameLo(t, s)
         /\ SameLo(s, t) /\ SameLo(t, u) => SameLo(s, u)
  <1>0. LOMOD \in Nat /\ LOMOD > 0
    BY TimeAssumption
  <1>1. SameLo(s, s)
    BY <1>0 DEF SameLo
  <1>2. ASSUME SameLo(s, t) PROVE SameLo(t, s)
    <2>1. PICK k \in Int : s = t + k * LOMOD
      BY <1>2, SameLoTimes
    <2>2. t = s + (-k) * LOMOD /\ -k \in Int
      BY <1>0, <2>1
    <2> QED BY <2>2, SameLoTimes
  <1>3. ASSUME SameLo(s, t), SameLo(t, u) PROVE SameLo(s, u)
    <2>1. PICK k \in Int : s = t + k * LOMOD
      BY <1>3, SameLoTimes
    <2>2. PICK l \in Int : t = u + l * LOMOD
      BY <1>3, SameLoTimes
    <2>3. s = u + (k + l) * LOMOD /\ k + l \in Int
      BY <1>0, <2>1, <2>2
    <2> QED BY <2>3, SameLoTimes
  <1> QED BY <1>1, <1>2, <1>3

LEMMA SameLoSums ==
  ASSUME NEW s \in Int, NEW t \in Int, NEW u \in Int, NEW v \in Int,
         SameLo(s, t), SameLo(u, v)
  PROVE  SameLo(s + u, t + v) /\ SameLo(s - u, t - v)
  <1>0. LOMOD \in Nat /\ LOMOD > 0
    BY TimeAssumption
  <1>1. PICK k \in Int : s = t + k * LOMOD
    BY SameLoTimes
  <1>2. PICK l \in Int : u = v + l * LOMOD
    BY SameLoTimes
  <1>3. s + u = t + v + (k + l) * LOMOD /\ s - u = t - v + (k - l) * LOMOD
    BY <1>0, <1>1, <1>2
  <1>4. k + l \in Int /\ k - l \in Int
    OBVIOUS
  <1> QED BY <1>3, <1>4, SameLoTimes

LEMMA SameLoRounded ==
  ASSUME NEW s \in Int
  PROVE  SameLo(s % LOMOD, s) /\ SameLo(s % TSMOD, s)
  <1>0. LOMOD \in Nat /\ LOMOD > 0 /\ TSMOD \in Nat /\ TSMOD > 0 /\ TSMOD % LOMOD = 0
    BY TimeAssumption
  <1> DEFINE k == s \div LOMOD
             j == s \div TSMOD
             q == TSMOD \div LOMOD
  <1>1. k \in Int /\ j \in Int /\ q \in Int
    BY <1>0
  <1>2. s = (s % LOMOD) + k * LOMOD
    BY <1>0
  <1>3. s = (s % TSMOD) + j * TSMOD
    BY <1>0
  <1>4. TSMOD = q * LOMOD
    BY <1>0
  <1>7. s % LOMOD \in Int /\ s % TSMOD \in Int
    BY <1>0
  <1> HIDE DEF k, j, q
  <1>5. s % LOMOD = s + (-k) * LOMOD
    BY <1>0, <1>1, <1>2, <1>7
  <1>6. s % TSMOD = s + (-(j * q)) * LOMOD
    <2>1. j * TSMOD = (j * q) * LOMOD
      BY <1>0, <1>1, <1>4
    <2>2. (-(j * q)) * LOMOD = -((j * q) * LOMOD)
      BY <1>0, <1>1
    <2> QED BY <1>0, <1>1, <1>3, <2>1, <2>2, <1>7
  <1>8. -k \in Int /\ -(j * q) \in Int
    BY <1>1
  <1> QED BY <1>5, <1>6, <1>7, <1>8, SameLoTimes

(* A number within the range of the copies is what a copy says.            *)
LEMMA SameLoExact ==
  ASSUME NEW s \in Int, NEW t \in 0 .. LOMOD - 1, SameLo(s, t)
  PROVE  s % LOMOD = t
  <1>0. LOMOD \in Nat /\ LOMOD > 0
    BY TimeAssumption
  <1>1. PICK k \in Int : s = t + k * LOMOD
    BY SameLoTimes
  <1>2. s = k * LOMOD + t
    BY <1>0, <1>1
  <1> QED BY <1>0, <1>2
(* The remainder of a number with its multiple of the range taken off.     *)
LEMMA Remainder ==
  ASSUME NEW M \in Nat \ {0}, NEW x \in 0 .. M - 1, NEW k \in Int
  PROVE  (k * M + x) % M = x
  OBVIOUS

LEMMA Division ==
  ASSUME NEW M \in Nat \ {0}, NEW a \in Int
  PROVE  /\ a \div M \in Int /\ a % M \in Int /\ 0 <= a % M /\ a % M < M
         /\ a = (a % M) + (a \div M) * M
  <1>1. a \div M \in Int /\ a % M \in Int /\ 0 <= a % M /\ a % M < M
    OBVIOUS
  <1>2. a = (a % M) + (a \div M) * M
    OBVIOUS
  <1> QED BY <1>1, <1>2

(* A host that asks for a delayed transmission "l" ticks after the         *)
(* timestamp it counts from, and is not told that it is too late, has it   *)
(* leave up to a quantum before the delay has passed since the timestamp.  *)
LEMMA DelayedSend ==
  ASSUME NEW n \in Node, NEW ts \in Timestamps, NEW d \in Nat, NEW l \in Nat,
         d < TSMOD, l + QUANTUM <= TSMOD \div 2,
         clock[n] = (ts + l) % TSMOD, ~TooLate(n, DelayedTxTime(ts, d))
  PROVE  \E r \in 0 .. QUANTUM - 1 :
           /\ l + r <= d
           /\ TicksTo(n, DelayedTxTime(ts, d)) = d - r - l
           /\ SameLo(DelayedTxTime(ts, d), ts + d - r)
  <1> DEFINE time == DelayedTxTime(ts, d)
             m == (ts + d) % TSMOD
             r == m % QUANTUM
             k == (ts + d) \div TSMOD
             j == (ts + l) \div TSMOD
  <1>0. TSMOD \in Nat \ {0} /\ QUANTUM \in Nat \ {0} /\ ts \in Nat
    BY TimeAssumption DEF Timestamps
  <1>a. ts + d \in Int /\ ts + l \in Int
    BY <1>0
  <1>1. k \in Int /\ ts + d = m + k * TSMOD
    BY <1>0, <1>a, Division
  <1>2. j \in Int /\ ts + l = ((ts + l) % TSMOD) + j * TSMOD
    BY <1>0, <1>a, Division
  <1>3. /\ m \in Int /\ r \in Int /\ 0 <= r /\ r < QUANTUM
        /\ clock[n] \in Int /\ clock[n] = (ts + l) % TSMOD
    BY <1>0, <1>a, Division
  <1>4. time = m - r
    BY DEF DelayedTxTime
  <1>b. time \in Int
    BY <1>3, <1>4
  <1> HIDE DEF time, m, r, k, j
  <1>5. SameLo(time, ts + d - r)
    <2>1. SameLo(m, ts + d) /\ SameLo(r, r)
      BY <1>0, <1>3, <1>a, SameLoRounded, SameLoEquivalence DEF m
    <2> DEFINE sum == ts + d
    <2>2. m \in Int /\ r \in Int /\ sum \in Int /\ SameLo(m, sum) /\ SameLo(r, r)
      BY <1>3, <1>a, <2>1
    <2> HIDE DEF sum
    <2>3. SameLo(m - r, sum - r)
      BY ONLY <2>2, SameLoSums
    <2>4. sum - r = ts + d - r
      BY <1>0, <1>3 DEF sum
    <2> QED BY ONLY <1>4, <2>3, <2>4
  <1>6. time - clock[n] = (j - k) * TSMOD + (d - r - l)
    <2>1. (j - k) * TSMOD = j * TSMOD - k * TSMOD
      BY <1>0, <1>1, <1>2
    <2>2. j * TSMOD \in Int /\ k * TSMOD \in Int
      BY <1>0, <1>1, <1>2
    <2> DEFINE x == k * TSMOD
               y == j * TSMOD
    <2>3. ts + d = m + x /\ ts + l = clock[n] + y
      BY <1>1, <1>2, <1>3
    <2>4. (j - k) * TSMOD = y - x /\ x \in Int /\ y \in Int
      BY <2>1, <2>2
    <2> HIDE DEF x, y
    <2>5. time - clock[n] = y - x + (d - r - l)
      BY <1>0, <1>3, <1>4, <2>3, <2>4
    <2> QED BY <2>4, <2>5
  <1>7. CASE l + r <= d
    <2>1. d - r - l \in 0 .. TSMOD - 1 /\ j - k \in Int
      BY <1>0, <1>1, <1>2, <1>3, <1>7
    <2>4. ((j - k) * TSMOD + (d - r - l)) % TSMOD = d - r - l
      BY <1>0, <2>1, Remainder
    <2>2. TicksTo(n, time) = d - r - l
      BY <1>6, <2>4 DEF TicksTo
    <2>3. r \in 0 .. QUANTUM - 1
      BY <1>0, <1>3
    <2> QED BY <1>5, <1>7, <2>2, <2>3 DEF time
  <1>8. CASE ~(l + r <= d)
    <2>1. TSMOD \div 2 \in Nat /\ TSMOD \div 2 <= TSMOD /\ TSMOD \div 2 + TSMOD \div 2 <= TSMOD
      BY <1>0
    <2>2. TSMOD + (d - r - l) \in 0 .. TSMOD - 1 /\ j - k - 1 \in Int
      BY <1>0, <1>1, <1>2, <1>3, <1>8, <2>1
    <2>3. (j - k) * TSMOD + (d - r - l) = (j - k - 1) * TSMOD + (TSMOD + (d - r - l))
      BY <1>0, <1>1, <1>2, <1>3
    <2>6. ((j - k - 1) * TSMOD + (TSMOD + (d - r - l))) % TSMOD = TSMOD + (d - r - l)
      BY <1>0, <2>2, Remainder
    <2>4. TicksTo(n, time) = TSMOD + (d - r - l)
      BY <1>6, <2>3, <2>6 DEF TicksTo
    <2>5. TSMOD + (d - r - l) >= TSMOD \div 2
      BY <1>0, <1>3, <1>8, <2>1
    <2> QED BY <2>4, <2>5 DEF TooLate, time
  <1> QED BY <1>7, <1>8

(* A time that lies "u" ticks ahead still does so after a tick.            *)
LEMMA SameLoTick ==
  ASSUME NEW c \in Int, NEW u \in Int, NEW t \in Int, NEW v \in Int,
         SameLo((c + u) - t, v)
  PROVE  SameLo((((c + 1) % TSMOD) + (u - 1)) - t, v)
  <1>0. LOMOD \in Nat \ {0} /\ TSMOD \in Nat \ {0} /\ c + 1 \in Int
    BY TimeAssumption
  <1> DEFINE d == (c + 1) % TSMOD
  <1>1. d \in Int /\ SameLo(d, c + 1)
    BY <1>0, Division, SameLoRounded
  <1> HIDE DEF d
  <1>2. PICK k \in Int : d = c + 1 + k * LOMOD
    BY <1>0, <1>1, SameLoTimes
  <1>3. PICK l \in Int : (c + u) - t = v + l * LOMOD
    BY SameLoTimes
  <1>4. (k + l) * LOMOD = k * LOMOD + l * LOMOD /\ k + l \in Int
        /\ k * LOMOD \in Int /\ l * LOMOD \in Int
    BY <1>0
  <1>5. (d + (u - 1)) - t = v + (k + l) * LOMOD /\ (d + (u - 1)) - t \in Int
    BY <1>1, <1>2, <1>3, <1>4
  <1>6. SameLo((d + (u - 1)) - t, v)
    BY <1>4, <1>5, SameLoTimes
  <1> QED BY <1>6 DEF d

(* Counting on from a time that has wrapped.                               *)
LEMMA AddedTick ==
  ASSUME NEW s \in Int
  PROVE  ((s % TSMOD) + 1) % TSMOD = (s + 1) % TSMOD
  <1> DEFINE M == TSMOD
             a == s % M
             k == s \div M
             b == (a + 1) % M
             j == (a + 1) \div M
  <1>0. M \in Nat \ {0}
    BY TimeAssumption
  <1> HIDE DEF M
  <1>1. a \in Int /\ k \in Int /\ s = a + k * M
    BY <1>0, Division
  <1>2. a + 1 \in Int
    BY <1>1
  <1>3. b \in 0 .. M - 1 /\ j \in Int /\ a + 1 = b + j * M
    BY <1>0, <1>2, Division
  <1> HIDE DEF a, b, k, j
  <1>4. s + 1 = (k + j) * M + b
    <2>1. (k + j) * M = k * M + j * M /\ k * M \in Int /\ j * M \in Int
      BY <1>0, <1>1, <1>3
    <2> QED BY <1>1, <1>3, <2>1
  <1>5. ((k + j) * M + b) % M = b
    <2>1. k + j \in Int
      BY <1>1, <1>3
    <2> QED BY <1>0, <1>3, <2>1, Remainder
  <1> QED BY <1>4, <1>5 DEF a, b, M

LEMMA CountedOn ==
  ASSUME NEW ts \in Int, NEW l \in Int, NEW c, c = (ts + l) % TSMOD
  PROVE  (c + 1) % TSMOD = (ts + (l + 1)) % TSMOD
  <1> DEFINE s == ts + l
  <1>1. s \in Int /\ c = s % TSMOD /\ s + 1 = ts + (l + 1)
    OBVIOUS
  <1> HIDE DEF s
  <1>2. ((s % TSMOD) + 1) % TSMOD = (s + 1) % TSMOD
    BY <1>1, AddedTick
  <1> QED BY <1>1, <1>2

(* A time "e" ticks later.                                                 *)
LEMMA SameLoLater ==
  ASSUME NEW c \in Int, NEW u \in Int, NEW t \in Int, NEW v \in Int, NEW e \in Int,
         SameLo((c + u) - t, v)
  PROVE  SameLo((c + (u + e)) - t, v + e)
  <1> DEFINE s == (c + u) - t
  <1>1. s \in Int /\ SameLo(s, v) /\ SameLo(e, e)
    BY SameLoEquivalence
  <1>2. s + e = (c + (u + e)) - t
    OBVIOUS
  <1> HIDE DEF s
  <1>3. SameLo(s + e, v + e)
    BY <1>1, SameLoSums
  <1> QED BY <1>2, <1>3

(* The copies in frames are as far apart as the timestamps.                *)
LEMMA CopiesDiffer ==
  ASSUME NEW r \in Int, NEW p \in Int, NEW t \in Int, SameLo(r - p, t)
  PROVE  SameLo(MsgTs(r) - MsgTs(p), t)
  <1> DEFINE a == r % LOMOD
             b == p % LOMOD
  <1>1. a \in Int /\ b \in Int /\ SameLo(a, r) /\ SameLo(b, p)
    BY TimeAssumption, Division, SameLoRounded
  <1> HIDE DEF a, b
  <1>2. SameLo(a - b, r - p)
    BY <1>1, SameLoSums
  <1>3. a - b \in Int /\ r - p \in Int
    BY <1>1
  <1>4. SameLo(a - b, t)
    BY <1>2, <1>3, SameLoEquivalence
  <1> QED BY <1>4 DEF a, b, MsgTs

LEMMA CopiesSubtract ==
  ASSUME NEW r \in Int, NEW p \in Int, NEW t \in 0 .. LOMOD - 1, SameLo(r - p, t)
  PROVE  Sub32(MsgTs(r), MsgTs(p)) = t
  <1> DEFINE d == MsgTs(r) - MsgTs(p)
  <1>1. t \in Int
    OBVIOUS
  <1>2. SameLo(d, t)
    BY <1>1, CopiesDiffer
  <1>3. d \in Int
    BY TimeAssumption, TimeTypes
  <1>4. d % LOMOD = t
    BY <1>2, <1>3, SameLoExact
  <1> QED BY <1>4 DEF Sub32

(* A host answers what it received "l" ticks ago: its own frame leaves     *)
(* "reply" ticks after the reception, as the prediction in it says.        *)
LEMMA DelayedReply ==
  ASSUME NEW n \in Node, NEW ts \in Timestamps, NEW d \in Nat, NEW l \in 0 .. MaxLag,
         d < LOMOD, MaxLag + QUANTUM <= TSMOD \div 2,
         clock[n] = (ts + l) % TSMOD, ~TooLate(n, DelayedTxTime(ts, d))
  PROVE  \E reply \in 0 .. d + TX_ANT_DLY :
           /\ l <= d /\ TicksTo(n, DelayedTxTime(ts, d)) + TX_ANT_DLY = reply - l
           /\ SameLo(MsgTs(DelayedTxTs(ts, d)) - MsgTs(ts), reply)
           /\ SameLo((clock[n] + (reply - l)) - ts, reply)
  <1>0. /\ ts \in Int /\ l \in Int /\ TX_ANT_DLY \in Nat /\ LOMOD \in Nat \ {0}
        /\ TSMOD \in Nat \ {0} /\ QUANTUM \in Nat \ {0} /\ d < TSMOD
    <2>1. LOMOD <= TSMOD
      BY TimeAssumption
    <2> QED BY <2>1, TimeAssumption, LinkAssumption DEF Timestamps
  <1> DEFINE time == DelayedTxTime(ts, d)
  <1>1. PICK r \in 0 .. QUANTUM - 1 :
          l + r <= d /\ TicksTo(n, time) = d - r - l /\ SameLo(time, ts + d - r)
    <2>1. l \in Nat /\ l + QUANTUM <= TSMOD \div 2
      BY <1>0, LinkAssumption
    <2> QED BY <1>0, <2>1, DelayedSend
  <1>2. time \in Int /\ DelayedTxTs(ts, d) = time + TX_ANT_DLY
    BY DelayedTypes DEF DelayedTxTs
  <1> HIDE DEF time
  <1> DEFINE reply == d - r + TX_ANT_DLY
  <1>3. reply \in 0 .. d + TX_ANT_DLY /\ reply \in Int /\ l <= d
        /\ TicksTo(n, time) + TX_ANT_DLY = reply - l
    BY <1>0, <1>1
  <1>4. SameLo(DelayedTxTs(ts, d) - ts, reply)
    <2>1. PICK k \in Int : time = (ts + d - r) + k * LOMOD
      <3>1. ts + d - r \in Int
        BY <1>0, <1>1
      <3> QED BY <1>1, <1>2, <3>1, SameLoTimes
    <2>2. k * LOMOD \in Int
      BY <1>0
    <2>3. DelayedTxTs(ts, d) - ts = reply + k * LOMOD /\ DelayedTxTs(ts, d) - ts \in Int
      BY <1>0, <1>1, <1>2, <2>1, <2>2
    <2> QED BY <1>3, <2>3, SameLoTimes
  <1>5. SameLo(MsgTs(DelayedTxTs(ts, d)) - MsgTs(ts), reply)
    <2>1. DelayedTxTs(ts, d) \in Int
      BY <1>0, <1>2
    <2> HIDE DEF reply
    <2> QED BY <1>0, <1>3, <1>4, <2>1, CopiesDiffer
  <1>6. SameLo((clock[n] + (reply - l)) - ts, reply)
    <2> DEFINE c == (ts + l) % TSMOD
    <2>1. ts + l \in Int
      BY <1>0
    <2>2. c \in Int /\ SameLo(c, ts + l)
      BY <1>0, <2>1, Division, SameLoRounded
    <2> HIDE DEF c, reply
    <2>3. PICK k \in Int : c = (ts + l) + k * LOMOD
      BY <2>1, <2>2, SameLoTimes
    <2>4. k * LOMOD \in Int
      BY <1>0
    <2>5. (c + (reply - l)) - ts = reply + k * LOMOD /\ (c + (reply - l)) - ts \in Int
      BY <1>0, <1>3, <2>2, <2>3, <2>4
    <2>6. SameLo((c + (reply - l)) - ts, reply)
      BY <1>3, <2>5, SameLoTimes
    <2> QED BY <2>6 DEF c
  <1> HIDE DEF reply
  <1> QED BY <1>3, <1>5, <1>6 DEF time
(* Times as far apart, or apart by the sum or the difference, as two pairs *)
(* that the copies do not tell apart are not told apart either.            *)
LEMMA SameLoBalance ==
  ASSUME NEW s \in Int, NEW t \in Int, NEW u \in Int, NEW v \in Int,
         NEW x \in Int, NEW y \in Int, SameLo(s, t), SameLo(u, v)
  PROVE  /\ x - y = s - t => SameLo(x, y)
         /\ x - y = (s - t) + (u - v) => SameLo(x, y)
         /\ x - y = (s - t) - (u - v) => SameLo(x, y)
  <1>0. LOMOD \in Nat /\ LOMOD > 0
    BY TimeAssumption
  <1>1. PICK k \in Int : s = t + k * LOMOD
    BY SameLoTimes
  <1>2. PICK l \in Int : u = v + l * LOMOD
    BY SameLoTimes
  <1> DEFINE a == k * LOMOD
             b == l * LOMOD
  <1>3. /\ a \in Int /\ b \in Int /\ k + l \in Int /\ k - l \in Int
        /\ (k + l) * LOMOD = a + b /\ (k - l) * LOMOD = a - b
    BY <1>0
  <1>4. s - t = a /\ u - v = b
    BY <1>1, <1>2, <1>3
  <1> HIDE DEF a, b
  <1>5. ASSUME x - y = s - t PROVE SameLo(x, y)
    BY <1>5 DEF SameLo
  <1>6. ASSUME x - y = (s - t) + (u - v) PROVE SameLo(x, y)
    <2>1. x = y + (k + l) * LOMOD
      BY <1>3, <1>4, <1>6
    <2> QED BY <1>3, <2>1, SameLoTimes
  <1>7. ASSUME x - y = (s - t) - (u - v) PROVE SameLo(x, y)
    <2>1. x = y + (k - l) * LOMOD
      BY <1>3, <1>4, <1>7
    <2> QED BY <1>3, <2>1, SameLoTimes
  <1> QED BY <1>5, <1>6, <1>7

(* What the prediction adds to a timestamp is positive and no more than    *)
(* the delays, if the delay is at least a unit of the resolution.          *)
LEMMA DelayedTurn ==
  ASSUME NEW ts \in Timestamps, NEW d \in Nat, QUANTUM <= d
  PROVE  \E turn \in 0 .. d + TX_ANT_DLY : SameLo(DelayedTxTs(ts, d) - ts, turn)
  <1> DEFINE m == (ts + d) % TSMOD
             r == m % QUANTUM
  <1>0. /\ TSMOD \in Nat \ {0} /\ QUANTUM \in Nat \ {0} /\ ts \in Int /\ TX_ANT_DLY \in Nat
        /\ ts + d \in Int
    BY TimeAssumption DEF Timestamps
  <1>1. m \in Int /\ SameLo(m, ts + d)
    BY <1>0, Division, SameLoRounded
  <1>2. r \in Int /\ 0 <= r /\ r < QUANTUM
    BY <1>0, <1>1, Division
  <1>3. DelayedTxTs(ts, d) = m - r + TX_ANT_DLY
    BY DEF DelayedTxTs, DelayedTxTime
  <1> HIDE DEF m, r
  <1>4. d - r + TX_ANT_DLY \in 0 .. d + TX_ANT_DLY
    BY <1>0, <1>2
  <1> DEFINE x == m - r + TX_ANT_DLY - ts
             y == d - r + TX_ANT_DLY
             z == ts + d
  <1>5. x \in Int /\ y \in Int /\ z \in Int /\ x - y = m - z
    BY <1>0, <1>1, <1>2
  <1>6. SameLo(x, y)
    <2> HIDE DEF x, y
    <2>1. SameLo(m, z)
      BY <1>1
    <2> HIDE DEF z
    <2> QED BY <1>1, <1>5, <2>1, SameLoBalance
  <1>7. DelayedTxTs(ts, d) - ts = x
    BY <1>0, <1>1, <1>2, <1>3
  <1>8. y \in 0 .. d + TX_ANT_DLY
    BY <1>4
  <1> HIDE DEF x, y
  <1> QED BY <1>6, <1>7, <1>8

(* A delayed transmission is sent when the clock shows the time predicted. *)
LEMMA SentAsPredicted ==
  ASSUME NEW n \in Node, clock[n] \in Int, NEW ts \in Timestamps, NEW d \in Nat
  PROVE  SameLo(clock[n] + (TicksTo(n, DelayedTxTime(ts, d)) + TX_ANT_DLY), DelayedTxTs(ts, d))
  <1> DEFINE time == DelayedTxTime(ts, d)
             c == clock[n]
             w == time - c
             left1 == w % TSMOD
  <1>1. time \in Int /\ DelayedTxTs(ts, d) = time + TX_ANT_DLY /\ TX_ANT_DLY \in Nat
    BY DelayedTypes, TimeAssumption DEF DelayedTxTs
  <1>2. c \in Int /\ TicksTo(n, time) = left1
    BY DEF TicksTo
  <1> HIDE DEF time, c
  <1>3. w \in Int
    BY <1>1, <1>2
  <1>4. left1 \in Int /\ SameLo(left1, w)
    BY <1>3, TimeAssumption, Division, SameLoRounded
  <1>5. /\ c + (left1 + TX_ANT_DLY) \in Int /\ time + TX_ANT_DLY \in Int
        /\ (c + (left1 + TX_ANT_DLY)) - (time + TX_ANT_DLY) = left1 - w
    BY <1>1, <1>2, <1>4
  <1> HIDE DEF w, left1
  <1>6. SameLo(c + (left1 + TX_ANT_DLY), time + TX_ANT_DLY)
    BY <1>3, <1>4, <1>5, SameLoBalance
  <1> QED BY <1>1, <1>2, <1>6 DEF time, c

(* The formula applied to two round trips of the same flight.              *)
LEMMA AsymmetricRounds ==
  ASSUME NEW F \in Nat, F > 0, NEW a \in Nat, NEW b \in Nat
  PROVE  TruncDiv((2 * F + a) * (2 * F + b) - b * a, (2 * F + a) + (2 * F + b) + b + a) = F
  <1> DEFINE s == 4 * F + 2 * a + 2 * b
  <1>1. s \in Nat \ {0}
    OBVIOUS
  <1>2. (2 * F + a) + (2 * F + b) + b + a = s
    OBVIOUS
  <1>3. (2 * F + a) * (2 * F + b) - b * a = F * s
    <2>1. (2 * F + a) * (2 * F + b) = (2 * F) * (2 * F) + (2 * F) * b + a * (2 * F) + a * b
      OBVIOUS
    <2>2. F * s = F * (4 * F) + F * (2 * a) + F * (2 * b)
      OBVIOUS
    <2> QED BY <2>1, <2>2
  <1> HIDE DEF s
  <1>4. F * s \in Nat /\ F * s >= 0 /\ (F * s) \div s = F
    BY <1>1
  <1> QED BY <1>2, <1>3, <1>4 DEF TruncDiv
-----------------------------------------------------------------------------
(* Examples whose hosts do not clear all flags of receptions: what each    *)
(* kind of wait asks of the chip, and no more.                             *)

(* A transmission without response, whatever receptions left up.           *)
Sending(n) == /\ mode[n] \in {"tx", "idle"}
              /\ mode[n] = "tx" => ~w4r[n] /\ "TXFRS" \notin status[n]
              /\ mode[n] = "idle" => "TXFRS" \in status[n]

(* A transmission that opens the receiver.                                 *)
Asking(n) == RxWait(n) /\ (mode[n] = "tx" <=> "TXFRS" \notin status[n])

(* A reception, with no transmission before it or after it.                *)
Hearing(n) == RxWait(n) /\ mode[n] # "tx" /\ "TXFRS" \notin status[n]

(* A reception that the host started itself, without a timeout.            *)
Listening(n) == Hearing(n) /\ mode[n] # "gap" /\ Untimed(n)

(* Nothing is going on and no event of a reception, or none at all, is up. *)
Off(n)   == mode[n] = "idle"
Clean(n) == Asleep(n) /\ "TXFRS" \notin status[n]

(* What the hardware and the air do keeps each of them.                    *)
LEMMA RadioKeeps ==
  ASSUME NEW K, Shape, Hardware \/ Interference(K), UNCHANGED pc
  PROVE  /\ Shape' /\ rxTo' = rxTo
         /\ \A n \in Node :
              /\ Sending(n) => Sending(n)'
              /\ Asking(n) => Asking(n)'
              /\ RxWait(n) => RxWait(n)'
              /\ TxWait(n) => TxWait(n)'
              /\ Untimed(n) => Untimed(n)'
              /\ Hearing(n) => Hearing(n)'
              /\ Listening(n) => Listening(n)'
              /\ Off(n) => mode'[n] = mode[n] /\ status'[n] = status[n]
  <1> DEFINE Kept == /\ Shape' /\ rxTo' = rxTo
                     /\ \A n \in Node :
                          /\ Sending(n) => Sending(n)'
                          /\ Asking(n) => Asking(n)'
                          /\ RxWait(n) => RxWait(n)'
                          /\ TxWait(n) => TxWait(n)'
                          /\ Untimed(n) => Untimed(n)'
                          /\ Hearing(n) => Hearing(n)'
                          /\ Listening(n) => Listening(n)'
                          /\ Off(n) => mode'[n] = mode[n] /\ status'[n] = status[n]
  <1> USE DEF Shape, Sending, Asking, Hearing, Listening, Off, RxWait, TxWait, NoRxFlag,
              OneRxFlag, Untimed, RxMask, Flags, Modes, Node
  <1>1. ASSUME NEW n \in Node, Transmit(n) PROVE Kept
    BY <1>1 DEF Transmit, Peer
  <1>2. ASSUME NEW n \in Node, OpenRx(n) PROVE Kept
    BY <1>2 DEF OpenRx
  <1>3. ASSUME NEW n \in Node, RxTimeout(n) PROVE Kept
    BY <1>3 DEF RxTimeout, EndRx
  <1>4. ASSUME NEW m \in air, Receive(m) PROVE Kept
    BY <1>4 DEF Receive, EndRx
  <1>5. ASSUME NEW m \in air, Miss(m) PROVE Kept
    BY <1>5 DEF Miss, chipVars
  <1>6. ASSUME NEW m \in air, Corrupt(m) PROVE Kept
    BY <1>6 DEF Corrupt, EndRx
  <1>7. ASSUME NEW n \in Node, NEW k \in K, Interfere(n, k) PROVE Kept
    BY <1>7 DEF Interfere, EndRx
  <1> QED
    BY <1>1, <1>2, <1>3, <1>4, <1>5, <1>6, <1>7 DEF Hardware, Interference

(* So does time, and what changes nothing.                                 *)
LEMMA RestKeeps ==
  ASSUME Shape, LinkTick \/ UNCHANGED linkVars, UNCHANGED pc
  PROVE  Shape' /\ UNCHANGED <<mode, w4r, status, rxTo>>
  BY DEF Shape, LinkTick, Nearer, linkVars, chipVars
=============================================================================
