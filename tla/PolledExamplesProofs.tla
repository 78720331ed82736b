------------------------ MODULE PolledExamplesProofs ------------------------
(***************************************************************************)
(* What holds of the polled examples of PolledExamples for every value of  *)
(* the constants.                                                          *)
(***************************************************************************)
EXTENDS PolledExamples, PolledHostProofs, SequenceTheorems
(* Example 2f. The step of the chip's trim is between the two that the     *)
(* repository names, readings are off by 0.3 ppm at the most and the first *)
(* offset is one of a crystal of 42 ppm.                                   *)
PlausibleCrystal ==
  Steps \subseteq 81 .. 111 /\ Noise \in 0 .. 20 /\ Offsets \subseteq -2820 .. 2819

(* A correction is the nearest to zero of the two whole numbers that       *)
(* enclose the quotient.                                                   *)
Encloses(c, r) ==
  /\ c \in Int
  /\ 15625 * r + 3145728 >= 0 =>
       c >= 0 /\ 1261568 * c <= 15625 * r + 3145728 /\ 15625 * r + 3145728 < 1261568 * c + 1261568
  /\ 15625 * r + 3145728 < 0  =>
       c <= 0 /\ 1261568 * c >= 15625 * r + 3145728 /\ 15625 * r + 3145728 > 1261568 * c - 1261568

LEMMA CorrectionEncloses == \A r \in Int : Encloses(Trim!Correction(r), r)
  <1> SUFFICES ASSUME NEW r \in Int PROVE Encloses(Trim!Correction(r), r)
    OBVIOUS
  <1> DEFINE w == 15625 * r + 3145728
             q == w \div 1261568
             p == (-w) \div 1261568
  <1>1. w \in Int
    OBVIOUS
  <1> HIDE DEF w
  <1>2. q \in Int /\ 1261568 * q <= w /\ w < 1261568 * q + 1261568
    BY <1>1
  <1>3. p \in Int /\ 1261568 * p <= -w /\ -w < 1261568 * p + 1261568
    BY <1>1
  <1>4. Trim!Correction(r) = IF w < 0 THEN -p ELSE q
    BY DEF Trim!Correction, Trim!Truncated, w
  <1> HIDE DEF p, q
  <1>5. w >= 0 => q >= 0
    BY <1>1, <1>2
  <1>6. w < 0 => p >= 0
    BY <1>1, <1>3
  <1> DEFINE c == Trim!Correction(r)
  <1>7. /\ c \in Int
        /\ w >= 0 => c >= 0 /\ 1261568 * c <= w /\ w < 1261568 * c + 1261568
        /\ w < 0  => c <= 0 /\ 1261568 * c >= w /\ w > 1261568 * c - 1261568
    <2>1. CASE w >= 0
      BY <1>1, <1>2, <1>4, <1>5, <2>1
    <2>2. CASE w < 0
      BY <1>1, <1>3, <1>4, <1>6, <2>2
    <2> QED BY <1>1, <2>1, <2>2
  <1> QED BY <1>7 DEF w, Encloses

(* No correction leaves the six bits of the trim.                          *)
Readings(o) == {o + noise : noise \in {-Noise, 0, Noise}}
Reaches(o, t) == \A r \in Readings(o) : t - Trim!Correction(r) \in 0 .. 63

(* How far off the clock may still be after so many corrections.           *)
Left(k) ==
  CASE k = 0 -> -2820 .. 2819 [] k = 1 -> -1392 .. 828 [] k = 2 -> -585 .. 263
    [] k = 3 -> -342 .. -61   [] k = 4 -> -262 .. -141

Settling ==
  /\ step \in 81 .. 111 /\ uCurrentTrim_val \in 0 .. 63
  /\ changes \in 0 .. 4 /\ offset \in Left(changes)
  /\ Reaches(offset, uCurrentTrim_val)

(* One correction moves the clock by as many steps, each of a size between *)
(* the two.                                                                *)
LEMMA CorrectionMoves ==
  ASSUME NEW s \in 81 .. 111, NEW c \in Int
  PROVE  /\ s * c \in Int
         /\ c >= 0 => 81 * c <= s * c /\ s * c <= 111 * c
         /\ c <= 0 => 111 * c <= s * c /\ s * c <= 81 * c
  <1> DEFINE d == s - 81
             e == 111 - s
  <1>1. d \in Nat /\ e \in Nat /\ s = 81 + d /\ s = 111 - e
    OBVIOUS
  <1> HIDE DEF d, e
  <1>2. d * c \in Int /\ e * c \in Int
    BY <1>1
  <1>3. s * c = 81 * c + d * c /\ s * c = 111 * c - e * c
    BY <1>1, <1>2
  <1>4. c >= 0 => d * c >= 0 /\ e * c >= 0
    BY <1>1
  <1>5. c <= 0 => d * c <= 0 /\ e * c <= 0
    BY <1>1
  <1> QED BY <1>2, <1>3, <1>4, <1>5

(* Each correction of an offset that is not on target brings it nearer.    *)
LEMMA Nearing ==
  ASSUME NEW k \in 0 .. 4, NEW o \in Left(k), NEW n \in -20 .. 20, NEW s \in 81 .. 111,
         Trim!OffTarget(o + n), Trim!Correction(o + n) # 0
  PROVE  k < 4 /\ o - s * Trim!Correction(o + n) \in Left(k + 1)
  <1> DEFINE r == o + n
             c == Trim!Correction(r)
             m == s * c
  <1>1. o \in Int /\ o \in -2820 .. 2819 /\ r \in Int /\ r = o + n
    <2>1. o \in -2820 .. 2819
      <3>1. k = 0 \/ k = 1 \/ k = 2 \/ k = 3 \/ k = 4
        OBVIOUS
      <3> QED BY <3>1 DEF Left
    <2> QED BY <2>1
  <1>2. r >= 269 \/ r <= -269 \/ (r >= -134 /\ r <= 134)
    BY <1>1 DEF Trim!OffTarget, Trim!Abs
  <1>3. Encloses(c, r) /\ c \in Int
    BY <1>1, CorrectionEncloses DEF Encloses
  <1>4. c # 0
    OBVIOUS
  <1> HIDE DEF r, c
  <1>5. /\ m \in Int
        /\ c >= 0 => 81 * c <= m /\ m <= 111 * c
        /\ c <= 0 => 111 * c <= m /\ m <= 81 * c
    BY <1>3, CorrectionMoves
  <1> HIDE DEF m
  <1>6. CASE k = 0
    <2>1. o - m \in -1392 .. 828
      <3>1. CASE c >= 0
        BY <1>1, <1>2, <1>3, <1>4, <1>5, <3>1, SMTT(30) DEF Encloses
      <3>2. CASE c <= 0
        BY <1>1, <1>2, <1>3, <1>4, <1>5, <3>2, SMTT(30) DEF Encloses
      <3> QED BY <1>3, <3>1, <3>2
    <2> QED BY <1>6, <2>1, SMTT(60) DEF Left, m, c, r
  <1>7. CASE k = 1
    <2>0. o \in -1392 .. 828
      BY <1>7 DEF Left
    <2>1. o - m \in -585 .. 263
      BY <1>1, <1>2, <1>3, <1>4, <1>5, <2>0 DEF Encloses
    <2> QED BY <1>7, <2>1 DEF Left, m, c, r
  <1>8. CASE k = 2
    <2>0. o \in -585 .. 263
      BY <1>8 DEF Left
    <2>1. o - m \in -342 .. -61
      BY <1>1, <1>2, <1>3, <1>4, <1>5, <2>0 DEF Encloses
    <2> QED BY <1>8, <2>1 DEF Left, m, c, r
  <1>9. CASE k = 3
    <2>0. o \in -342 .. -61
      BY <1>9 DEF Left
    <2>1. o - m \in -262 .. -141
      BY <1>1, <1>2, <1>3, <1>4, <1>5, <2>0 DEF Encloses
    <2> QED BY <1>9, <2>1 DEF Left, m, c, r
  <1>10. CASE k = 4
    <2>0. o \in -262 .. -141
      BY <1>10 DEF Left
    <2>1. FALSE
      BY <1>1, <1>2, <1>3, <1>4, <1>5, <2>0 DEF Encloses
    <2> QED BY <2>1
  <1> QED BY <1>6, <1>7, <1>8, <1>9, <1>10
(* A reading is off by no more than the noise.                             *)
LEMMA ReadingsNear ==
  ASSUME Noise \in 0 .. 20, NEW o \in Int
  PROVE  /\ {o, o + Noise, o - Noise} \subseteq Readings(o)
         /\ \A r \in Readings(o) : r \in Int /\ o - Noise <= r /\ r <= o + Noise
  <1>1. Noise \in Int /\ Noise >= 0
    OBVIOUS
  <1>2. \A noise \in {-Noise, 0, Noise} : noise \in Int /\ -Noise <= noise /\ noise <= Noise
    BY <1>1
  <1>3. o = o + 0 /\ o - Noise = o + (-Noise)
    BY <1>1
  <1> QED BY <1>1, <1>2, <1>3 DEF Readings

(* After a correction the next does not leave the six bits either.         *)
LEMMA StillReaches ==
  ASSUME Noise \in 0 .. 20, NEW o \in Int, NEW t \in 0 .. 63, NEW s \in 81 .. 111,
         Reaches(o, t), NEW r \in Readings(o)
  PROVE  Reaches(o - s * Trim!Correction(r), t - Trim!Correction(r))
  <1> DEFINE c == Trim!Correction(r)
             m == s * c
  <1> SUFFICES ASSUME NEW v \in Readings(o - m)
               PROVE  (t - c) - Trim!Correction(v) \in 0 .. 63
    BY DEF Reaches
  <1> DEFINE e == Trim!Correction(v)
             h == Trim!Correction(o + Noise)
             l == Trim!Correction(o - Noise)
  <1>0. Noise \in Int /\ Noise >= 0 /\ Noise <= 20
    OBVIOUS
  <1>r. r \in Int /\ o - Noise <= r /\ r <= o + Noise
    BY ReadingsNear
  <1>1. Encloses(c, r) /\ c \in Int /\ t - c \in 0 .. 63
    <2>1. Encloses(c, r)
      BY <1>r, CorrectionEncloses
    <2>2. t - c \in 0 .. 63
      BY DEF Reaches
    <2> HIDE DEF c
    <2> QED BY <2>1, <2>2 DEF Encloses
  <1>2. /\ m \in Int
        /\ c >= 0 => 81 * c <= m /\ m <= 111 * c
        /\ c <= 0 => 111 * c <= m /\ m <= 81 * c
        /\ c = 0 => m = 0
    <2>1. /\ m \in Int
          /\ c >= 0 => 81 * c <= m /\ m <= 111 * c
          /\ c <= 0 => 111 * c <= m /\ m <= 81 * c
      BY <1>1, CorrectionMoves
    <2>2. c \in Int
      BY <1>1
    <2> HIDE DEF c, m
    <2> QED BY <2>1, <2>2
  <1>3. o - m \in Int
    BY <1>2
  <1>v. v \in Int /\ (o - m) - Noise <= v /\ v <= (o - m) + Noise
    <2> HIDE DEF m
    <2> QED BY <1>3, ReadingsNear
  <1>4. Encloses(e, v) /\ e \in Int
    <2>1. Encloses(e, v)
      BY <1>v, CorrectionEncloses
    <2> HIDE DEF e
    <2> QED BY <2>1 DEF Encloses
  <1>5. o + Noise \in Readings(o) /\ o - Noise \in Readings(o)
    BY ReadingsNear
  <1>6. /\ Encloses(h, o + Noise) /\ Encloses(l, o - Noise) /\ h \in Int /\ l \in Int
        /\ t - h \in 0 .. 63 /\ t - l \in 0 .. 63
    BY <1>0, <1>5, CorrectionEncloses DEF Reaches, Encloses
  <1>7. CASE c = 0
    <2>1. o - m = o
      BY <1>2, <1>7
    <2>2. t - e \in 0 .. 63
      BY <2>1 DEF Reaches
    <2>3. t - c = t
      BY <1>7
    <2> QED BY <2>2, <2>3
  <1>8. CASE c > 0
    <2> HIDE DEF c, m, e, h, l
    <2>1. e >= 1 => e = 1 /\ h >= c + 1
      BY <1>0, <1>r, <1>1, <1>2, <1>v, <1>4, <1>6, <1>8 DEF Encloses
    <2>2. e <= 0 => -e <= c
      BY <1>0, <1>r, <1>1, <1>2, <1>v, <1>4, <1>6, <1>8 DEF Encloses
    <2>3. (t - c) - e \in 0 .. 63
      BY <1>1, <1>4, <1>6, <1>8, <2>1, <2>2
    <2> QED BY <2>3 DEF c, e
  <1>9. CASE c < 0
    <2> HIDE DEF c, m, e, h, l
    <2>1. e <= -1 => e = -1 /\ l <= c - 1
      BY <1>0, <1>r, <1>1, <1>2, <1>v, <1>4, <1>6, <1>9 DEF Encloses
    <2>2. e >= 0 => e <= -c
      BY <1>0, <1>r, <1>1, <1>2, <1>v, <1>4, <1>6, <1>9 DEF Encloses
    <2>3. (t - c) - e \in 0 .. 63
      BY <1>1, <1>4, <1>6, <1>9, <2>1, <2>2
    <2> QED BY <2>3 DEF c, e
  <1> QED BY <1>1, <1>7, <1>8, <1>9

(* The first correction stays within the range, and so do those of the     *)
(* noisy readings.                                                         *)
LEMMA FirstReaches ==
  ASSUME Noise \in 0 .. 20, NEW o \in Int, NEW t \in Int, t - Trim!Correction(o) \in 1 .. 62
  PROVE  Reaches(o, t)
  <1> SUFFICES ASSUME NEW r \in Readings(o) PROVE t - Trim!Correction(r) \in 0 .. 63
    BY DEF Reaches
  <1> DEFINE c == Trim!Correction(o)
             d == Trim!Correction(r)
  <1>1. r \in Int /\ o - 20 <= r /\ r <= o + 20
    <2>1. Noise \in Int /\ Noise >= 0 /\ Noise <= 20
      OBVIOUS
    <2>2. r \in Int /\ o - Noise <= r /\ r <= o + Noise
      BY ReadingsNear
    <2> QED BY <2>1, <2>2
  <1>2. d \in Int /\ c \in Int /\ d - c \in -1 .. 1
    <2>1. Encloses(c, o) /\ Encloses(d, r)
      BY <1>1, CorrectionEncloses
    <2> HIDE DEF c, d
    <2>2. c \in Int /\ d \in Int
      BY <2>1 DEF Encloses
    <2>3. d <= c + 1
      BY <1>1, <2>1, <2>2 DEF Encloses
    <2>4. c <= d + 1
      BY <1>1, <2>1, <2>2 DEF Encloses
    <2> QED BY <2>2, <2>3, <2>4
  <1>3. t - c \in 1 .. 62
    OBVIOUS
  <1> HIDE DEF c, d
  <1>4. t - d \in 0 .. 63
    BY <1>2, <1>3
  <1> QED BY <1>4 DEF d

LEMMA SettlingStart ==
  ASSUME PlausibleCrystal, Trim!Init
  PROVE  Settling
  <1>1. /\ step \in 81 .. 111 /\ offset \in -2820 .. 2819 /\ offset \in Int
        /\ uCurrentTrim_val \in 0 .. 63 /\ uCurrentTrim_val \in Int /\ changes = 0
    BY PolledAssumption DEF PolledAssumption, Trim!TrimAssumption, Trim!Init, PlausibleCrystal
  <1>2. uCurrentTrim_val - Trim!Correction(offset) \in 1 .. 62
    BY DEF Trim!Init, Trim!InReach, Trim!FS_XTALT_MAX_VAL
  <1>3. Reaches(offset, uCurrentTrim_val)
    BY <1>1, <1>2, FirstReaches DEF PlausibleCrystal
  <1> QED BY <1>1, <1>3 DEF Settling, Left

LEMMA SettlingStep ==
  ASSUME PlausibleCrystal, Settling, Trim!Next
  PROVE  Settling'
  <1>1. PICK noise \in {-Noise, 0, Noise} :
          LET reading == offset + noise
              trim == IF Trim!OffTarget(reading)
                      THEN (uCurrentTrim_val - Trim!Correction(reading)) % 64
                      ELSE uCurrentTrim_val
          IN  /\ uCurrentTrim_val' = trim
              /\ offset' = offset + step * (trim - uCurrentTrim_val)
              /\ changes' = IF trim = uCurrentTrim_val THEN changes ELSE changes + 1
              /\ UNCHANGED step
    <2>1. 63 + 1 = 64
      OBVIOUS
    <2> QED BY <2>1 DEF Trim!Next, Trim!Frame, Trim!FS_XTALT_MAX_VAL
  <1> DEFINE r == offset + noise
             c == Trim!Correction(r)
             t == uCurrentTrim_val
             k == changes
  <1>2. /\ offset \in Int /\ t \in 0 .. 63 /\ step \in 81 .. 111 /\ k \in 0 .. 4
        /\ Reaches(offset, t) /\ offset \in Left(k) /\ Noise \in 0 .. 20
    <2>1. k = 0 \/ k = 1 \/ k = 2 \/ k = 3 \/ k = 4
      BY DEF Settling
    <2>2. offset \in -2820 .. 2819
      BY <2>1 DEF Settling, Left
    <2>3. offset \in Int
      BY <2>2
    <2> QED BY <2>3 DEF Settling, PlausibleCrystal
  <1>3. r \in Readings(offset) /\ noise \in -20 .. 20 /\ r \in Int
    <2>1. Noise \in Int /\ Noise >= 0 /\ Noise <= 20
      BY <1>2
    <2> QED BY <1>2, <2>1 DEF Readings
  <1>4. t - c \in 0 .. 63 /\ c \in Int
    BY <1>2, <1>3, CorrectionEncloses DEF Reaches, Encloses
  <1>5. (t - c) % 64 = t - c
    BY <1>4
  <1>6. CASE ~Trim!OffTarget(r) \/ c = 0
    <2>1. uCurrentTrim_val' = t
      BY <1>1, <1>2, <1>5, <1>6
    <2>2. step * (t - t) = 0
      BY <1>2
    <2>3. offset' = offset /\ changes' = changes /\ step' = step
      BY <1>1, <1>2, <2>1, <2>2
    <2> QED BY <2>1, <2>3 DEF Settling, Reaches, Readings
  <1>7. CASE Trim!OffTarget(r) /\ c # 0
    <2>1. uCurrentTrim_val' = t - c /\ t - c # t
      BY <1>1, <1>2, <1>4, <1>5, <1>7
    <2>2. offset' = offset - step * c
      <3>1. (t - c) - t = -c /\ step * (-c) = -(step * c) /\ step * c \in Int
        BY <1>2, <1>4
      <3>2. offset' = offset + step * ((t - c) - t)
        BY <1>1, <2>1
      <3> QED BY <1>2, <3>1, <3>2
    <2>3. changes' = k + 1 /\ step' = step
      BY <1>1, <2>1
    <2>4. k < 4 /\ offset' \in Left(k + 1)
      BY <1>2, <1>3, <1>7, <2>2, Nearing, ZenonT(30)
    <2>5. Reaches(offset - step * c, t - c)
      BY <1>2, <1>3, StillReaches
    <2>6. changes' \in 0 .. 4 /\ step' \in 81 .. 111 /\ uCurrentTrim_val' \in 0 .. 63
      BY <1>2, <1>4, <2>1, <2>3, <2>4
    <2>7. offset' \in Left(changes')
      BY <2>3, <2>4
    <2>8. Reaches(offset, uCurrentTrim_val)'
      BY <2>1, <2>2, <2>5 DEF Reaches, Readings
    <2> QED BY <2>6, <2>7, <2>8 DEF Settling
  <1> QED BY <1>6, <1>7

(* The trim comes to rest, with every crystal between the two, every       *)
(* trim to start with and every offset a first correction can reach, and   *)
(* never leaves its six bits on the way.                                   *)
THEOREM TrimComesToRest ==
  ASSUME PlausibleCrystal
  PROVE  Spec => []TrimSettles
  <1> DEFINE Inv == app = "trim" => Settling
  <1>1. Init => Inv
    BY SettlingStart DEF Init
  <1>2. Inv /\ [Next]_vars => Inv'
    <2> SUFFICES ASSUME app = "trim" => Settling, [Next]_vars, app' = "trim" PROVE Settling'
      OBVIOUS
    <2>1. CASE Runs("trim", <<stsVars, aesVars, blinkVars, ccaVars, hostVars>>) /\ Trim!Next
      BY <2>1, SettlingStep DEF Runs
    <2>2. CASE UNCHANGED <<app, trimVars>>
      BY <2>2 DEF trimVars, Settling, Reaches, Readings
    <2> QED BY <2>1, <2>2 DEF Next, Runs, vars
  <1>3. Inv => TrimSettles
    BY DEF TrimSettles, Trim!TrimSettles, Settling
  <1> QED BY <1>1, <1>2, <1>3, PTL DEF Spec
-----------------------------------------------------------------------------
(* Example 1e. The other sender's gap is so wide that the growing steps of *)
(* a back-off cannot pass a whole period without landing in it.            *)
WideGap == period > Share * (2 * Share - 4)

(* The first millisecond of a period that is not clear.                    *)
Gap(p) == (p + Share - 1) \div Share

LEMMA ProductsGrow == \A x, y, z \in Int : x <= y /\ z >= 0 => x * z <= y * z
  <1> SUFFICES ASSUME NEW x \in Int, NEW y \in Int, NEW z \in Int, x <= y, z >= 0
               PROVE x * z <= y * z
    OBVIOUS
  <1>1. PICK d \in Nat : y = x + d
    <2>1. y - x \in Nat /\ y = x + (y - x)
      OBVIOUS
    <2> QED BY <2>1
  <1>2. d * z >= 0 /\ d * z \in Int /\ x * z \in Int
    OBVIOUS
  <1>3. y * z = x * z + d * z
    BY <1>1
  <1> QED BY <1>2, <1>3

LEMMA GapBounds ==
  ASSUME NEW p \in Nat \ {0}, Share \in Nat \ {0}
  PROVE  /\ Gap(p) \in Nat /\ Gap(p) >= 1
         /\ \A x \in Nat : x * Share < p <=> x < Gap(p)
         /\ p > Share * (2 * Share - 4) => 2 * Gap(p) + Gap(p) * (Gap(p) + 1) >= 2 * p
  <1> DEFINE g == Gap(p)
  <1>1. /\ g \in Int /\ g * Share <= p + Share - 1 /\ p + Share - 1 < g * Share + Share
    BY DEF Gap
  <1> HIDE DEF g
  <1>2. g * Share \in Int
    BY <1>1
  <1>3. p <= g * Share /\ g * Share < p + Share
    BY <1>1, <1>2
  <1>4. g >= 1
    <2>1. g * Share > 0
      BY <1>2, <1>3
    <2>2. g <= 0 => g * Share <= 0 * Share
      BY <1>1, ProductsGrow
    <2> QED BY <1>1, <1>2, <2>1, <2>2
  <1>5. ASSUME NEW x \in Nat PROVE x * Share < p <=> x < g
    <2>1. CASE x < g
      <3>1. x * Share <= (g - 1) * Share
        BY <1>1, <2>1, ProductsGrow
      <3>2. (g - 1) * Share = g * Share - Share
        BY <1>1
      <3> QED BY <1>2, <1>3, <2>1, <3>1, <3>2
    <2>2. CASE x >= g
      <3>1. g * Share <= x * Share
        BY <1>1, <2>2, ProductsGrow
      <3> QED BY <1>1, <1>2, <1>3, <2>2, <3>1
    <2> QED BY <1>1, <2>1, <2>2
  <1>6. ASSUME p > Share * (2 * Share - 4) PROVE 2 * g + g * (g + 1) >= 2 * p
    <2>1. g > 2 * Share - 4
      <3>1. g <= 2 * Share - 4 => g * Share <= (2 * Share - 4) * Share
        BY <1>1, ProductsGrow
      <3>2. (2 * Share - 4) * Share = Share * (2 * Share - 4)
        OBVIOUS
      <3> QED BY <1>1, <1>3, <1>6, <3>1, <3>2
    <2>2. (2 * Share) * g <= (g + 3) * g
      BY <1>1, <1>4, <2>1, ProductsGrow
    <2>3. (2 * Share) * g = 2 * (g * Share) /\ (g + 3) * g = 2 * g + g * (g + 1)
      BY <1>1
    <2> QED BY <1>1, <1>2, <1>3, <2>2, <2>3
  <1> QED BY <1>1, <1>4, <1>5, <1>6 DEF g

(* What a pause does to the time within the period.                        *)
LEMMA RemainderIs ==
  ASSUME NEW p \in Nat \ {0}, NEW q \in Int, NEW r \in 0 .. p - 1
  PROVE  (q * p + r) % p = r
  <1> DEFINE a == q * p + r
             d == a \div p
             e == a % p
  <1>1. q * p \in Int /\ r \in Int /\ a \in Int
    OBVIOUS
  <1> HIDE DEF a
  <1>2. d \in Int /\ e \in 0 .. p - 1 /\ a = d * p + e
    BY <1>1
  <1> HIDE DEF d, e
  <1>3. q * p + r = d * p + e
    BY <1>2 DEF a
  <1>4. d * p \in Int /\ e \in Int
    BY <1>2
  <1>5. ~ q < d
    <2>1. q < d => (q + 1) * p <= d * p
      BY <1>2, ProductsGrow
    <2>2. (q + 1) * p = q * p + p
      OBVIOUS
    <2> QED BY <1>1, <1>2, <1>3, <1>4, <2>1, <2>2
  <1>6. ~ d < q
    <2>1. d < q => (d + 1) * p <= q * p
      BY <1>2, ProductsGrow
    <2>2. (d + 1) * p = d * p + p
      BY <1>2
    <2> QED BY <1>1, <1>2, <1>3, <1>4, <2>1, <2>2
  <1>7. q = d
    BY <1>2, <1>5, <1>6
  <1>8. e = r
    BY <1>1, <1>3, <1>4, <1>7
  <1> QED BY <1>8 DEF e, a

Moves(p, f, n) ==
  /\ n % p \in 0 .. p - 1
  /\ (f + n) % p = IF f + (n % p) < p THEN f + (n % p) ELSE f + (n % p) - p
  /\ (n + 1) % p = IF (n % p) + 1 < p THEN (n % p) + 1 ELSE 0

LEMMA PauseMoves ==
  ASSUME NEW p \in Nat \ {0}, NEW f \in 0 .. p - 1, NEW n \in Nat
  PROVE  Moves(p, f, n)
  <1> DEFINE d == n \div p
             j == n % p
  <1>1. d \in Int /\ j \in 0 .. p - 1 /\ n = d * p + j
    OBVIOUS
  <1> HIDE DEF d, j
  <1>2. d * p \in Int /\ (d + 1) * p = d * p + p
    BY <1>1
  <1>3. \A r \in 0 .. p - 1 : (d * p + r) % p = r /\ ((d + 1) * p + r) % p = r
    BY <1>1, RemainderIs
  <1>4. (f + n) % p = IF f + j < p THEN f + j ELSE f + j - p
    <2>1. CASE f + j < p
      <3>1. f + n = d * p + (f + j) /\ f + j \in 0 .. p - 1
        BY <1>1, <1>2, <2>1
      <3> QED BY <1>3, <2>1, <3>1
    <2>2. CASE f + j >= p
      <3>1. f + n = (d + 1) * p + (f + j - p) /\ f + j - p \in 0 .. p - 1
        BY <1>1, <1>2, <2>2
      <3>2. ~ f + j < p
        BY <1>1, <2>2
      <3> QED BY <1>3, <3>1, <3>2
    <2> QED BY <1>1, <2>1, <2>2
  <1>5. (n + 1) % p = IF j + 1 < p THEN j + 1 ELSE 0
    <2>1. CASE j + 1 < p
      <3>1. n + 1 = d * p + (j + 1) /\ j + 1 \in 0 .. p - 1
        BY <1>1, <1>2, <2>1
      <3> QED BY <1>3, <2>1, <3>1
    <2>2. CASE j + 1 = p
      <3>1. n + 1 = (d + 1) * p + 0 /\ 0 \in 0 .. p - 1
        BY <1>1, <1>2, <2>2
      <3>2. ~ j + 1 < p
        BY <1>1, <2>2
      <3> QED BY <1>3, <3>1, <3>2
    <2> QED BY <1>1, <2>1, <2>2
  <1> QED BY <1>1, <1>4, <1>5 DEF j, Moves

(* A row of busy attempts. Once the back-off has been a multiple of the    *)
(* period, its remainder has climbed from zero, and each attempt so far    *)
(* came later in the period by one millisecond more than the one before.   *)
Climbing ==
  LET j == next_backoff_interval % period
      g == Gap(period)
  IN  j <= busy =>
        /\ busy <= period - 1 + j
        /\ j >= 1 => j <= g /\ 2 * phase >= 2 * g + j * (j - 1)

BackingOff ==
  /\ period \in Periods /\ phase \in 0 .. period - 1
  /\ next_backoff_interval \in Nat /\ busy \in Nat
  /\ busy <= 2 * period
  /\ ~Cca!Clear => Climbing

LEMMA BackingOffStart ==
  ASSUME Cca!Init
  PROVE  BackingOff
  <1>1. /\ period \in Periods /\ phase \in 0 .. period - 1
        /\ next_backoff_interval \in Nat /\ busy = 0 /\ period \in Nat \ {0}
    BY PolledAssumption DEF PolledAssumption, Cca!CcaAssumption, Cca!Init
  <1>2. next_backoff_interval % period \in 0 .. period - 1
    BY <1>1
  <1>3. Climbing
    BY <1>1, <1>2 DEF Climbing
  <1> QED BY <1>1, <1>3 DEF BackingOff

LEMMA BackingOffStep ==
  ASSUME WideGap, BackingOff, Cca!Next
  PROVE  BackingOff'
  <1> DEFINE p == period
             n == next_backoff_interval
             j == n % p
             g == Gap(p)
  <1>1. /\ p \in Nat \ {0} /\ p \in Periods /\ phase \in 0 .. p - 1 /\ n \in Nat /\ busy \in Nat
        /\ Share \in Nat \ {0} /\ INITIAL_BACKOFF_PERIOD \in Nat /\ TX_DELAY_MS \in Nat
        /\ p > Share * (2 * Share - 4) /\ busy <= 2 * p
    BY PolledAssumption DEF PolledAssumption, Cca!CcaAssumption, BackingOff, WideGap
  <1>2. /\ g \in Nat /\ g >= 1
        /\ \A x \in Nat : x * Share < p <=> x < g
        /\ 2 * g + g * (g + 1) >= 2 * p
    BY <1>1, GapBounds
  <1>3. p' = p
    BY DEF Cca!Next, Cca!Sent, Cca!FoundBusy, Cca!SleepFor
  <1>4. CASE Cca!Sent
    <2>1. phase' \in 0 .. p - 1 /\ n' = INITIAL_BACKOFF_PERIOD /\ busy' = 0
      BY <1>1, <1>4 DEF Cca!Sent, Cca!SleepFor
    <2>2. n' % p \in 0 .. p - 1
      BY <1>1, <2>1
    <2>3. Climbing'
      BY <1>1, <1>3, <2>1, <2>2 DEF Climbing
    <2> QED BY <1>1, <1>3, <2>1, <2>3 DEF BackingOff
  <1>5. CASE Cca!FoundBusy
    <2>1. /\ ~Cca!Clear /\ Climbing
          /\ n' = n + 1 /\ busy' = busy + 1 /\ phase' = (phase + n) % p
      BY <1>5 DEF Cca!FoundBusy, Cca!SleepFor, BackingOff
    <2>2. /\ j \in 0 .. p - 1
          /\ phase' = IF phase + j < p THEN phase + j ELSE phase + j - p
          /\ n' % p' = IF j + 1 < p THEN j + 1 ELSE 0
      <3>1. Moves(p, phase, n)
        BY <1>1, PauseMoves
      <3>2. /\ j \in 0 .. p - 1
            /\ (phase + n) % p = IF phase + j < p THEN phase + j ELSE phase + j - p
            /\ (n + 1) % p = IF j + 1 < p THEN j + 1 ELSE 0
        BY ONLY <3>1 DEF Moves
      <3> HIDE DEF j
      <3> QED BY <1>3, <2>1, <3>2
    <2>3. phase >= g
      <3>1. ~ phase * Share < p
        BY <2>1 DEF Cca!Clear
      <3> QED BY <1>1, <1>2, <3>1
    <2>4. j <= busy => /\ busy <= p - 1 + j
                       /\ j >= 1 => j <= g /\ 2 * phase >= 2 * g + j * (j - 1)
      BY <2>1 DEF Climbing
    <2> DEFINE k == n' % p'
    <2> HIDE DEF j, g, k
    <2>5. phase' \in 0 .. p - 1
      BY <1>1, <2>2
    <2>6. busy' \in Nat /\ busy' <= 2 * p
      BY <1>1, <2>1, <2>2, <2>4
    <2>7. ASSUME ~Cca!Clear', k <= busy'
          PROVE  /\ busy' <= p - 1 + k
                 /\ k >= 1 => k <= g /\ 2 * phase' >= 2 * g + k * (k - 1)
      <3>1. phase' >= g
        <4>1. ~ phase' * Share < p
          BY <1>3, <2>7 DEF Cca!Clear
        <4>2. phase' \in Nat
          BY <1>1, <2>5
        <4>3. phase' * Share < p <=> phase' < g
          BY <1>2, <4>2
        <4> QED BY <1>2, <4>1, <4>2, <4>3
      <3>2. CASE j = 0
        <4>1. phase' = phase /\ (k = 0 \/ k = 1)
          BY <1>1, <2>2, <3>2 DEF k
        <4>2. k * (k - 1) = 0
          BY <4>1
        <4>3. busy' <= p - 1 + k
          <5>1. k = 1 \/ p = 1
            BY <1>1, <2>2, <3>2 DEF k
          <5>2. p # 1
            BY <1>1, <1>2, <2>3
          <5> QED BY <1>1, <2>1, <2>4, <3>2, <5>1, <5>2
        <4> QED BY <1>1, <1>2, <2>3, <4>1, <4>2, <4>3
      <3>3. CASE j >= 1 /\ j <= busy
        <4>1. j <= g /\ 2 * phase >= 2 * g + j * (j - 1) /\ busy <= p - 1 + j
          BY <2>4, <3>3
        <4>2. phase' = phase + j
          BY <1>1, <1>2, <2>2, <3>1, <4>1
        <4>3. j \in Nat /\ j * (j - 1) + 2 * j = (j + 1) * j /\ j * (j - 1) \in Int
          BY <1>1, <2>2
        <4>4. 2 * phase' >= 2 * g + (j + 1) * j
          BY <1>1, <1>2, <4>1, <4>2, <4>3
        <4>5. j # g
          <5>1. ASSUME j = g PROVE FALSE
            <6>1. (j + 1) * j = g * (g + 1)
              BY <1>2, <5>1
            <6>2. g * (g + 1) \in Int /\ phase' \in Int /\ phase' < p
              BY <1>1, <1>2, <2>5
            <6> QED BY <1>1, <1>2, <4>4, <6>1, <6>2
          <5> QED BY <5>1
        <4>6. j + 1 < p
          BY <1>1, <1>2, <2>3, <2>5, <4>2, <4>3
        <4>7. k = j + 1 /\ k - 1 = j
          BY <2>2, <4>3, <4>6 DEF k
        <4> QED BY <1>1, <1>2, <2>1, <4>1, <4>3, <4>4, <4>5, <4>7
      <3>4. CASE j > busy
        <4>1. k = 0
          BY <1>1, <2>1, <2>2, <2>7, <3>4 DEF k
        <4> QED BY <1>1, <2>1, <2>2, <3>4, <4>1
      <3> QED BY <1>1, <2>2, <3>2, <3>3, <3>4
    <2>8. ~Cca!Clear' => Climbing'
      BY <1>3, <2>7 DEF Climbing, k, g
    <2>9. period' \in Periods /\ phase' \in 0 .. period' - 1 /\ n' \in Nat
      BY <1>1, <1>3, <2>1, <2>5
    <2> QED BY <1>3, <2>6, <2>8, <2>9 DEF BackingOff
  <1> QED BY <1>4, <1>5 DEF Cca!Next

(* The growing back-off finds a gap that is wide enough, whatever the      *)
(* initial back-off, the pause after a frame and the time of the first     *)
(* attempt, in fewer attempts than twice the period has milliseconds.      *)
THEOREM BackOffFindsTheGap == Spec => [](WideGap => GetsThrough)
  <1> DEFINE Inv == app = "cca" /\ WideGap => BackingOff
  <1>1. Init => Inv
    BY BackingOffStart DEF Init
  <1>2. Inv /\ [Next]_vars => Inv'
    <2> SUFFICES ASSUME Inv, [Next]_vars, app' = "cca", WideGap' PROVE BackingOff'
      OBVIOUS
    <2>1. CASE Runs("cca", <<stsVars, aesVars, blinkVars, trimVars, hostVars>>) /\ Cca!Next
      <3>1. app = "cca" /\ WideGap
        BY <2>1 DEF Runs, WideGap, Cca!Next, Cca!Sent, Cca!FoundBusy, Cca!SleepFor
      <3> QED BY <2>1, <3>1, BackingOffStep
    <2>2. CASE UNCHANGED <<app, ccaVars>>
      BY <2>2 DEF ccaVars, BackingOff, Climbing, WideGap, Cca!Clear
    <2> QED BY <2>1, <2>2 DEF Next, Runs, vars
  <1>3. Inv => (WideGap => GetsThrough)
    BY DEF GetsThrough, Cca!GetsThrough, BackingOff
  <1> QED BY <1>1, <1>2, <1>3, PTL DEF Spec
-----------------------------------------------------------------------------
(* The waits. At each point of each loop the chip does one of few things   *)
(* and the flags that are up are known as far as they matter. The other    *)
(* loops leave no flag of a reception up; those with STS do, and clear all *)
(* of them when the receiver is started.                                   *)
AskingPoll(n) == IF proto = "ds" THEN Asking(n) ELSE Sending(n)

StsPhases ==
  /\ proto \in {"ds", "ss", "nd"}
  /\ pc["I"] \in {"sleep", "waitPoll", "waitResp", "waitTx", "waitReport"}
  /\ pc["I"] = "sleep" => Asleep("I")
  /\ pc["I"] = "waitPoll" => AskingPoll("I")
  /\ pc["I"] = "waitTx" => Sending("I")
  /\ pc["I"] \in {"waitResp", "waitReport"} => Hearing("I")
  /\ pc["R"] \in {"sleep", "listen", "waitPoll", "waitFinal", "waitRepTx"}
  /\ pc["R"] = "sleep" => Off("R") /\ "TXFRS" \notin status["R"]
  /\ pc["R"] = "waitPoll" => AskingPoll("R")
  /\ pc["R"] = "waitRepTx" => Sending("R")
  /\ pc["R"] \in {"listen", "waitFinal"} => Hearing("R")

(* A receiver that answers with a transmission of its own.                 *)
ReceiverPhases ==
  /\ pc["R"] \in {"sleep", "waitData", "waitTx", "stopped"}
  /\ Untimed("R")
  /\ pc["R"] = "sleep" => Clean("R")
  /\ pc["R"] = "waitData" => Listening("R")
  /\ pc["R"] = "waitTx" => TxWait("R")

AesPhases ==
  /\ pc["I"] \in {"sleep", "waitResp", "stopped"}
  /\ pc["I"] = "sleep" => Asleep("I")
  /\ pc["I"] = "waitResp" => RxWait("I")
  /\ ReceiverPhases

(* A sender whose chip is put to sleep by the host finds it without flags  *)
(* afterwards; one whose chip goes to sleep by itself does not wait.       *)
BlinkPhases ==
  /\ pair \in Blink!Pairs
  /\ pc["I"] \in {"sleep", pair.tx.wait}
  /\ pair.tx.wait = "waitTx" =>
       /\ pc["I"] = "sleep" => Off("I") /\ (asleep \/ "TXFRS" \notin status["I"])
       /\ pc["I"] = "waitTx" => Sending("I")
  /\ pair.tx.wait = "waitResp" =>
       /\ pc["I"] = "sleep" => Asleep("I")
       /\ pc["I"] = "waitResp" => RxWait("I")
  /\ ReceiverPhases

(* The receiver's chip acknowledges by itself.                             *)
LePhases ==
  /\ pc["I"] \in {"sleep", "waitTx", "waitAck"}
  /\ pc["I"] = "sleep" => Clean("I")
  /\ pc["I"] = "waitTx" => Asking("I")
  /\ pc["I"] = "waitAck" => Hearing("I")
  /\ pc["R"] \in {"sleep", "listen", "waitTx"}
  /\ mode["R"] = "tx" => ~w4r["R"]
  /\ pc["R"] = "sleep" => mode["R"] = "idle" /\ status["R"] = {}
  /\ pc["R"] = "listen" =>
       \/ mode["R"] = "rx" /\ status["R"] = {}
       \/ mode["R"] = "tx" /\ status["R"] = {"RXFCG"}
       \/ mode["R"] = "idle" /\ status["R"] \in {{"RXFCG", "TXFRS"}, {"RXERR"}}
  /\ pc["R"] = "waitTx" =>
       \/ mode["R"] = "tx" /\ status["R"] = {}
       \/ mode["R"] = "idle" /\ status["R"] = {"TXFRS"}

Phases ==
  /\ Shape
  /\ app = "sts"   => StsPhases
  /\ app = "aes"   => AesPhases
  /\ app = "blink" => BlinkPhases
  /\ app = "le"    => LePhases
  /\ app \in {"cca", "trim"} => pc = [n \in Node |-> "sleep"]

LEMMA PhasesStart == Init => Phases
  <1> SUFFICES ASSUME Init PROVE Phases
    OBVIOUS
  <1>1. app \in Apps
    BY DEF Init
  <1>2. /\ pc = [n \in Node |-> "sleep"] /\ mode = [n \in Node |-> "idle"]
        /\ w4r = [n \in Node |-> FALSE] /\ status = [n \in Node |-> {}] /\ air = {}
    <2> USE DEF Init, Node
    <2>1. CASE app = "sts"
      BY <2>1 DEF Sts!Init, Sts!LinkInit, Sts!HostInit, Sts!Node
    <2>2. CASE app = "aes"
      BY <2>2 DEF Aes!Init, Aes!LinkInit, Aes!HostInit, Aes!Node
    <2>3. CASE app = "blink"
      BY <2>3 DEF Blink!Init, Blink!LinkInit, Blink!HostInit, Blink!Node
    <2>4. CASE app = "le"
      BY <2>4 DEF Le!Init, Le!LinkInit, Le!HostInit, Le!Node
    <2>5. CASE app \in {"cca", "trim"}
      BY <2>5 DEF LinkInit, HostInit
    <2> QED BY <1>1, <2>1, <2>2, <2>3, <2>4, <2>5 DEF Apps
  <1>3. app = "sts" => proto \in {"ds", "ss", "nd"}
    BY DEF Init, Sts!Init, Sts!Protos
  <1>4. app = "aes" => rxTo["R"] = 0
    BY DEF Init, Aes!Init, Aes!Node
  <1>5. app = "blink" => rxTo["R"] = 0 /\ pair \in Blink!Pairs
    BY DEF Init, Blink!Init, Blink!Node
  <1>6. /\ \A n \in Node : Asleep(n) /\ Clean(n) /\ Off(n) /\ pc[n] = "sleep"
        /\ Shape /\ status["R"] = {} /\ w4r["R"] = FALSE
    BY <1>2 DEF Shape, RxMask, Flags, Modes, Points, Asleep, NoRxFlag, Clean, Off, Node
  <1> QED
    BY <1>2, <1>3, <1>4, <1>5, <1>6
       DEF Phases, StsPhases, AesPhases, BlinkPhases, LePhases, ReceiverPhases, Untimed, Off,
           Clean, Asleep, Node

(* The radio of each pair of examples is the one of the lemmas.            *)
LEMMA SameRadio ==
  ASSUME NEW K
  PROVE  /\ Sts!Hardware \/ Sts!Interference(K) => Hardware \/ Interference(K)
         /\ Aes!Hardware \/ Aes!Interference(K) => Hardware \/ Interference(K)
         /\ Blink!Hardware \/ Blink!Interference(K) => Hardware \/ Interference(K)
  <1> USE DEF Hardware, Interference, Transmit, OpenRx, RxTimeout, Receive, Miss, Corrupt,
              Interfere, EndRx, Fault, Peer, Node, Frame, NoFrame, chipVars
  <1>1. Sts!Hardware \/ Sts!Interference(K) => Hardware \/ Interference(K)
    BY ZenonT(60)
       DEF Sts!Hardware, Sts!Interference, Sts!Transmit, Sts!OpenRx, Sts!RxTimeout, Sts!Receive,
           Sts!Miss, Sts!Corrupt, Sts!Interfere, Sts!EndRx, Sts!Fault, Sts!Peer, Sts!Node,
           Sts!Frame, Sts!NoFrame, Sts!chipVars
  <1>2. Aes!Hardware \/ Aes!Interference(K) => Hardware \/ Interference(K)
    BY ZenonT(60)
       DEF Aes!Hardware, Aes!Interference, Aes!Transmit, Aes!OpenRx, Aes!RxTimeout, Aes!Receive,
           Aes!Miss, Aes!Corrupt, Aes!Interfere, Aes!EndRx, Aes!Fault, Aes!Peer, Aes!Node,
           Aes!Frame, Aes!NoFrame, Aes!chipVars
  <1>3. Blink!Hardware \/ Blink!Interference(K) => Hardware \/ Interference(K)
    BY ZenonT(60)
       DEF Blink!Hardware, Blink!Interference, Blink!Transmit, Blink!OpenRx, Blink!RxTimeout,
           Blink!Receive, Blink!Miss, Blink!Corrupt, Blink!Interfere, Blink!EndRx, Blink!Fault,
           Blink!Peer, Blink!Node, Blink!Frame, Blink!NoFrame, Blink!chipVars
  <1> QED BY <1>1, <1>2, <1>3

(* Ranging with STS. The receiver is started without any flag of an        *)
(* earlier reception, also where the loops leave one up.                   *)
LEMMA StsInitiatorSteps ==
  ASSUME Shape, StsPhases, Sts!Initiator
  PROVE  Shape' /\ StsPhases'
  <1> USE DEF Shape, StsPhases, AskingPoll, Asking, Sending, Hearing, Asleep, Off, RxWait,
              NoRxFlag, OneRxFlag, RxMask, Flags, Modes, Node, Points, TxPoints, DataPoints,
              RespPoints, Sts!Rest
  <1>n. Sts!Noticed("I") => /\ pc["I"] \in {"waitPoll", "waitTx"} => "TXFRS" \in status["I"]
                            /\ pc["I"] \in {"waitResp", "waitReport"} => ~NoRxFlag("I")
    BY DEF Sts!Noticed, Sts!Awaited, Sts!TxPoints, Sts!DataPoints, Sts!RespPoints, Sts!RxMask
  <1>1. CASE Sts!SendPoll
    BY <1>1 DEF Sts!SendPoll, Sts!Awake, Sts!Rested, Sts!StartTxNow, Sts!StartTx, Sts!Goto
  <1>2. CASE Sts!PollSent
    <2>1. CASE proto = "ds"
      BY <1>n, <1>2, <2>1 DEF Sts!PollSent, Sts!ClearFlags, Sts!Goto
    <2>2. CASE proto # "ds"
      BY <1>n, <1>2, <2>2
         DEF Sts!PollSent, Sts!EnableAfterTx, Sts!EnableFresh, Sts!RxMask, Sts!Goto
    <2> QED BY <2>1, <2>2
  <1>3. CASE Sts!RecvResponseDs
    BY <1>3 DEF Sts!RecvResponseDs, Sts!GotResponse, Sts!GoodFrame, Sts!StartTxAt, Sts!StartTx,
                Sts!RxFlags, Sts!RxMask, Sts!Goto
  <1>4. CASE Sts!RecvResponseLate
    BY <1>4 DEF Sts!RecvResponseLate, Sts!GotResponse, Sts!GoodFrame, Sts!FailTx, Sts!RxFlags,
                Sts!RxMask, Sts!Sleep
  <1>5. CASE Sts!FinalSent
    BY <1>n, <1>5 DEF Sts!FinalSent, Sts!ClearFlags, Sts!RxFlags, Sts!RxMask, Sts!Sleep
  <1>6. CASE Sts!RecvResponseSs
    BY <1>6 DEF Sts!RecvResponseSs, Sts!GotResponse, Sts!GoodFrame, Sts!ClearFlags, Sts!RxFlags,
                Sts!RxMask, Sts!Sleep
  <1>7. CASE Sts!RecvResponseNd
    BY <1>7 DEF Sts!RecvResponseNd, Sts!GotResponse, Sts!GoodFrame, Sts!EnableAfterTx,
                Sts!EnableFresh, Sts!RxMask, Sts!Goto
  <1>8. CASE Sts!RecvReport
    BY <1>8 DEF Sts!RecvReport, Sts!GotReport, Sts!ClearFlags, Sts!RxFlags, Sts!RxMask, Sts!Sleep
  <1>9. CASE Sts!InitiatorFailed
    BY <1>n, <1>9 DEF Sts!InitiatorFailed, Sts!ClearFlags, Sts!RxFlags, Sts!RxMask, Sts!Sleep
  <1> QED
    BY <1>1, <1>2, <1>3, <1>4, <1>5, <1>6, <1>7, <1>8, <1>9 DEF Sts!Initiator

LEMMA StsResponderSteps ==
  ASSUME Shape, StsPhases, Sts!Responder
  PROVE  Shape' /\ StsPhases'
  <1> USE DEF Shape, StsPhases, AskingPoll, Asking, Sending, Hearing, Asleep, Off, RxWait,
              NoRxFlag, OneRxFlag, RxMask, Flags, Modes, Node, Points, TxPoints, DataPoints,
              RespPoints, Sts!Rest
  <1>n. Sts!Noticed("R") => /\ pc["R"] \in {"waitPoll", "waitRepTx"} => "TXFRS" \in status["R"]
                            /\ pc["R"] \in {"listen", "waitFinal"} => ~NoRxFlag("R")
    BY DEF Sts!Noticed, Sts!Awaited, Sts!TxPoints, Sts!DataPoints, Sts!RespPoints, Sts!RxMask
  <1>1. CASE Sts!Listen
    BY <1>1 DEF Sts!Listen, Sts!Awake, Sts!Rested, Sts!EnableFresh, Sts!RxMask, Sts!Goto
  <1>2. CASE Sts!RecvPoll
    <2>1. /\ pc["R"] \in {"listen", "waitFinal"} /\ pc' = [pc EXCEPT !["R"] = "waitPoll"]
          /\ mode' = [mode EXCEPT !["R"] = "tx"] /\ w4r' = [w4r EXCEPT !["R"] = proto = "ds"]
          /\ status' = [status EXCEPT !["R"] = @ \ Sts!PollCleared]
          /\ "RXFCG" \in status["R"] /\ UNCHANGED <<air, rxTo, proto>>
      BY <1>2 DEF Sts!RecvPoll, Sts!GotPoll, Sts!Hearing, Sts!GoodFrame, Sts!StartTxAt,
                  Sts!StartTx, Sts!Goto
    <2>2. CASE proto = "ds"
      <3>1. NoRxFlag("R")' /\ "TXFRS" \notin status'["R"] /\ status' \in [Node -> SUBSET Flags]
        BY <2>1, <2>2 DEF Sts!PollCleared
      <3> QED BY <2>1, <2>2, <3>1, ZenonT(30)
    <2>3. CASE proto # "ds"
      <3>1. "TXFRS" \notin status'["R"] /\ status' \in [Node -> SUBSET Flags]
        BY <2>1, <2>3 DEF Sts!PollCleared
      <3> QED BY <2>1, <2>3, <3>1
    <2> QED BY <2>2, <2>3
  <1>3. CASE Sts!RecvPollLate
    BY <1>3 DEF Sts!RecvPollLate, Sts!GotPoll, Sts!Hearing, Sts!GoodFrame, Sts!FailTx,
                Sts!PollCleared, Sts!Sleep
  <1>4. CASE Sts!ResponseSentDs
    BY <1>n, <1>4 DEF Sts!ResponseSentDs, Sts!ClearFlags, Sts!Goto
  <1>5. CASE Sts!ResponseSentSs
    BY <1>n, <1>5 DEF Sts!ResponseSentSs, Sts!ClearFlags, Sts!Sleep
  <1>6. CASE Sts!ResponseSentNd
    BY <1>n, <1>6 DEF Sts!ResponseSentNd, Sts!StartTxAt, Sts!StartTx, Sts!Goto
  <1>7. CASE Sts!ReportLate
    BY <1>n, <1>7 DEF Sts!ReportLate, Sts!FailTx, Sts!Sleep
  <1>8. CASE Sts!ReportSent
    BY <1>n, <1>8 DEF Sts!ReportSent, Sts!ClearFlags, Sts!Sleep
  <1>9. CASE Sts!RecvFinal
    BY <1>9 DEF Sts!RecvFinal, Sts!GotFinal, Sts!Hearing, Sts!GoodFrame, Sts!ClearFlags,
                Sts!Sleep
  <1>10. CASE Sts!ResponderFailed
    BY <1>n, <1>10 DEF Sts!ResponderFailed, Sts!Hearing, Sts!ClearFlags, Sts!Sleep
  <1> QED
    BY <1>1, <1>2, <1>3, <1>4, <1>5, <1>6, <1>7, <1>8, <1>9, <1>10 DEF Sts!Responder

(* Ranging with encrypted frames.                                          *)
LEMMA AesSteps ==
  ASSUME Shape, AesPhases, Aes!Initiator \/ Aes!Responder
  PROVE  Shape' /\ AesPhases'
  <1> USE DEF Shape, AesPhases, ReceiverPhases, Listening, Hearing, Clean, Asleep, Untimed,
              RxWait, TxWait, NoRxFlag, OneRxFlag, RxMask, Flags, Modes, Node, Points, TxPoints,
              DataPoints, RespPoints, Aes!Rest
  <1>i. Aes!Noticed("I") /\ pc["I"] = "waitResp" => ~NoRxFlag("I")
    BY DEF Aes!Noticed, Aes!Awaited, Aes!TxPoints, Aes!DataPoints, Aes!RespPoints, Aes!RxMask
  <1>r. Aes!Noticed("R") => /\ pc["R"] = "waitTx" => "TXFRS" \in status["R"]
                            /\ pc["R"] = "waitData" => ~NoRxFlag("R")
    BY DEF Aes!Noticed, Aes!Awaited, Aes!TxPoints, Aes!DataPoints, Aes!RespPoints, Aes!RxMask
  <1>1. CASE Aes!SendPoll
    BY <1>1 DEF Aes!SendPoll, Aes!Awake, Aes!Rested, Aes!StartTxNow, Aes!StartTx, Aes!Goto
  <1>2. CASE Aes!RecvResponse \/ Aes!IgnoreFrame
    BY <1>2 DEF Aes!RecvResponse, Aes!IgnoreFrame, Aes!InitiatorGotFrame, Aes!ClearFlags,
                Aes!Sleep
  <1>3. ASSUME NEW n \in Node, Aes!StopOnFrame(n) PROVE Shape' /\ AesPhases'
    BY <1>3 DEF Aes!StopOnFrame, Aes!ClearFlags, Aes!Goto
  <1>4. CASE Aes!ResponseFailed
    BY <1>i, <1>4 DEF Aes!ResponseFailed, Aes!ClearFlags, Aes!Sleep
  <1>5. CASE Aes!Listen
    BY <1>5 DEF Aes!Listen, Aes!Awake, Aes!Rested, Aes!EnableRx, Aes!Goto
  <1>6. CASE Aes!RecvPoll
    BY <1>6 DEF Aes!RecvPoll, Aes!GotPoll, Aes!ResponderGotFrame, Aes!StartTxAt, Aes!StartTx,
                Aes!Goto
  <1>7. CASE Aes!RecvPollLate
    BY <1>7 DEF Aes!RecvPollLate, Aes!GotPoll, Aes!ResponderGotFrame, Aes!FailTx, Aes!Sleep
  <1>8. CASE Aes!ResponseSent
    BY <1>r, <1>8 DEF Aes!ResponseSent, Aes!ClearFlags, Aes!Sleep
  <1>9. CASE Aes!IgnoreNoPoll
    BY <1>9 DEF Aes!IgnoreNoPoll, Aes!ResponderGotFrame, Aes!ClearFlags, Aes!Sleep
  <1>10. CASE Aes!PollFailed
    BY <1>r, <1>10 DEF Aes!PollFailed, Aes!ClearFlags, Aes!Sleep
  <1> QED
    BY <1>1, <1>2, <1>3, <1>4, <1>5, <1>6, <1>7, <1>8, <1>9, <1>10
       DEF Aes!Initiator, Aes!Responder

(* Frames at intervals. A sender waits either for the end of a             *)
(* transmission that no response follows, or for the response.             *)
LEMMA PairsFit ==
  ASSUME pair \in Blink!Pairs
  PROVE  /\ pair.tx.wait \in {"sleep", "waitTx", "waitResp"} /\ pair.tx.answered \in BOOLEAN
         /\ pair.tx.wait = "waitTx" => /\ ~pair.tx.answered
                                       /\ pair.tx.sleeps # "itself"
                                       /\ pair.tx.sleeps = "host" \/ pair.tx.clears = {"TXFRS"}
         /\ pair.tx.wait = "waitResp" => pair.tx.answered /\ pair.tx.sleeps = "never"
  <1> DEFINE Good(t) ==
        /\ t.wait \in {"sleep", "waitTx", "waitResp"} /\ t.answered \in BOOLEAN
        /\ t.wait = "waitTx" => /\ ~t.answered /\ t.sleeps # "itself"
                                /\ t.sleeps = "host" \/ t.clears = {"TXFRS"}
        /\ t.wait = "waitResp" => t.answered /\ t.sleeps = "never"
  <1>1. /\ Good(Blink!simple_tx) /\ Good(Blink!simple_tx_sts_sdc) /\ Good(Blink!simple_tx_pdoa)
        /\ Good(Blink!simple_tx_aes) /\ Good(Blink!tx_sleep) /\ Good(Blink!tx_sleep_idleRC)
        /\ Good(Blink!tx_sleep_auto) /\ Good(Blink!tx_wait_resp)
    BY DEF Blink!simple_tx, Blink!simple_tx_sts_sdc, Blink!simple_tx_pdoa, Blink!simple_tx_aes,
           Blink!tx_sleep, Blink!tx_sleep_idleRC, Blink!tx_sleep_auto, Blink!tx_wait_resp,
           Blink!TxLoop
  <1>2. pair.tx \in {Blink!simple_tx, Blink!simple_tx_sts_sdc, Blink!simple_tx_pdoa,
                     Blink!simple_tx_aes, Blink!tx_sleep, Blink!tx_sleep_idleRC,
                     Blink!tx_sleep_auto, Blink!tx_wait_resp}
    BY DEF Blink!Pairs, Blink!Pair
  <1>3. Good(pair.tx)
    <2> HIDE DEF Good
    <2> QED BY <1>1, <1>2
  <1> QED BY <1>3

LEMMA BlinkSteps ==
  ASSUME Shape, BlinkPhases, Blink!Sender \/ Blink!Receiver
  PROVE  Shape' /\ BlinkPhases'
  <1> USE DEF Shape, BlinkPhases, ReceiverPhases, Listening, Hearing, Clean, Asleep, Untimed,
              Off, Sending, RxWait, TxWait, NoRxFlag, OneRxFlag, RxMask, Flags, Modes, Node,
              Points, TxPoints, DataPoints, RespPoints, Blink!Rest
  <1>f. /\ pair.tx.wait \in {"sleep", "waitTx", "waitResp"} /\ pair.tx.answered \in BOOLEAN
        /\ pair.tx.wait = "waitTx" => /\ ~pair.tx.answered
                                      /\ pair.tx.sleeps # "itself"
                                      /\ pair.tx.sleeps = "host" \/ pair.tx.clears = {"TXFRS"}
        /\ pair.tx.wait = "waitResp" => pair.tx.answered /\ pair.tx.sleeps = "never"
    BY PairsFit
  <1>i. Blink!Noticed("I") => /\ pc["I"] = "waitTx" => "TXFRS" \in status["I"]
                              /\ pc["I"] = "waitResp" => ~NoRxFlag("I")
    BY DEF Blink!Noticed, Blink!Awaited, Blink!TxPoints, Blink!DataPoints, Blink!RespPoints,
           Blink!RxMask
  <1>r. Blink!Noticed("R") => /\ pc["R"] = "waitTx" => "TXFRS" \in status["R"]
                              /\ pc["R"] = "waitData" => ~NoRxFlag("R")
    BY DEF Blink!Noticed, Blink!Awaited, Blink!TxPoints, Blink!DataPoints, Blink!RespPoints,
           Blink!RxMask
  <1>1. CASE Blink!Send
    BY <1>f, <1>1 DEF Blink!Send, Blink!Awake, Blink!Rested, Blink!StartTxNow, Blink!StartTx,
                      Blink!Goto, Blink!Sleep
  <1>2. CASE Blink!Sent
    BY <1>f, <1>i, <1>2 DEF Blink!Sent, Blink!ClearFlags, Blink!Sleep
  <1>3. CASE Blink!WakeUp
    BY <1>f, <1>3 DEF Blink!WakeUp, Blink!Awake, Blink!Rested, Blink!ClearFlags, Blink!Flags,
                      Blink!RxMask, Blink!Sleep
  <1>4. CASE Blink!Answered
    BY <1>f, <1>4 DEF Blink!Answered, Blink!ClearFlags, Blink!Sleep
  <1>5. CASE Blink!NotAnswered
    BY <1>f, <1>i, <1>5 DEF Blink!NotAnswered, Blink!ClearFlags, Blink!Sleep
  <1>6. CASE Blink!Listen
    BY <1>6 DEF Blink!Listen, Blink!Awake, Blink!Rested, Blink!EnableRx, Blink!Goto
  <1>7. CASE Blink!Answer
    BY <1>7 DEF Blink!Answer, Blink!GotFrame, Blink!StartTxNow, Blink!StartTx, Blink!Goto
  <1>8. CASE Blink!Show
    BY <1>8 DEF Blink!Show, Blink!GotFrame, Blink!ClearFlags, Blink!Sleep
  <1>9. CASE Blink!Stop
    BY <1>9 DEF Blink!Stop, Blink!GotFrame, Blink!ClearFlags, Blink!Goto
  <1>10. CASE Blink!AnswerSent
    BY <1>r, <1>10 DEF Blink!AnswerSent, Blink!ClearFlags, Blink!Sleep
  <1>11. CASE Blink!NoFrameGot
    BY <1>r, <1>11 DEF Blink!NoFrameGot, Blink!ClearFlags, Blink!Sleep
  <1> QED
    BY <1>1, <1>2, <1>3, <1>4, <1>5, <1>6, <1>7, <1>8, <1>9, <1>10, <1>11
       DEF Blink!Sender, Blink!Receiver

(* Low-energy acknowledgment: the hosts ...                                *)
LEMMA LeSteps ==
  ASSUME Shape, LePhases, Le!Sender \/ Le!Receiver
  PROVE  Shape' /\ LePhases'
  <1> USE DEF Shape, LePhases, Asking, Hearing, Clean, Asleep, RxWait, NoRxFlag, OneRxFlag,
              RxMask, Flags, Modes, Node, Points, TxPoints, DataPoints, RespPoints, Le!Rest
  <1>i. Le!Noticed("I") => /\ pc["I"] = "waitTx" => "TXFRS" \in status["I"]
                           /\ pc["I"] = "waitAck" => ~NoRxFlag("I")
    BY DEF Le!Noticed, Le!Awaited, Le!TxPoints, Le!DataPoints, Le!RespPoints, Le!RxMask
  <1>r. Le!Noticed("R") => /\ pc["R"] = "waitTx" => "TXFRS" \in status["R"]
                           /\ pc["R"] = "listen" => ~NoRxFlag("R")
    BY DEF Le!Noticed, Le!Awaited, Le!TxPoints, Le!DataPoints, Le!RespPoints, Le!RxMask
  <1>1. CASE Le!Send
    BY <1>1 DEF Le!Send, Le!Awake, Le!Rested, Le!StartTxNow, Le!StartTx, Le!Goto
  <1>2. CASE Le!CommandSent
    BY <1>i, <1>2 DEF Le!CommandSent, Le!ClearFlags, Le!Goto
  <1>3. CASE Le!AckReceived
    BY <1>3 DEF Le!AckReceived, Le!ClearFlags, Le!Sleep
  <1>4. CASE Le!AckFailed
    BY <1>i, <1>4 DEF Le!AckFailed, Le!ClearFlags, Le!Sleep
  <1>5. CASE Le!Listen
    BY <1>5 DEF Le!Listen, Le!Awake, Le!Rested, Le!EnableRx, Le!Goto
  <1>6. CASE Le!CommandReceived
    BY <1>6 DEF Le!CommandReceived, Le!ClearFlags, Le!Goto
  <1>7. CASE Le!AckSent
    BY <1>r, <1>7 DEF Le!AckSent, Le!ClearFlags, Le!Sleep
  <1>8. CASE Le!CommandFailed
    BY <1>r, <1>8 DEF Le!CommandFailed, Le!ClearFlags, Le!Sleep
  <1> QED
    BY <1>1, <1>2, <1>3, <1>4, <1>5, <1>6, <1>7, <1>8 DEF Le!Sender, Le!Receiver

(* ... and the chips, of which the receiver's answers by itself.           *)
LEMMA LeRadioSteps ==
  ASSUME Shape, LePhases, Le!Chips \/ Le!Interference({"bad"}), UNCHANGED pc
  PROVE  Shape' /\ LePhases'
  <1> USE DEF Shape, LePhases, Asking, Hearing, Clean, Asleep, RxWait, NoRxFlag, OneRxFlag,
              RxMask, Flags, Modes, Node, Points, TxPoints, DataPoints, RespPoints
  <1>1. ASSUME NEW n \in Node, Le!Transmit(n) PROVE Shape' /\ LePhases'
    <2>1. CASE n = "I"
      BY <1>1, <2>1 DEF Le!Transmit, Le!Peer
    <2>2. CASE n = "R"
      BY <1>1, <2>2 DEF Le!Transmit, Le!Peer
    <2> QED BY <2>1, <2>2
  <1>2. ASSUME NEW n \in Node, Le!OpenRx(n) PROVE Shape' /\ LePhases'
    BY <1>2 DEF Le!OpenRx
  <1>3. ASSUME NEW m \in air, Le!AutoAck(m) PROVE Shape' /\ LePhases'
    BY <1>3 DEF Le!AutoAck
  <1>4. ASSUME NEW m \in air, Le!Miss(m) PROVE Shape' /\ LePhases'
    BY <1>4 DEF Le!Miss, Le!chipVars
  <1>5. ASSUME NEW m \in air, Le!Corrupt(m) PROVE Shape' /\ LePhases'
    <2>1. m.to \in Node
      OBVIOUS
    <2>2. CASE m.to = "I"
      BY <1>5, <2>2 DEF Le!Corrupt, Le!EndRx
    <2>3. CASE m.to = "R"
      BY <1>5, <2>3 DEF Le!Corrupt, Le!EndRx
    <2> QED BY <2>1, <2>2, <2>3
  <1>6. ASSUME NEW m \in air, m.to = "I", Le!Receive(m) PROVE Shape' /\ LePhases'
    BY <1>6 DEF Le!Receive, Le!EndRx
  <1>7. ASSUME NEW n \in Node, Le!Interfere(n, "bad") PROVE Shape' /\ LePhases'
    <2>2. CASE n = "I"
      BY <1>7, <2>2 DEF Le!Interfere, Le!EndRx
    <2>3. CASE n = "R"
      BY <1>7, <2>3 DEF Le!Interfere, Le!EndRx
    <2> QED BY <2>2, <2>3
  <1> QED
    BY <1>1, <1>2, <1>3, <1>4, <1>5, <1>6, <1>7 DEF Le!Chips, Le!Interference, Le!Node

(* What the air and the chips do keeps every phase: of the pairs whose     *)
(* radio is the one of the lemmas ...                                      *)
LEMMA RadioSteps ==
  ASSUME NEW K, Phases, Hardware \/ Interference(K), UNCHANGED <<pc, proto, pair>>,
         asleep \in BOOLEAN, asleep' = asleep \/ asleep' = (asleep \/ Blink!DozesOff)
  PROVE  /\ Shape'
         /\ app = "sts"   => StsPhases'
         /\ app = "aes"   => AesPhases'
         /\ app = "blink" => BlinkPhases'
  <1>1. /\ Shape' /\ rxTo' = rxTo
        /\ \A n \in Node :
             /\ Sending(n) => Sending(n)'
             /\ Asking(n) => Asking(n)'
             /\ RxWait(n) => RxWait(n)'
             /\ TxWait(n) => TxWait(n)'
             /\ Untimed(n) => Untimed(n)'
             /\ Hearing(n) => Hearing(n)'
             /\ Listening(n) => Listening(n)'
             /\ Off(n) => mode'[n] = mode[n] /\ status'[n] = status[n]
    BY RadioKeeps DEF Phases
  <1>2. "I" \in Node /\ "R" \in Node
    BY DEF Node
  <1>3. \A n \in Node : /\ Asleep(n) => Asleep(n)'
                        /\ Clean(n) => Clean(n)'
    BY <1>1 DEF Asleep, Clean, Off, NoRxFlag
  <1>4. app = "sts" => StsPhases'
    BY <1>1, <1>2, <1>3 DEF Phases, StsPhases, AskingPoll, Off
  <1>5. ReceiverPhases => ReceiverPhases'
    BY <1>1, <1>2, <1>3 DEF ReceiverPhases
  <1>6. app = "aes" => AesPhases'
    BY <1>1, <1>2, <1>3, <1>5 DEF Phases, AesPhases
  <1>7. app = "blink" => BlinkPhases'
    <2> SUFFICES ASSUME BlinkPhases PROVE BlinkPhases'
      BY DEF Phases
    <2>1. asleep => asleep'
      OBVIOUS
    <2>2. pair.tx.wait = "waitTx" /\ pc["I"] = "sleep" =>
            Off("I")' /\ (asleep' \/ "TXFRS" \notin status'["I"])
      BY <1>1, <1>2, <2>1 DEF BlinkPhases, Off
    <2> QED BY <1>1, <1>2, <1>3, <1>5, <2>2 DEF BlinkPhases
  <1> QED BY <1>1, <1>4, <1>6, <1>7

(* ... and so does a tick, and a step of an example that uses no radio.    *)
LEMMA QuietSteps ==
  ASSUME Phases, LinkTick \/ UNCHANGED linkVars, UNCHANGED <<pc, proto, pair, asleep, app>>
  PROVE  Phases'
  <1>1. Shape' /\ UNCHANGED <<mode, w4r, status, rxTo>>
    BY RestKeeps DEF Phases
  <1> QED
    BY <1>1 DEF Phases, StsPhases, AesPhases, BlinkPhases, LePhases, ReceiverPhases, AskingPoll,
                Asking, Sending, Hearing, Listening, Asleep, Clean, Off, Untimed, RxWait, TxWait,
                NoRxFlag, OneRxFlag, Node

LEMMA PhasesStep == Phases /\ asleep \in BOOLEAN /\ [Next]_vars => Phases' /\ asleep' \in BOOLEAN
  <1> SUFFICES ASSUME Phases, asleep \in BOOLEAN, [Next]_vars
               PROVE  Phases' /\ asleep' \in BOOLEAN
    OBVIOUS
  <1>t. ASSUME UNCHANGED <<clock, chipVars, rxDly, rxTo, air, faults>> PROVE UNCHANGED linkVars
    BY <1>t DEF linkVars
  <1>1. CASE Runs("sts", <<aesVars, blinkVars, ccaVars, trimVars>>) /\ Sts!Next
    <2>1. app = "sts" /\ app' = app /\ UNCHANGED <<pair, asleep>> /\ Shape /\ StsPhases
      BY <1>1 DEF Runs, blinkVars, Phases
    <2>2. CASE Sts!Initiator
      BY <2>1, <2>2, StsInitiatorSteps DEF Phases
    <2>3. CASE Sts!Responder
      BY <2>1, <2>3, StsResponderSteps DEF Phases
    <2>4. CASE Sts!Radio
      <3>1. Hardware \/ Interference(Foreign)
        BY <2>4, SameRadio DEF Sts!Radio
      <3>2. UNCHANGED <<pc, proto>>
        BY <2>4 DEF Sts!Radio, Sts!pollVars
      <3> QED BY <2>1, <3>1, <3>2, RadioSteps DEF Phases
    <2>5. CASE Sts!Tick
      <3>1. LinkTick /\ UNCHANGED <<pc, proto>>
        BY <2>5 DEF Sts!Tick, Sts!HostTick, Sts!LinkTick, LinkTick, Sts!CountsDown, CountsDown,
                    Sts!Nearer, Nearer, Sts!Node, Node, Sts!stsVars, Sts!ownVars
      <3> QED BY <2>1, <3>1, QuietSteps
    <2> QED BY <1>1, <2>2, <2>3, <2>4, <2>5 DEF Sts!Next
  <1>2. CASE Runs("aes", <<stsVars, blinkVars, ccaVars, trimVars>>) /\ Aes!Next
    <2>1. app = "aes" /\ app' = app /\ UNCHANGED <<proto, pair, asleep>> /\ Shape /\ AesPhases
      BY <1>2 DEF Runs, blinkVars, stsVars, Phases
    <2>2. CASE Aes!Initiator \/ Aes!Responder
      BY <2>1, <2>2, AesSteps DEF Phases
    <2>4. CASE Aes!Radio
      <3>1. Hardware \/ Interference(Foreign)
        BY <2>4, SameRadio DEF Aes!Radio
      <3>2. UNCHANGED pc
        BY <2>4 DEF Aes!Radio, Aes!pollVars
      <3> QED BY <2>1, <3>1, <3>2, RadioSteps DEF Phases
    <2>5. CASE Aes!Tick
      <3>1. LinkTick /\ UNCHANGED pc
        BY <2>5 DEF Aes!Tick, Aes!HostTick, Aes!LinkTick, LinkTick, Aes!CountsDown, CountsDown,
                    Aes!Nearer, Nearer, Aes!Node, Node
      <3> QED BY <2>1, <3>1, QuietSteps
    <2> QED BY <1>2, <2>2, <2>4, <2>5 DEF Aes!Next
  <1>3. CASE Runs("blink", <<stsVars, aesVars, ccaVars, trimVars, result>>) /\ Blink!Next
    <2>1. app = "blink" /\ app' = app /\ UNCHANGED proto /\ Shape /\ BlinkPhases
      BY <1>3 DEF Runs, stsVars, Phases
    <2>2. CASE Blink!Sender \/ Blink!Receiver
      <3>1. asleep' \in BOOLEAN
        BY <2>2 DEF Blink!Sender, Blink!Receiver, Blink!Send, Blink!Sent, Blink!WakeUp,
                    Blink!Answered, Blink!NotAnswered, Blink!Listen, Blink!Answer, Blink!Show,
                    Blink!Stop, Blink!GotFrame, Blink!AnswerSent, Blink!NoFrameGot
      <3> QED BY <2>1, <2>2, <3>1, BlinkSteps DEF Phases
    <2>4. CASE Blink!Radio
      <3>1. Hardware \/ Interference(Foreign)
        BY <2>4, SameRadio DEF Blink!Radio
      <3>2. UNCHANGED <<pc, pair>> /\ asleep' = (asleep \/ Blink!DozesOff)
        BY <2>4 DEF Blink!Radio, Blink!pollVars
      <3>3. asleep' \in BOOLEAN
        BY <3>2 DEF Blink!DozesOff
      <3> QED BY <2>1, <3>1, <3>2, <3>3, RadioSteps DEF Phases
    <2>5. CASE Blink!Tick
      <3>1. LinkTick /\ UNCHANGED <<pc, pair, asleep>>
        BY <2>5 DEF Blink!Tick, Blink!HostTick, Blink!LinkTick, LinkTick, Blink!CountsDown,
                    CountsDown, Blink!Nearer, Nearer, Blink!Node, Node, Blink!blinkVars,
                    Blink!ownVars
      <3> QED BY <2>1, <3>1, QuietSteps
    <2> QED BY <1>3, <2>2, <2>4, <2>5 DEF Blink!Next
  <1>4. CASE Runs("le", <<stsVars, aesVars, blinkVars, ccaVars, trimVars, result>>) /\ Le!Next
    <2>1. app = "le" /\ app' = app /\ UNCHANGED <<proto, pair, asleep>> /\ Shape /\ LePhases
      BY <1>4 DEF Runs, stsVars, blinkVars, Phases
    <2>2. CASE Le!Sender \/ Le!Receiver
      BY <2>1, <2>2, LeSteps DEF Phases
    <2>4. CASE Le!Radio(Le!Chips \/ Le!Interference({"bad"}))
      BY <2>1, <2>4, LeRadioSteps DEF Le!Radio, Le!pollVars, Phases
    <2>5. CASE Le!Tick
      <3>1. LinkTick /\ UNCHANGED pc
        BY <2>5 DEF Le!Tick, Le!HostTick, Le!LinkTick, LinkTick, Le!CountsDown, CountsDown,
                    Le!Nearer, Nearer, Le!Node, Node
      <3> QED BY <2>1, <3>1, QuietSteps
    <2> QED BY <1>4, <2>2, <2>4, <2>5 DEF Le!Next
  <1>5. CASE Runs("cca", <<stsVars, aesVars, blinkVars, trimVars, hostVars>>) /\ Cca!Next
    BY <1>5, QuietSteps DEF Runs, hostVars, pollVars, stsVars, blinkVars
  <1>6. CASE Runs("trim", <<stsVars, aesVars, blinkVars, ccaVars, hostVars>>) /\ Trim!Next
    BY <1>6, QuietSteps DEF Runs, hostVars, pollVars, stsVars, blinkVars
  <1>7. CASE UNCHANGED vars
    BY <1>7, QuietSteps DEF vars, hostVars, pollVars, stsVars, blinkVars
  <1> QED BY <1>1, <1>2, <1>3, <1>4, <1>5, <1>6, <1>7 DEF Next

LEMMA PhasesAlways == Spec => [](Phases /\ app \in Apps)
  <1>1. Init => Phases /\ asleep \in BOOLEAN /\ app \in Apps
    BY PhasesStart DEF Init, Blink!Init, Blink!Idle
  <1>2. Phases /\ asleep \in BOOLEAN /\ app \in Apps /\ [Next]_vars
          => (Phases /\ asleep \in BOOLEAN /\ app \in Apps)'
    <2>1. [Next]_vars => app' = app
      BY DEF Next, Runs, vars
    <2> QED BY <2>1, PhasesStep
  <1> QED BY <1>1, <1>2, PTL DEF Spec

(* While a host waits, its chip is still at work or an awaited flag is up, *)
(* whichever pair of examples without interrupts runs.                     *)
THEOREM WaitsEnd == Spec => []WaitWillEnd
  <1>1. Phases /\ app \in Apps => WaitWillEnd
    <2> SUFFICES ASSUME Phases, app \in Apps PROVE WaitWillEnd
      OBVIOUS
    <2> USE DEF Phases, WaitWillEnd, Waiting, Noticed, Awaited, TxPoints, DataPoints, RespPoints,
                RxWait, OneRxFlag, NoRxFlag, RxMask, Node
    <2>1. CASE app = "sts"
      BY <2>1 DEF StsPhases, AskingPoll, Asking, Sending, Hearing
    <2>2. CASE app = "aes"
      BY <2>2 DEF AesPhases, ReceiverPhases, Listening, Hearing, Untimed, TxWait
    <2>3. CASE app = "blink"
      BY <2>3, PairsFit DEF BlinkPhases, ReceiverPhases, Listening, Hearing, Untimed, TxWait,
                            Sending
    <2>4. CASE app = "le"
      BY <2>4 DEF LePhases, Asking, Hearing
    <2>5. CASE app \in {"cca", "trim"}
      BY <2>5
    <2> QED BY <2>1, <2>2, <2>3, <2>4, <2>5 DEF Apps
  <1> QED BY <1>1, PhasesAlways, PTL

(* No wait is ended by a flag that an earlier operation left up, although  *)
(* the loops with STS leave flags of receptions up.                        *)
THEOREM NoStaleFlags == Spec => []NoStaleFlag
  <1>1. Phases /\ app \in Apps => NoStaleFlag
    <2> SUFFICES ASSUME Phases, app \in Apps PROVE NoStaleFlag
      OBVIOUS
    <2> USE DEF Phases, NoStaleFlag, NoStaleEvent, Waiting, Pending, Noticed, Awaited, TxPoints,
                DataPoints, RespPoints, RxWait, OneRxFlag, NoRxFlag, RxMask, Node
    <2>1. CASE app = "sts"
      BY <2>1 DEF StsPhases, AskingPoll, Asking, Sending, Hearing
    <2>2. CASE app = "aes"
      BY <2>2 DEF AesPhases, ReceiverPhases, Listening, Hearing, Untimed, TxWait
    <2>3. CASE app = "blink"
      BY <2>3, PairsFit DEF BlinkPhases, ReceiverPhases, Listening, Hearing, Untimed, TxWait,
                            Sending
    <2>4. CASE app = "le"
      BY <2>4 DEF LePhases, Asking, Hearing, Le!NoStaleFlag, Le!Waiting, Le!Pending, Le!Noticed,
                  Le!Awaited, Le!TxPoints, Le!DataPoints, Le!RespPoints, Le!RxMask
    <2>5. CASE app \in {"cca", "trim"}
      BY <2>5
    <2> QED BY <2>1, <2>2, <2>3, <2>4, <2>5 DEF Apps
  <1> QED BY <1>1, PhasesAlways, PTL
-----------------------------------------------------------------------------
(* Examples 6e and 6f, the exchange. What a node has sent either arrives   *)
(* in time and belongs to the last poll, or comes to nothing before the    *)
(* receiver of the initiator is on again. The round trip is shorter than   *)
(* two of the delays after which that receiver is switched on, and fits    *)
(* half the range of the 32-bit copies; and a host that is too late for    *)
(* its delayed transmission finds the time behind its clock.               *)
Reply == POLL_RX_TO_RESP_TX_DLY + TX_ANT_DLY

RoundTripFits ==
  /\ 2 * FLIGHT + Reply < 2 * POLL_TX_TO_RESP_RX_DLY
  /\ 2 * FLIGHT + Reply < LOMOD \div 2
  /\ MaxLag + QUANTUM <= TSMOD \div 2

(* The ticks from now before which no further poll leaves.                 *)
NextPoll == IF pc["I"] = "sleep" THEN nap["I"]
            ELSE IF mode["I"] = "gap" THEN left["I"] ELSE 0

(* What ends in "t" ticks is over before the receiver opens that waits for *)
(* the answer to a poll already sent, or to the next poll.                 *)
Gone(t)   == mode["I"] = "gap" /\ t < left["I"]
InTime(t) == t < NextPoll + POLL_TX_TO_RESP_RX_DLY

(* While the initiator waits for an answer, its header still holds the     *)
(* counter "c" of the last poll.                                           *)
Counted(c) == pc["I"] = "waitResp" /\ mode["I"] # "tx" => c = hdr["I"]

(* By the clock of the initiator, "due" is "t" ticks after its last poll,  *)
(* as far as the 32-bit copies tell.                                       *)
SincePoll(due, t) == SameLo(due - txTs["I"], t)

(* What a response says that the initiator gets when its clock shows       *)
(* "due": the counter of the last poll plus one, and the turnaround of the *)
(* responder, which together with two flights is the time since that poll. *)
Answers(data, due) ==
  \E c \in Nat, rx, tx \in 0 .. LOMOD - 1, reply \in 0 .. Reply :
    /\ data = <<c + 1, rx, tx>> /\ Counted(c)
    /\ SameLo(tx - rx, reply) /\ SincePoll(due, 2 * FLIGHT + reply)

(* A poll that the responder gets in "t" ticks, or got so long ago, and a  *)
(* response that the initiator gets in "t" ticks.                          *)
PollDue(t, frame) ==
  \/ Gone(t + Reply + FLIGHT)
  \/ /\ InTime(t + Reply + FLIGHT)
     /\ SincePoll(clock["I"] + t, FLIGHT) /\ Counted(frame.data[1])
RespDue(t, frame) ==
  \/ Gone(t)
  \/ InTime(t) /\ Answers(frame.data, clock["I"] + t)

HasPoll == pc["R"] = "waitData" /\ "RXFCG" \in status["R"] /\ rxBuf["R"].kind = "poll"
HasResp == pc["I"] = "waitResp" /\ "RXFCG" \in status["I"] /\ rxBuf["I"].kind = "resp"

OnAir     == \A m \in air : /\ m.frame.kind = "poll" => PollDue(m.left, m.frame)
                            /\ m.frame.kind = "resp" => RespDue(m.left, m.frame)
PollTaken == HasPoll =>
  /\ clock["R"] = (rxTs["R"] + lag["R"]) % TSMOD
  /\ lag["R"] <= POLL_RX_TO_RESP_TX_DLY => PollDue(0 - lag["R"], rxBuf["R"])
RespArmed == mode["R"] = "tx" =>
  txBuf["R"].kind = "resp" /\ RespDue(left["R"] + FLIGHT, txBuf["R"])
RespTaken == HasResp => Answers(rxBuf["I"].data, rxTs["I"])

(* Who sends what; a host that has stopped has an idle chip, and a         *)
(* responder that listens is not late.                                     *)
AesRoles ==
  /\ mode["I"] = "tx" => txBuf["I"] \in {Frame("poll", <<hdr["I"]>>), Frame("plain", <<hdr["I"]>>)}
  /\ rxDly["I"] = POLL_TX_TO_RESP_RX_DLY
  /\ pc["I"] = "stopped" => mode["I"] = "idle"
  /\ pc["R"] = "waitData" /\ mode["R"] = "rx" => lag["R"] = 0

AesExchange == AesRoles /\ OnAir /\ PollTaken /\ RespArmed /\ RespTaken

(* The counters. As long as the nonces are fresh, a poll that has not been *)
(* answered yet was the first with its counter, no other such poll has the *)
(* same one, and no answer to it has been encrypted.                       *)
Unanswered(c) == <<"I", c>> \in used /\ <<"R", c + 1>> \notin used

PollsDiffer ==
  /\ \A m \in air : m.frame.kind = "poll" =>
       /\ Unanswered(m.frame.data[1])
       /\ \A o \in air \ {m} : o.frame.kind = "poll" => o.frame.data[1] # m.frame.data[1]
       /\ mode["I"] = "tx" => m.frame.data[1] # hdr["I"]
       /\ HasPoll => m.frame.data[1] # rxBuf["R"].data[1]
  /\ mode["I"] = "tx" => Unanswered(hdr["I"]) /\ (HasPoll => hdr["I"] # rxBuf["R"].data[1])
  /\ HasPoll => Unanswered(rxBuf["R"].data[1])

CountsUp ==
  /\ frameCnt = hdr["I"]
  /\ \A c \in Nat : <<"I", c>> \in used => c <= hdr["I"] /\ (pc["I"] = "sleep" => c < hdr["I"])
  /\ \A c \in Nat : <<"R", c + 1>> \in used => <<"I", c>> \in used

Counters == /\ nonces \in {"fresh", "excused"}
            /\ nonces = "fresh" => PollsDiffer /\ CountsUp

(* The types that the exchange needs.                                      *)
AesPolls     == {Frame("poll", <<c>>) : c \in Nat} \cup {Frame("plain", <<c>>) : c \in Nat}
AesResponses ==
  {Frame("resp", <<c, rx, tx>>) : c \in Nat, rx \in 0 .. LOMOD - 1, tx \in 0 .. LOMOD - 1}
AesFrames ==
  {Frame(k, <<>>) : k \in ForeignKinds \cup {"none"}} \cup AesPolls \cup AesResponses

AesTypes == /\ LinkTypeOK(AesFrames) /\ HostTypeOK(AesFrames)
            /\ hdr \in [Node -> Nat] /\ frameCnt \in Nat /\ used \subseteq Node \X Nat

AesInv == AesTypes /\ AesPhases /\ AesExchange /\ Counters /\ Aes!DistanceIsTrue

LEMMA AesNumbers ==
  /\ FLIGHT \in Nat /\ FLIGHT > 0 /\ POLL_TX_TO_RESP_RX_DLY \in Nat /\ RNG_DELAY \in Nat
  /\ POLL_RX_TO_RESP_TX_DLY \in Nat /\ TX_ANT_DLY \in Nat /\ MaxLag \in Nat /\ Reply \in Nat
  /\ LOMOD \in Nat \ {0} /\ TSMOD \in Nat \ {0} /\ QUANTUM \in Nat \ {0}
  BY PolledAssumption, LinkAssumption, TimeAssumption
     DEF PolledAssumption, Aes!AesAssumption, Reply

LEMMA AesCarries ==
  /\ Carries(AesFrames) /\ NoFrame \in AesFrames
  /\ \A c \in Nat : Frame("poll", <<c>>) \in AesFrames /\ Frame("plain", <<c>>) \in AesFrames
  /\ \A c \in Nat, rx, tx \in 0 .. LOMOD - 1 : Frame("resp", <<c, rx, tx>>) \in AesFrames
  <1>1. \A k \in ForeignKinds \cup {"none"} : Frame(k, <<>>) \in AesFrames
    BY DEF AesFrames
  <1>2. ASSUME NEW c \in Nat
        PROVE  Frame("poll", <<c>>) \in AesFrames /\ Frame("plain", <<c>>) \in AesFrames
    <2>1. Frame("poll", <<c>>) \in AesPolls
      BY DEF AesPolls
    <2>2. Frame("plain", <<c>>) \in AesPolls
      BY DEF AesPolls
    <2> QED BY <2>1, <2>2 DEF AesFrames
  <1>3. ASSUME NEW c \in Nat, NEW rx \in 0 .. LOMOD - 1, NEW tx \in 0 .. LOMOD - 1
        PROVE  Frame("resp", <<c, rx, tx>>) \in AesFrames
    <2>1. Frame("resp", <<c, rx, tx>>) \in AesResponses
      BY DEF AesResponses
    <2> QED BY <2>1 DEF AesFrames
  <1> HIDE DEF AesFrames
  <1>4. NoFrame \in AesFrames /\ Carries(AesFrames)
    BY <1>1 DEF NoFrame, Carries, ForeignKinds
  <1> QED BY <1>2, <1>3, <1>4

(* What a frame of a known kind holds.                                     *)
LEMMA AesData ==
  ASSUME NEW f \in AesFrames
  PROVE  /\ f.kind \in {"poll", "plain"} => \E c \in Nat : f.data = <<c>> /\ f.data[1] = c
         /\ f.kind = "resp" => \E c \in Nat, rx, tx \in 0 .. LOMOD - 1 : f.data = <<c, rx, tx>>
  BY DEF Frame, AesPolls, AesResponses, AesFrames, ForeignKinds

LEMMA AesTimes ==
  ASSUME AesTypes
  PROVE  /\ \A n \in Node : /\ clock[n] \in Int /\ left[n] \in Nat /\ txTs[n] \in Int
                            /\ rxTs[n] \in Int /\ lag[n] \in Nat /\ nap[n] \in Nat
                            /\ clock[n] \in Timestamps /\ rxTs[n] \in Timestamps
         /\ \A m \in air : m.left \in Nat /\ m.to \in Node
         /\ NextPoll \in Nat
         /\ \A n \in Node : txBuf[n] \in AesFrames /\ rxBuf[n] \in AesFrames /\ hdr[n] \in Nat
         /\ \A m \in air : m.frame \in AesFrames
  <1>1. LinkTypeOK(AesFrames) /\ HostTypeOK(AesFrames) /\ hdr \in [Node -> Nat]
    BY DEF AesTypes
  <1> HIDE DEF AesFrames
  <1>2. /\ txBuf \in [Node -> AesFrames] /\ rxBuf \in [Node -> AesFrames]
        /\ air \subseteq [to : Node, left : Nat, frame : AesFrames]
    BY <1>1 DEF LinkTypeOK
  <1>3. "I" \in Node
    BY DEF Node
  <1>4. NextPoll \in Nat
    BY <1>1, <1>3, LinkNumbers DEF NextPoll
  <1> QED BY <1>1, <1>2, <1>4, LinkNumbers

(* The two loops keep the types.                                           *)
LEMMA AesTypesHosts ==
  ASSUME AesTypes, Aes!Initiator \/ Aes!Responder
  PROVE  AesTypes'
<1>c. /\ "I" \in Node /\ "R" \in Node /\ 0 \in Nat /\ 0 \in 0 .. MaxLag /\ RNG_DELAY \in Nat
      /\ rxTs["R"] \in Timestamps /\ rxBuf["R"] \in AesFrames /\ rxBuf["I"] \in AesFrames
      /\ hdr["I"] \in Nat /\ hdr["R"] \in Nat /\ NoFrame \in AesFrames
  BY AesTimes, AesNumbers, AesCarries DEF Node
<1>t. /\ Aes!ResponseTime \in Int
      /\ TicksTo("R", Aes!ResponseTime) + TX_ANT_DLY \in Nat
      /\ DelayedTxTs(rxTs["R"], POLL_RX_TO_RESP_TX_DLY) \in Int /\ rxTs["R"] \in Int
  <2>1. DelayedTxTime(rxTs["R"], POLL_RX_TO_RESP_TX_DLY) \in Int
        /\ DelayedTxTs(rxTs["R"], POLL_RX_TO_RESP_TX_DLY) \in Int /\ rxTs["R"] \in Int
    BY <1>c, AesNumbers, DelayedTypes DEF Timestamps
  <2>2. Aes!ResponseTime = DelayedTxTime(rxTs["R"], POLL_RX_TO_RESP_TX_DLY)
    BY DEF Aes!ResponseTime, Aes!DelayedTxTime, DelayedTxTime
  <2> QED BY <1>c, <2>1, <2>2, TicksType DEF AesTypes
<1>p. ASSUME rxBuf["R"].kind = "poll"
      PROVE  rxBuf["R"].data[1] + 1 \in Nat /\ Aes!ResponseFrame \in AesFrames
  <2>1. rxBuf["R"].data[1] + 1 \in Nat
    BY <1>c, <1>p, AesData
  <2>2. MsgTs(rxTs["R"]) \in 0 .. LOMOD - 1
        /\ MsgTs(DelayedTxTs(rxTs["R"], POLL_RX_TO_RESP_TX_DLY)) \in 0 .. LOMOD - 1
    BY <1>t, TimeTypes
  <2>3. Aes!ResponseFrame = Frame("resp", <<rxBuf["R"].data[1] + 1, MsgTs(rxTs["R"]),
                              MsgTs(DelayedTxTs(rxTs["R"], POLL_RX_TO_RESP_TX_DLY))>>)
    BY DEF Aes!ResponseFrame, Aes!Frame, Frame, Aes!MsgTs, MsgTs, Aes!DelayedTxTs, DelayedTxTs,
           Aes!DelayedTxTime, DelayedTxTime
  <2> QED BY <2>1, <2>2, <2>3, AesCarries
<1>r. rxBuf["I"].kind = "resp" => rxBuf["I"].data[1] \in Nat
  BY <1>c, AesData
<1>e. NoFrame = Aes!NoFrame /\ Aes!PollFrame \in AesFrames
  BY <1>c, AesCarries DEF NoFrame, Aes!NoFrame, Frame, Aes!Frame, Aes!PollFrame
<1> HIDE DEF AesFrames
<1> USE <1>c DEF AesTypes, LinkTypeOK, HostTypeOK, Node, Modes, Flags, RxMask, Points, TxPoints,
                 DataPoints, RespPoints, Aes!Rest
<1>1. CASE Aes!SendPoll
  BY <1>1, <1>e DEF Aes!SendPoll, Aes!Encrypt, Aes!StartTxNow, Aes!StartTx, Aes!Goto
<1>2. CASE Aes!RecvResponse
  BY <1>2, <1>r DEF Aes!RecvResponse, Aes!CountAndRead, Aes!ClearFlags, Aes!Sleep
<1>3. CASE Aes!IgnoreFrame
  BY <1>3 DEF Aes!IgnoreFrame, Aes!CountAndRead, Aes!ClearFlags, Aes!Sleep
<1>4. ASSUME NEW n \in Node, Aes!StopOnFrame(n) PROVE AesTypes'
  BY <1>4 DEF Aes!StopOnFrame, Aes!Count, Aes!ClearFlags, Aes!Goto
<1>5. CASE Aes!ResponseFailed
  BY <1>5 DEF Aes!ResponseFailed, Aes!Count, Aes!ClearFlags, Aes!Sleep
<1> USE DEF Aes!aesVars, Aes!ownVars
<1>6. CASE Aes!Listen
  BY <1>6, <1>e DEF Aes!Listen, Aes!EnableRx, Aes!Goto
<1>7. CASE Aes!RecvPoll
  <2>1. /\ Aes!ResponseFrame \in AesFrames /\ rxBuf["R"].data[1] + 1 \in Nat
        /\ TicksTo("R", Aes!ResponseTime) = Aes!TicksTo("R", Aes!ResponseTime)
    BY <1>7, <1>p DEF Aes!RecvPoll, Aes!GotPoll, TicksTo, Aes!TicksTo
  <2> QED BY <1>7, <1>t, <2>1 DEF Aes!RecvPoll, Aes!GotPoll, Aes!Encrypt, Aes!StartTxAt,
                                  Aes!StartTx, Aes!Goto
<1>8. CASE Aes!RecvPollLate
  BY <1>8, <1>p DEF Aes!RecvPollLate, Aes!GotPoll, Aes!Encrypt, Aes!FailTx, Aes!Sleep
<1>9. CASE Aes!ResponseSent
  BY <1>9 DEF Aes!ResponseSent, Aes!ClearFlags, Aes!Sleep
<1>10. CASE Aes!IgnoreNoPoll
  <2>1. rxBuf["R"].kind = "plain" => rxBuf["R"].data[1] \in Nat
    BY <1>c, AesData
  <2> QED BY <1>10, <2>1 DEF Aes!IgnoreNoPoll, Aes!ClearFlags, Aes!Sleep
<1>11. CASE Aes!PollFailed
  BY <1>11 DEF Aes!PollFailed, Aes!ClearFlags, Aes!Sleep
<1> QED
  BY <1>1, <1>2, <1>3, <1>4, <1>5, <1>6, <1>7, <1>8, <1>9, <1>10, <1>11
     DEF Aes!Initiator, Aes!Responder

(* A tick is the one of the lemmas.                                        *)
LEMMA AesTicks ==
  ASSUME Aes!Tick
  PROVE  /\ HostTick({n \in Node : Aes!HostDue(n)}) /\ LinkTick
         /\ UNCHANGED <<hdr, frameCnt, used, nonces, result>>
  BY DEF Aes!Tick, Aes!HostTick, HostTick, Aes!LinkTick, LinkTick, Aes!CountsDown, CountsDown,
         Aes!Nearer, Nearer, Aes!Node, Node, Aes!aesVars, Aes!ownVars

LEMMA AesTypesStep ==
  ASSUME AesTypes, Aes!Next
  PROVE  AesTypes'
<1>1. CASE Aes!Radio
  <2>1. Hardware \/ Interference(Foreign)
    BY <1>1, SameRadio DEF Aes!Radio
  <2>2. LinkTypeOK(AesFrames)'
    BY <2>1, AesCarries, LinkTypesRadio, LinkAssumption DEF AesTypes
  <2>3. UNCHANGED <<pc, nap, lag, buf, hdr, frameCnt, used>>
    BY <1>1 DEF Aes!Radio, Aes!pollVars, Aes!ownVars
  <2> QED BY <2>2, <2>3 DEF AesTypes, HostTypeOK
<1>2. CASE Aes!Tick
  <2> DEFINE due == {n \in Node : Aes!HostDue(n)}
  <2>1. HostTick(due) /\ LinkTick /\ UNCHANGED <<hdr, frameCnt, used>>
    BY <1>2, AesTicks
  <2> HIDE DEF due
  <2>2. LinkTypeOK(AesFrames)'
    BY <2>1, LinkTypesTick DEF AesTypes
  <2>3. HostTypeOK(AesFrames)'
    BY <2>1, HostTypesTick DEF AesTypes
  <2> QED BY <2>1, <2>2, <2>3 DEF AesTypes
<1> QED BY <1>1, <1>2, AesTypesHosts DEF Aes!Next

(* A step that moves neither the clock of the initiator nor its last poll, *)
(* and brings its next poll and its receiver no nearer.                    *)
Steady ==
  /\ clock'["I"] = clock["I"] /\ txTs'["I"] = txTs["I"]
  /\ NextPoll' >= NextPoll
  /\ mode["I"] = "gap" => left["I"] = 0 \/ (mode'["I"] = "gap" /\ left'["I"] = left["I"])
  /\ \A c : Counted(c) => Counted(c)'

LEMMA Kept ==
  ASSUME AesTypes, AesTypes', Steady
  PROVE  /\ \A data, due : Answers(data, due) => Answers(data, due)'
         /\ \A t \in Nat : \A f : RespDue(t, f) => RespDue(t, f)'
         /\ \A t \in Int : \A f : t + Reply + FLIGHT >= 0 /\ PollDue(t, f) => PollDue(t, f)'
<1>1. ASSUME NEW data, NEW due, Answers(data, due) PROVE Answers(data, due)'
  BY <1>1 DEF Answers, SincePoll, Steady
<1>2. ASSUME NEW t \in Nat PROVE Gone(t) => Gone(t)'
  BY AesTimes DEF Gone, Steady, Node
<1>3. ASSUME NEW t \in Int PROVE InTime(t) => InTime(t)'
  <2>1. NextPoll \in Nat /\ NextPoll' \in Nat
    <3>1. NextPoll \in Nat
      BY AesTimes
    <3>2. "I" \in Node /\ nap' \in [Node -> Nat] /\ left' \in [Node -> Nat]
      BY DEF AesTypes, LinkTypeOK, HostTypeOK, Node
    <3>3. NextPoll' \in Nat
      BY <3>2 DEF NextPoll
    <3> QED BY <3>1, <3>3
  <2>2. NextPoll' >= NextPoll /\ POLL_TX_TO_RESP_RX_DLY \in Nat
    BY AesNumbers DEF Steady
  <2> DEFINE now  == NextPoll
             then == NextPoll'
  <2>3. now \in Nat /\ then \in Nat /\ then >= now /\ POLL_TX_TO_RESP_RX_DLY \in Nat
    BY <2>1, <2>2
  <2> HIDE DEF now, then
  <2>4. t < now + POLL_TX_TO_RESP_RX_DLY => t < then + POLL_TX_TO_RESP_RX_DLY
    BY <2>3
  <2> QED BY <2>4 DEF InTime, now, then
<1>4. ASSUME NEW t \in Nat, NEW f, RespDue(t, f) PROVE RespDue(t, f)'
  <2>1. clock'["I"] + t = clock["I"] + t
    BY DEF Steady
  <2> QED BY <1>1, <1>2, <1>3, <1>4, <2>1 DEF RespDue
<1>5. ASSUME NEW t \in Int, NEW f, t + Reply + FLIGHT >= 0, PollDue(t, f) PROVE PollDue(t, f)'
  <2>1. t + Reply + FLIGHT \in Nat
    BY <1>5, AesNumbers
  <2> QED BY <1>2, <1>3, <1>5, <2>1 DEF PollDue, SincePoll, Steady
<1> QED BY <1>1, <1>4, <1>5

(* After a tick everything is a tick nearer.                               *)
LEMMA Passed ==
  ASSUME AesTypes, AesPhases, Aes!Tick
  PROVE  /\ \A data : \A u \in Int :
              Answers(data, clock["I"] + u) => Answers(data, clock["I"] + (u - 1))'
         /\ \A t \in Int : \A f : RespDue(t, f) => RespDue(t - 1, f)'
         /\ \A t \in Int : \A f : PollDue(t, f) => PollDue(t - 1, f)'
<1>n. /\ UNCHANGED <<pc, mode, txTs, hdr>> /\ clock'["I"] = (clock["I"] + 1) % TSMOD
      /\ mode["I"] \in {"tx", "gap"} => left["I"] > 0 /\ left'["I"] = left["I"] - 1
      /\ nap'["I"] = (IF nap["I"] > 0 THEN nap["I"] - 1 ELSE 0)
  BY AesTicks DEF HostTick, LinkTick, CountsDown, Node
<1>i. /\ clock["I"] \in Int /\ txTs["I"] \in Int /\ clock'["I"] \in Int
      /\ left["I"] \in Nat /\ nap["I"] \in Nat /\ NextPoll \in Nat
  BY <1>n, AesTimes, AesNumbers DEF Node
<1>k. NextPoll' >= NextPoll - 1 /\ NextPoll' \in Int
  BY <1>n, <1>i DEF NextPoll, AesPhases, Asleep
<1>s. ASSUME NEW u \in Int, NEW v \in Int, SincePoll(clock["I"] + u, v)
      PROVE  SincePoll(clock["I"] + (u - 1), v)'
  <2>1. SameLo((((clock["I"] + 1) % TSMOD) + (u - 1)) - txTs["I"], v)
    BY <1>i, <1>s, SameLoTick DEF SincePoll
  <2> QED BY <1>n, <2>1 DEF SincePoll
<1>c. \A c : Counted(c) => Counted(c)'
  BY <1>n DEF Counted
<1>1. ASSUME NEW data, NEW u \in Int, Answers(data, clock["I"] + u)
      PROVE  Answers(data, clock["I"] + (u - 1))'
  <2>1. PICK c \in Nat, rx \in 0 .. LOMOD - 1, tx \in 0 .. LOMOD - 1, reply \in 0 .. Reply :
          /\ data = <<c + 1, rx, tx>> /\ Counted(c) /\ SameLo(tx - rx, reply)
          /\ SincePoll(clock["I"] + u, 2 * FLIGHT + reply)
    BY <1>1 DEF Answers
  <2>2. 2 * FLIGHT + reply \in Int
    BY AesNumbers
  <2>3. SincePoll(clock["I"] + (u - 1), 2 * FLIGHT + reply)'
    BY <1>s, <2>1, <2>2
  <2> QED BY <1>c, <2>1, <2>3 DEF Answers
<1>2. ASSUME NEW t \in Int
      PROVE  /\ Gone(t) => Gone(t - 1)'
             /\ InTime(t) => InTime(t - 1)'
  <2>1. Gone(t) => Gone(t - 1)'
    BY <1>n, <1>i DEF Gone
  <2>2. InTime(t) => InTime(t - 1)'
    <3> DEFINE p == NextPoll
               q == NextPoll'
               d == POLL_TX_TO_RESP_RX_DLY
    <3>1. p \in Int /\ q \in Int /\ d \in Int /\ q >= p - 1
      BY <1>i, <1>k, AesNumbers
    <3> HIDE DEF p, q, d
    <3>2. t < p + d => t - 1 < q + d
      BY <3>1
    <3> QED BY <3>2 DEF InTime, p, q, d
  <2> QED BY <2>1, <2>2
<1>3. ASSUME NEW t \in Int, NEW f, RespDue(t, f) PROVE RespDue(t - 1, f)'
  BY <1>1, <1>2, <1>3 DEF RespDue
<1>4. ASSUME NEW t \in Int, NEW f, PollDue(t, f) PROVE PollDue(t - 1, f)'
  <2>1. /\ t + Reply + FLIGHT \in Int /\ FLIGHT \in Int
        /\ (t - 1) + Reply + FLIGHT = (t + Reply + FLIGHT) - 1
    BY AesNumbers
  <2>2. CASE Gone(t + Reply + FLIGHT)
    BY <1>2, <2>1, <2>2 DEF PollDue
  <2>3. CASE ~Gone(t + Reply + FLIGHT)
    <3>1. /\ InTime(t + Reply + FLIGHT) /\ SincePoll(clock["I"] + t, FLIGHT)
          /\ Counted(f.data[1])
      BY <1>4, <2>3 DEF PollDue
    <3>2. InTime((t - 1) + Reply + FLIGHT)'
      BY <1>2, <2>1, <3>1
    <3>3. SincePoll(clock["I"] + (t - 1), FLIGHT)'
      BY <1>s, <2>1, <3>1
    <3> QED BY <1>c, <3>1, <3>2, <3>3 DEF PollDue
  <2> QED BY <2>2, <2>3
<1> QED BY <1>1, <1>3, <1>4

(* What such a step leaves of the exchange, if it adds nothing to it.      *)
LEMMA AirKept ==
  ASSUME AesTypes, AesTypes', OnAir, Steady, air' \subseteq air
  PROVE  OnAir'
<1> SUFFICES ASSUME NEW m \in air'
             PROVE  /\ m.frame.kind = "poll" => PollDue(m.left, m.frame)'
                    /\ m.frame.kind = "resp" => RespDue(m.left, m.frame)'
  BY DEF OnAir
<1>1. m.left \in Nat /\ m \in air
  BY AesTimes
<1>2. m.left + Reply + FLIGHT >= 0 /\ m.left \in Int
  BY <1>1, AesNumbers
<1> QED BY <1>1, <1>2, Kept DEF OnAir

LEMMA ResponderKept ==
  ASSUME AesTypes, AesTypes', Steady, PollTaken, RespArmed,
         clock'["R"] = clock["R"], pc'["R"] = pc["R"], mode'["R"] = mode["R"],
         left'["R"] = left["R"], status'["R"] = status["R"], lag'["R"] = lag["R"],
         txBuf'["R"] = txBuf["R"], rxBuf'["R"] = rxBuf["R"], rxTs'["R"] = rxTs["R"]
  PROVE  PollTaken' /\ RespArmed' /\ HasPoll' = HasPoll
<1>1. lag["R"] \in Nat /\ left["R"] \in Nat
  BY AesTimes DEF Node
<1>2. HasPoll' = HasPoll
  BY DEF HasPoll
<1>3. ASSUME NEW t \in Int, NEW f, t = 0 - lag["R"], f = rxBuf["R"],
             lag["R"] <= POLL_RX_TO_RESP_TX_DLY, PollDue(t, f)
      PROVE  PollDue(t, f)'
  <2>1. t + Reply + FLIGHT >= 0
    BY <1>1, <1>3, AesNumbers DEF Reply
  <2> QED BY <1>3, <2>1, Kept
<1>4. ASSUME HasPoll', lag["R"] <= POLL_RX_TO_RESP_TX_DLY
      PROVE  PollDue(0 - lag["R"], rxBuf["R"])'
  <2> DEFINE t == 0 - lag["R"]
             f == rxBuf["R"]
  <2>1. PollDue(t, f) /\ t \in Int
    BY <1>1, <1>2, <1>4 DEF PollTaken
  <2>2. PICK u \in Int : u = t
    BY <2>1
  <2>3. PICK g : g = f
    OBVIOUS
  <2>4. PollDue(u, g)
    BY <2>1, <2>2, <2>3
  <2>5. PollDue(u, g)'
    BY <1>3, <1>4, <2>2, <2>3, <2>4
  <2>6. u = t' /\ g = f'
    BY <2>2, <2>3
  <2> QED BY <2>5, <2>6 DEF PollDue
<1>5. PollTaken'
  BY <1>2, <1>4 DEF PollTaken
<1>6. ASSUME mode["R"] = "tx" PROVE RespDue(left["R"] + FLIGHT, txBuf["R"])'
  <2> DEFINE t == left["R"] + FLIGHT
             f == txBuf["R"]
  <2>1. RespDue(t, f) /\ t \in Nat
    BY <1>1, <1>6, AesNumbers DEF RespArmed
  <2>2. PICK u \in Nat : u = t
    BY <2>1
  <2>3. PICK g : g = f
    OBVIOUS
  <2>4. RespDue(u, g)
    BY <2>1, <2>2, <2>3
  <2>5. RespDue(u, g)'
    BY <2>4, Kept
  <2>6. u = t' /\ g = f'
    BY <2>2, <2>3
  <2> QED BY <2>5, <2>6 DEF RespDue
<1>7. RespArmed'
  BY <1>6 DEF RespArmed
<1> QED BY <1>2, <1>5, <1>7

(* The formula finds the flight in what an answer says.                    *)
LEMMA AnswersAreExact ==
  ASSUME RoundTripFits, NEW p \in Int, NEW r \in Int,
         NEW rx \in 0 .. LOMOD - 1, NEW tx \in 0 .. LOMOD - 1, NEW reply \in 0 .. Reply,
         SameLo(tx - rx, reply), SameLo(r - p, 2 * FLIGHT + reply)
  PROVE  SsTwiceTof(MsgTs(p), rx, tx, MsgTs(r)) = 2 * FLIGHT
  <1> USE AesNumbers
  <1>1. /\ reply \in Int /\ reply \in 0 .. LOMOD - 1 /\ reply < LOMOD \div 2
        /\ 2 * FLIGHT + reply \in 0 .. LOMOD - 1 /\ 2 * FLIGHT + reply < LOMOD \div 2
    <2>1. LOMOD \div 2 <= LOMOD /\ LOMOD \div 2 \in Nat
      OBVIOUS
    <2> QED BY <2>1 DEF RoundTripFits
  <1>2. Sub32(tx, rx) = reply
    <2>1. tx - rx \in Int
      OBVIOUS
    <2> QED BY <1>1, <2>1, SameLoExact DEF Sub32
  <1>3. Sub32(MsgTs(r), MsgTs(p)) = 2 * FLIGHT + reply
    BY <1>1, CopiesSubtract
  <1>4. Signed32(reply) = reply /\ Signed32(2 * FLIGHT + reply) = 2 * FLIGHT + reply
    BY <1>1 DEF Signed32
  <1> QED BY <1>1, <1>2, <1>3, <1>4 DEF SsTwiceTof

(* The initiator's steps: no poll leaves during one, the distance it       *)
(* computes is the true one, and the counter it takes over is the next.    *)
LEMMA AesInitiatorSteps ==
  ASSUME RoundTripFits, AesInv, AesTypes', Aes!Initiator
  PROVE  AesExchange' /\ Counters' /\ Aes!DistanceIsTrue'
<1>t. /\ AesTypes /\ AesPhases /\ AesRoles /\ OnAir /\ PollTaken /\ RespArmed /\ RespTaken
      /\ Counters /\ Aes!DistanceIsTrue /\ "I" \in Node /\ "R" \in Node
  BY DEF AesInv, AesExchange, Node
<1>n. /\ nap["I"] \in Nat /\ left["I"] \in Nat /\ RNG_DELAY \in Nat /\ hdr["I"] \in Nat
      /\ pc \in [Node -> Points] /\ mode \in [Node -> Modes] /\ nap \in [Node -> Nat]
      /\ status \in [Node -> SUBSET Flags] /\ txBuf \in [Node -> AesFrames]
      /\ lag \in [Node -> 0 .. MaxLag] /\ left \in [Node -> Nat] /\ hdr \in [Node -> Nat]
      /\ frameCnt \in Nat
  BY <1>t, AesTimes, AesNumbers DEF AesTypes, LinkTypeOK, HostTypeOK
<1> DEFINE Waited == \/ Aes!RecvResponse \/ Aes!IgnoreFrame \/ Aes!StopOnFrame("I")
                     \/ Aes!ResponseFailed
<1>w. ASSUME Waited PROVE pc["I"] = "waitResp" /\ mode["I"] = "idle"
  <2>1. pc["I"] = "waitResp"
    BY <1>t, <1>w DEF Aes!RecvResponse, Aes!IgnoreFrame, Aes!StopOnFrame, Aes!ResponseFailed,
                      Aes!InitiatorGotFrame, AesPhases
  <2>2. ~NoRxFlag("I")
    <3>1. CASE Aes!ResponseFailed
      BY <2>1, <3>1 DEF Aes!ResponseFailed, Aes!Noticed, Aes!Awaited, Aes!TxPoints, NoRxFlag,
                        Aes!DataPoints, Aes!RespPoints, Aes!RxMask, RxMask
    <3>2. CASE Aes!RecvResponse \/ Aes!IgnoreFrame \/ Aes!StopOnFrame("I")
      BY <3>2 DEF Aes!RecvResponse, Aes!IgnoreFrame, Aes!StopOnFrame, Aes!InitiatorGotFrame,
                  NoRxFlag, RxMask
    <3> QED BY <1>w, <3>1, <3>2
  <2> QED BY <1>t, <2>1, <2>2 DEF AesPhases, RxWait
<1>1. /\ UNCHANGED <<clock, txTs, rxTs, rxBuf, air, rxDly>>
      /\ pc'["R"] = pc["R"] /\ mode'["R"] = mode["R"] /\ status'["R"] = status["R"]
      /\ lag'["R"] = lag["R"] /\ left'["R"] = left["R"] /\ txBuf'["R"] = txBuf["R"]
  <2>1. CASE Aes!SendPoll
    BY <1>t, <1>n, <2>1 DEF Aes!SendPoll, Aes!StartTxNow, Aes!StartTx, Aes!Goto, Aes!Rest, Node
  <2>2. CASE Aes!RecvResponse \/ Aes!IgnoreFrame \/ Aes!ResponseFailed
    BY <1>t, <1>n, <2>2 DEF Aes!RecvResponse, Aes!IgnoreFrame, Aes!ResponseFailed,
                            Aes!ClearFlags, Aes!Sleep, Aes!Rest, Node
  <2>3. CASE Aes!StopOnFrame("I")
    BY <1>t, <1>n, <2>3 DEF Aes!StopOnFrame, Aes!ClearFlags, Aes!Goto, Aes!Rest, Node
  <2> QED BY <2>1, <2>2, <2>3 DEF Aes!Initiator
<1>2. ASSUME Waited
      PROVE  /\ pc'["I"] \in {"sleep", "stopped"} /\ mode'["I"] = "idle"
             /\ txBuf'["I"] = txBuf["I"] /\ nap'["I"] \in Nat /\ UNCHANGED used
  <2>1. CASE Aes!RecvResponse \/ Aes!IgnoreFrame \/ Aes!ResponseFailed
    BY <1>t, <1>n, <1>w, <2>1, <1>2
       DEF Aes!RecvResponse, Aes!IgnoreFrame, Aes!ResponseFailed, Aes!ClearFlags, Aes!Sleep
  <2>2. CASE Aes!StopOnFrame("I")
    BY <1>t, <1>n, <1>w, <2>2, <1>2 DEF Aes!StopOnFrame, Aes!ClearFlags, Aes!Goto
  <2> QED BY <1>2, <2>1, <2>2
<1>3. CASE Aes!SendPoll
  <2>1. /\ pc["I"] = "sleep" /\ nap["I"] = 0 /\ mode["I"] = "idle" /\ "RXFCG" \notin status["I"]
    BY <1>t, <1>3 DEF Aes!SendPoll, Aes!Awake, Aes!Rested, AesPhases, Asleep, NoRxFlag, RxMask
  <2>2. /\ pc'["I"] = "waitResp" /\ mode'["I"] = "tx" /\ status'["I"] \subseteq status["I"]
        /\ txBuf'["I"] \in {Frame("poll", <<hdr["I"]>>), Frame("plain", <<hdr["I"]>>)}
        /\ UNCHANGED <<hdr, frameCnt, result>>
        /\ used' = used \cup {<<"I", hdr["I"]>>}
        /\ nonces' = IF <<"I", hdr["I"]>> \in used /\ nonces = "fresh" THEN "repeated" ELSE nonces
    BY <1>t, <1>n, <1>3
       DEF Aes!SendPoll, Aes!PollFrame, Aes!Encrypt, Aes!StartTxNow, Aes!StartTx, Aes!Goto,
           Aes!Frame, Frame
  <2>3. Steady
    BY <1>1, <2>1, <2>2 DEF Steady, NextPoll, Counted
  <2>4. OnAir' /\ PollTaken' /\ RespArmed' /\ HasPoll' = HasPoll
    BY <1>t, <1>1, <2>3, AirKept, ResponderKept
  <2>5. AesRoles' /\ RespTaken' /\ Aes!DistanceIsTrue'
    BY <1>t, <1>1, <2>1, <2>2 DEF AesRoles, RespTaken, HasResp, Aes!DistanceIsTrue
  <2>6. Counters'
    <3>1. CASE nonces # "fresh"
      BY <1>t, <2>2, <3>1 DEF Counters
    <3>2. CASE nonces = "fresh"
      <4>1. PollsDiffer /\ CountsUp
        BY <1>t, <3>2 DEF Counters
      <4>2. <<"I", hdr["I"]>> \notin used /\ <<"R", hdr["I"] + 1>> \notin used
        BY <1>n, <2>1, <4>1 DEF CountsUp
      <4>3. CountsUp'
        BY <1>n, <2>1, <2>2, <4>1 DEF CountsUp
      <4>4. \A c : Unanswered(c) => Unanswered(c)' /\ c # hdr["I"]
        BY <2>2, <4>2 DEF Unanswered
      <4>5. Unanswered(hdr["I"])'
        BY <2>2, <4>2 DEF Unanswered
      <4>6. PollsDiffer'
        BY <1>1, <2>1, <2>2, <2>4, <4>1, <4>4, <4>5 DEF PollsDiffer
      <4>7. nonces' = nonces
        BY <2>2, <4>2
      <4> QED BY <3>2, <4>3, <4>6, <4>7 DEF Counters
    <3> QED BY <3>1, <3>2
  <2> QED BY <2>4, <2>5, <2>6 DEF AesExchange
<1>4. CASE Waited
  <2>1. Steady
    <3>1. NextPoll = 0 /\ NextPoll' >= 0
      BY <1>n, <1>w, <1>2, <1>4 DEF NextPoll
    <3> QED BY <1>1, <1>w, <1>2, <1>4, <3>1 DEF Steady, Counted
  <2>2. OnAir' /\ PollTaken' /\ RespArmed' /\ HasPoll' = HasPoll
    BY <1>t, <1>1, <2>1, AirKept, ResponderKept
  <2>3. AesRoles' /\ RespTaken'
    BY <1>t, <1>1, <1>2, <1>4 DEF AesRoles, RespTaken, HasResp
  <2>4. PollsDiffer => PollsDiffer'
    BY <1>1, <1>2, <1>4, <2>2 DEF PollsDiffer, Unanswered
  <2>5. ASSUME nonces' = nonces, frameCnt' = frameCnt + 1, hdr'["I"] = frameCnt + 1
        PROVE  Counters'
    <3>1. CountsUp => CountsUp'
      BY <1>n, <1>2, <1>4, <2>5 DEF CountsUp
    <3> QED BY <1>t, <2>4, <2>5, <3>1 DEF Counters
  <2>6. CASE Aes!RecvResponse
    <3>1. Answers(rxBuf["I"].data, rxTs["I"])
      BY <1>t, <2>6 DEF Aes!RecvResponse, Aes!InitiatorGotFrame, RespTaken, HasResp
    <3>2. PICK c \in Nat, rx \in 0 .. LOMOD - 1, tx \in 0 .. LOMOD - 1, reply \in 0 .. Reply :
            /\ rxBuf["I"].data = <<c + 1, rx, tx>> /\ Counted(c) /\ SameLo(tx - rx, reply)
            /\ SameLo(rxTs["I"] - txTs["I"], 2 * FLIGHT + reply)
      BY <3>1 DEF Answers, SincePoll
    <3>3. SsTwiceTof(MsgTs(txTs["I"]), rx, tx, MsgTs(rxTs["I"])) = 2 * FLIGHT
      <4>1. txTs["I"] \in Int /\ rxTs["I"] \in Int
        BY <1>t, AesTimes
      <4> QED BY <3>2, <4>1, AnswersAreExact
    <3>4. result' = <<2 * FLIGHT>>
      BY <2>6, <3>2, <3>3
         DEF Aes!RecvResponse, Aes!SsTwiceTof, SsTwiceTof, Aes!MsgTs, MsgTs, Aes!Sub32, Sub32,
             Aes!Signed32, Signed32
    <3>5. c = hdr["I"]
      BY <1>w, <1>4, <3>2 DEF Counted
    <3>6. Counters'
      <4>1. nonces' = nonces /\ frameCnt' = frameCnt + 1 /\ hdr'["I"] = c + 1
        BY <1>t, <1>n, <2>6, <3>2 DEF Aes!RecvResponse, Aes!CountAndRead
      <4>2. nonces = "fresh" => frameCnt = hdr["I"]
        BY <1>t DEF Counters, CountsUp
      <4>3. CASE nonces = "fresh"
        BY <2>5, <3>5, <4>1, <4>2, <4>3
      <4>4. CASE nonces # "fresh"
        BY <1>t, <4>1, <4>4 DEF Counters
      <4> QED BY <4>3, <4>4
    <3> QED BY <2>2, <2>3, <3>4, <3>6 DEF AesExchange, Aes!DistanceIsTrue
  <2>7. CASE Aes!IgnoreFrame
    <3>1. nonces' = "excused" /\ result' = result
      BY <2>7 DEF Aes!IgnoreFrame
    <3> QED BY <1>t, <2>2, <2>3, <3>1 DEF AesExchange, Counters, Aes!DistanceIsTrue
  <2>8. CASE Aes!StopOnFrame("I") \/ Aes!ResponseFailed
    <3>1. nonces' = nonces /\ frameCnt' = frameCnt + 1 /\ hdr'["I"] = frameCnt + 1
          /\ result' = result
      BY <1>t, <1>n, <2>8 DEF Aes!StopOnFrame, Aes!ResponseFailed, Aes!Count
    <3> QED BY <1>t, <2>2, <2>3, <2>5, <3>1 DEF AesExchange, Aes!DistanceIsTrue
  <2> QED BY <1>4, <2>6, <2>7, <2>8
<1> QED BY <1>3, <1>4 DEF Aes!Initiator

(* The responder's steps: a response is armed for the poll just taken, or  *)
(* none is, and the counter of that poll is used up.                       *)
LEMMA AesResponderSteps ==
  ASSUME RoundTripFits, AesInv, AesTypes', Aes!Responder
  PROVE  AesExchange' /\ Counters' /\ Aes!DistanceIsTrue'
<1>t. /\ AesTypes /\ AesPhases /\ AesRoles /\ OnAir /\ PollTaken /\ RespArmed /\ RespTaken
      /\ Counters /\ Aes!DistanceIsTrue /\ "I" \in Node /\ "R" \in Node
  BY DEF AesInv, AesExchange, Node
<1>n. /\ pc \in [Node -> Points] /\ mode \in [Node -> Modes] /\ nap \in [Node -> Nat]
      /\ status \in [Node -> SUBSET Flags] /\ txBuf \in [Node -> AesFrames]
      /\ rxBuf \in [Node -> AesFrames] /\ lag \in [Node -> 0 .. MaxLag]
      /\ left \in [Node -> Nat] /\ hdr \in [Node -> Nat] /\ frameCnt \in Nat
  BY <1>t DEF AesTypes, LinkTypeOK, HostTypeOK
<1> DEFINE Got     == Aes!RecvPoll \/ Aes!RecvPollLate
           Resting == \/ Aes!RecvPollLate \/ Aes!ResponseSent \/ Aes!IgnoreNoPoll
                      \/ Aes!StopOnFrame("R") \/ Aes!PollFailed
<1> HIDE DEF AesFrames
<1>1. /\ UNCHANGED <<clock, txTs, rxTs, air, rxDly, frameCnt, result>>
      /\ pc["I"]' = pc["I"] /\ mode["I"]' = mode["I"] /\ status["I"]' = status["I"]
      /\ left["I"]' = left["I"] /\ nap["I"]' = nap["I"] /\ txBuf["I"]' = txBuf["I"]
      /\ rxBuf["I"]' = rxBuf["I"] /\ hdr["I"]' = hdr["I"]
  <2>1. CASE Aes!Listen
    BY <1>t, <1>n, <2>1 DEF Aes!Listen, Aes!EnableRx, Aes!Goto, Aes!Rest, Aes!aesVars,
                            Aes!ownVars, Node
  <2>2. CASE Aes!RecvPoll
    BY <1>t, <1>n, <2>2 DEF Aes!RecvPoll, Aes!GotPoll, Aes!StartTxAt, Aes!StartTx, Aes!Goto,
                            Aes!Rest, Node
  <2>3. CASE Aes!RecvPollLate
    BY <1>t, <1>n, <2>3 DEF Aes!RecvPollLate, Aes!GotPoll, Aes!FailTx, Aes!Sleep, Aes!Rest, Node
  <2>4. CASE Aes!ResponseSent \/ Aes!PollFailed
    BY <1>t, <1>n, <2>4 DEF Aes!ResponseSent, Aes!PollFailed, Aes!ClearFlags, Aes!Sleep,
                            Aes!Rest, Aes!aesVars, Aes!ownVars, Node
  <2>5. CASE Aes!StopOnFrame("R")
    BY <1>t, <1>n, <2>5 DEF Aes!StopOnFrame, Aes!ClearFlags, Aes!Goto, Aes!Rest, Node
  <2>6. CASE Aes!IgnoreNoPoll
    BY <1>t, <1>n, <2>6 DEF Aes!IgnoreNoPoll, Aes!ClearFlags, Aes!Sleep, Aes!Rest, Node
  <2> QED BY <2>1, <2>2, <2>3, <2>4, <2>5, <2>6 DEF Aes!Responder
<1>2. Steady
  <2>1. NextPoll' = NextPoll /\ NextPoll \in Int
    BY <1>t, <1>1, AesTimes DEF NextPoll
  <2>2. NextPoll' >= NextPoll
    BY <2>1
  <2> QED BY <1>1, <2>2 DEF Steady, Counted
<1>3. OnAir' /\ RespTaken' /\ Aes!DistanceIsTrue'
  <2>1. OnAir'
    BY <1>t, <1>1, <1>2, AirKept
  <2>2. RespTaken'
    BY <1>t, <1>1, <1>2, Kept DEF RespTaken, HasResp
  <2> QED BY <1>t, <1>1, <2>1, <2>2 DEF Aes!DistanceIsTrue
<1>4. ASSUME Resting
      PROVE  pc'["R"] \in {"sleep", "stopped"} /\ mode'["R"] # "tx"
  <2>1. CASE Aes!RecvPollLate
    BY <1>t, <1>n, <2>1 DEF Aes!RecvPollLate, Aes!GotPoll, Aes!FailTx, Aes!Sleep
  <2>2. CASE Aes!ResponseSent
    BY <1>t, <1>n, <2>2 DEF Aes!ResponseSent, Aes!ClearFlags, Aes!Sleep, Aes!Noticed,
                            Aes!Awaited, Aes!TxPoints, AesPhases, ReceiverPhases, TxWait
  <2>3. CASE Aes!IgnoreNoPoll \/ Aes!PollFailed \/ Aes!StopOnFrame("R")
    <3>1. pc["R"] = "waitData" /\ ~NoRxFlag("R")
      <4>1. CASE Aes!PollFailed
        BY <4>1 DEF Aes!PollFailed, Aes!Noticed, Aes!Awaited, Aes!TxPoints, Aes!DataPoints,
                    Aes!RxMask, NoRxFlag, RxMask
      <4>2. CASE Aes!IgnoreNoPoll \/ Aes!StopOnFrame("R")
        BY <1>t, <4>2 DEF Aes!IgnoreNoPoll, Aes!StopOnFrame, Aes!ResponderGotFrame, NoRxFlag,
                          RxMask, AesPhases, ReceiverPhases
      <4> QED BY <2>3, <4>1, <4>2
    <3>2. mode["R"] = "idle"
      BY <1>t, <1>n, <3>1 DEF AesPhases, ReceiverPhases, Listening, Hearing, Modes, RxWait
    <3> QED BY <1>t, <1>n, <2>3, <3>2
            DEF Aes!IgnoreNoPoll, Aes!StopOnFrame, Aes!PollFailed, Aes!ClearFlags, Aes!Sleep,
                Aes!Goto
  <2> QED BY <1>4, <2>1, <2>2, <2>3
<1>5. ASSUME Aes!Listen
      PROVE  /\ "RXFCG" \notin status'["R"] /\ mode'["R"] = "rx" /\ lag'["R"] = 0
  <2>1. "RXFCG" \notin status["R"]
    BY <1>t, <1>5 DEF Aes!Listen, Aes!Awake, Aes!Rested, AesPhases, ReceiverPhases, Clean,
                      Asleep, NoRxFlag, RxMask
  <2> QED BY <1>t, <1>n, <1>5, <2>1 DEF Aes!Listen, Aes!EnableRx, Aes!Goto
<1>6. ASSUME Aes!RecvPoll
      PROVE  /\ pc'["R"] = "waitTx" /\ mode'["R"] = "tx"
             /\ left'["R"] = TicksTo("R", DelayedTxTime(rxTs["R"], POLL_RX_TO_RESP_TX_DLY)) + TX_ANT_DLY
             /\ ~TooLate("R", DelayedTxTime(rxTs["R"], POLL_RX_TO_RESP_TX_DLY))
             /\ txBuf'["R"] = Frame("resp", <<rxBuf["R"].data[1] + 1, MsgTs(rxTs["R"]),
                                MsgTs(DelayedTxTs(rxTs["R"], POLL_RX_TO_RESP_TX_DLY))>>)
  <2>1. Aes!ResponseTime = DelayedTxTime(rxTs["R"], POLL_RX_TO_RESP_TX_DLY)
    BY DEF Aes!ResponseTime, Aes!DelayedTxTime, DelayedTxTime
  <2>2. Aes!ResponseFrame = Frame("resp", <<rxBuf["R"].data[1] + 1, MsgTs(rxTs["R"]),
                              MsgTs(DelayedTxTs(rxTs["R"], POLL_RX_TO_RESP_TX_DLY))>>)
    BY DEF Aes!ResponseFrame, Aes!Frame, Frame, Aes!MsgTs, MsgTs, Aes!DelayedTxTs, DelayedTxTs,
           Aes!DelayedTxTime, DelayedTxTime
  <2>3. \A time : Aes!TooLate("R", time) = TooLate("R", time)
                  /\ Aes!TicksTo("R", time) = TicksTo("R", time)
    BY DEF Aes!TooLate, TooLate, Aes!TicksTo, TicksTo
  <2> QED BY <1>t, <1>n, <1>6, <2>1, <2>2, <2>3
          DEF Aes!RecvPoll, Aes!StartTxAt, Aes!StartTx, Aes!Goto
<1>7. ~HasPoll'
  BY <1>4, <1>5, <1>6 DEF HasPoll, Aes!Responder
<1>8. PollTaken' /\ AesRoles'
  <2>1. PollTaken'
    BY <1>7 DEF PollTaken
  <2>2. AesRoles'
    BY <1>t, <1>1, <1>4, <1>5, <1>6 DEF AesRoles, Aes!Responder
  <2> QED BY <2>1, <2>2
<1>9. Counters'
  <2>1. CASE nonces # "fresh"
    <3>1. nonces' = nonces
      BY <2>1 DEF Aes!Responder, Aes!Listen, Aes!RecvPoll, Aes!RecvPollLate, Aes!GotPoll,
                  Aes!Encrypt, Aes!ResponseSent, Aes!IgnoreNoPoll, Aes!StopOnFrame,
                  Aes!PollFailed, Aes!aesVars, Aes!ownVars
    <3> QED BY <1>t, <2>1, <3>1 DEF Counters
  <2>2. CASE nonces = "fresh"
    <3>1. PollsDiffer /\ CountsUp
      BY <1>t, <2>2 DEF Counters
    <3>2. CASE Got
      <4> DEFINE c == rxBuf["R"].data[1]
      <4>1. HasPoll
        BY <3>2 DEF Aes!RecvPoll, Aes!RecvPollLate, Aes!GotPoll, Aes!ResponderGotFrame, HasPoll
      <4>2. c \in Nat /\ Unanswered(c)
        <5>1. c \in Nat
          BY <1>t, <4>1, AesTimes, AesData DEF HasPoll
        <5> QED BY <3>1, <4>1, <5>1 DEF PollsDiffer
      <4>3. used' = used \cup {<<"R", c + 1>>}
            /\ nonces' = IF <<"R", c + 1>> \in used /\ nonces = "fresh" THEN "repeated" ELSE nonces
        BY <3>2 DEF Aes!RecvPoll, Aes!RecvPollLate, Aes!GotPoll, Aes!Encrypt
      <4> HIDE DEF c
      <4>4. nonces' = "fresh"
        BY <2>2, <4>2, <4>3 DEF Unanswered
      <4>5. \A k \in Nat : Unanswered(k) /\ k # c => Unanswered(k)'
        BY <4>2, <4>3 DEF Unanswered
      <4>6. \A m \in air : m.frame.kind = "poll" => m.frame.data[1] \in Nat
        BY <1>t, AesTimes, AesData
      <4>7. hdr["I"] \in Nat
        BY <1>t, <1>n
      <4>8. PollsDiffer'
        BY <1>1, <1>7, <3>1, <4>1, <4>5, <4>6, <4>7 DEF PollsDiffer, c
      <4>9. CountsUp'
        <5>1. \A k \in Nat : <<"I", k>> \in used' => <<"I", k>> \in used
          BY <4>3
        <5>2. ASSUME NEW k \in Nat, <<"R", k + 1>> \in used' PROVE <<"I", k>> \in used'
          <6>1. CASE <<"R", k + 1>> \in used
            BY <3>1, <4>3, <6>1 DEF CountsUp
          <6>2. CASE <<"R", k + 1>> = <<"R", c + 1>>
            <7>1. k = c
              BY <4>2, <6>2
            <7> QED BY <4>2, <4>3, <7>1 DEF Unanswered
          <6> QED BY <4>3, <5>2, <6>1, <6>2
        <5> QED BY <1>1, <3>1, <5>1, <5>2 DEF CountsUp
      <4> QED BY <4>4, <4>8, <4>9 DEF Counters
    <3>3. CASE ~Got
      <4>1. nonces' = nonces /\ used' = used
        BY <3>3 DEF Aes!Responder, Aes!Listen, Aes!ResponseSent, Aes!IgnoreNoPoll,
                    Aes!StopOnFrame, Aes!PollFailed, Aes!aesVars, Aes!ownVars
      <4>2. \A k : Unanswered(k)' = Unanswered(k)
        BY <4>1 DEF Unanswered
      <4>3. PollsDiffer'
        BY <1>1, <1>7, <3>1, <4>2 DEF PollsDiffer
      <4>4. CountsUp'
        BY <1>1, <3>1, <4>1 DEF CountsUp
      <4> QED BY <2>2, <4>1, <4>3, <4>4 DEF Counters
    <3> QED BY <3>2, <3>3
  <2> QED BY <2>1, <2>2
<1>10. RespArmed'
  <2>1. CASE ~Aes!RecvPoll
    BY <1>4, <1>5, <2>1 DEF RespArmed, Aes!Responder
  <2>2. CASE Aes!RecvPoll
    <3> DEFINE D == POLL_RX_TO_RESP_TX_DLY
               l == lag["R"]
               c == clock["I"]
               p == txTs["I"]
               ts == rxTs["R"]
               k == rxBuf["R"].data[1]
               f == txBuf'["R"]
    <3>1. /\ HasPoll /\ k \in Nat /\ clock["R"] = (ts + l) % TSMOD
          /\ l <= D => PollDue(0 - l, rxBuf["R"])
      <4>1. HasPoll
        BY <2>2 DEF Aes!RecvPoll, Aes!GotPoll, Aes!ResponderGotFrame, HasPoll
      <4>2. k \in Nat
        BY <1>t, <4>1, AesTimes, AesData DEF HasPoll
      <4> QED BY <1>t, <4>1, <4>2 DEF PollTaken
    <3>2. /\ c \in Int /\ p \in Int /\ ts \in Timestamps /\ ts \in Int /\ left["I"] \in Nat
          /\ l \in 0 .. MaxLag /\ l \in Int /\ D \in Nat /\ TX_ANT_DLY \in Nat /\ FLIGHT \in Nat
      BY <1>t, <1>n, AesTimes, AesNumbers
    <3>3. D < LOMOD /\ MaxLag + QUANTUM <= TSMOD \div 2
      <4>1. LOMOD \div 2 <= LOMOD /\ LOMOD \div 2 \in Int
        BY AesNumbers
      <4> QED BY <4>1, AesNumbers DEF RoundTripFits, Reply
    <3>4. PICK reply \in 0 .. Reply :
            /\ l <= D /\ left'["R"] = reply - l
            /\ SameLo(MsgTs(DelayedTxTs(ts, D)) - MsgTs(ts), reply)
      BY <1>t, <1>6, <2>2, <3>1, <3>2, <3>3, DelayedReply DEF Reply
    <3>5. reply \in Int /\ left'["R"] + FLIGHT = (reply + FLIGHT) - l
          /\ left'["R"] + FLIGHT <= (0 - l) + Reply + FLIGHT
          /\ Reply \in Int /\ left'["R"] + FLIGHT \in Int
      BY <3>2, <3>4, AesNumbers
    <3>6. MsgTs(DelayedTxTs(ts, D)) \in 0 .. LOMOD - 1 /\ MsgTs(ts) \in 0 .. LOMOD - 1
      BY <3>2, DelayedTypes, TimeTypes
    <3>7. f.kind = "resp" /\ f.data = <<k + 1, MsgTs(ts), MsgTs(DelayedTxTs(ts, D))>>
      BY <1>6, <2>2 DEF Frame
    <3>8. RespDue(left'["R"] + FLIGHT, f)
      <4> DEFINE t == left'["R"] + FLIGHT
                 b == (0 - l) + Reply + FLIGHT
      <4>0. t \in Int /\ b \in Int /\ t <= b
        BY <3>2, <3>5
      <4>1. CASE Gone(b)
        <5> HIDE DEF t, b
        <5>1. Gone(t)
          BY <3>2, <4>0, <4>1 DEF Gone
        <5> QED BY <5>1 DEF RespDue, t
      <4>2. CASE ~Gone(b)
        <5>1. InTime(b) /\ SincePoll(c + (0 - l), FLIGHT) /\ Counted(k)
          BY <3>1, <3>4, <4>2 DEF PollDue
        <5>2. InTime(t)
          <6> HIDE DEF t, b
          <6>1. NextPoll + POLL_TX_TO_RESP_RX_DLY \in Int
            BY <1>t, AesTimes, AesNumbers
          <6> QED BY <4>0, <5>1, <6>1 DEF InTime
        <5>3. SincePoll(c + t, 2 * FLIGHT + reply)
          <6> DEFINE u == 0 - l
                     e == reply + FLIGHT
          <6>1. /\ u \in Int /\ e \in Int /\ SameLo((c + u) - p, FLIGHT)
                /\ c \in Int /\ p \in Int /\ FLIGHT \in Int
            BY <3>2, <3>5, <5>1 DEF SincePoll
          <6> HIDE DEF u, e, c, p, t
          <6>2. SameLo((c + (u + e)) - p, FLIGHT + e)
            BY <6>1, SameLoLater
          <6> USE DEF u, e, t
          <6>3. u + e = t /\ FLIGHT + e = 2 * FLIGHT + reply
            BY <3>2, <3>5
          <6> QED BY <6>2, <6>3 DEF SincePoll, c, p
        <5>4. Answers(f.data, c + t)
          BY <3>1, <3>4, <3>6, <3>7, <5>1, <5>3 DEF Answers
        <5> QED BY <5>2, <5>4 DEF RespDue
      <4> QED BY <4>1, <4>2
    <3>9. RespDue(left["R"] + FLIGHT, txBuf["R"])'
      BY <1>1, <3>8 DEF RespDue, Gone, InTime, NextPoll, Answers, Counted, SincePoll
    <3> QED BY <3>7, <3>9 DEF RespArmed
  <2> QED BY <2>1, <2>2
<1> QED BY <1>3, <1>8, <1>9, <1>10 DEF AesExchange

(* A frame leaves. With the poll everything still under way for an earlier *)
(* one becomes what ends before the receiver opens.                        *)
LEMMA AesTransmits ==
  ASSUME RoundTripFits, AesInv, AesTypes', NEW n \in Node, Transmit(n),
         UNCHANGED <<pc, nap, lag, hdr, frameCnt, used, nonces>>
  PROVE  AesExchange' /\ Counters'
<1>t. /\ AesTypes /\ AesPhases /\ AesRoles /\ OnAir /\ PollTaken /\ RespArmed /\ RespTaken
      /\ Counters /\ "I" \in Node /\ "R" \in Node
  BY DEF AesInv, AesExchange, Node
<1>n. /\ mode \in [Node -> Modes] /\ status \in [Node -> SUBSET Flags]
      /\ left \in [Node -> Nat] /\ w4r \in [Node -> BOOLEAN]
      /\ txTs \in [Node -> Timestamps] /\ txBuf \in [Node -> AesFrames]
      /\ UNCHANGED <<rxTs, rxBuf, rxDly, clock>>
  BY <1>t DEF AesTypes, LinkTypeOK, Transmit
<1> HIDE DEF AesFrames
<1> DEFINE new == [to |-> Peer(n), left |-> FLIGHT, frame |-> txBuf[n]]
<1>a. /\ mode[n] = "tx" /\ left[n] = 0 /\ air' = air \cup {new}
      /\ mode'[n] = (IF w4r[n] THEN "gap" ELSE "idle") /\ left'[n] = (IF w4r[n] THEN rxDly[n] ELSE 0)
      /\ status'[n] = status[n] \cup {"TXFRS"} /\ txBuf'[n].kind = "none" /\ txTs'[n] = clock[n]
      /\ \A i \in Node \ {n} : /\ mode'[i] = mode[i] /\ left'[i] = left[i] /\ status'[i] = status[i]
                               /\ txBuf'[i] = txBuf[i] /\ txTs'[i] = txTs[i]
  BY <1>n DEF Transmit, NoFrame, Frame
<1>p. HasPoll' = HasPoll /\ \A k : Unanswered(k)' = Unanswered(k)
  BY <1>t, <1>n, <1>a DEF HasPoll, Unanswered, Node
<1>c. CountsUp => CountsUp'
  BY DEF CountsUp
<1>f. new.frame = txBuf[n] /\ new.left = FLIGHT
  OBVIOUS
<1> HIDE DEF new
<1>1. CASE n = "I"
  <2> DEFINE d == POLL_TX_TO_RESP_RX_DLY
  <2>1. pc["I"] = "waitResp" /\ NextPoll = 0 /\ w4r["I"] /\ "RXFCG" \notin status["I"]
    BY <1>t, <1>n, <1>a, <1>1 DEF NextPoll, AesPhases, AesRoles, Asleep, RxWait, NoRxFlag, RxMask
  <2>2. /\ mode'["I"] = "gap" /\ left'["I"] = d /\ NextPoll' = d /\ txTs'["I"] = clock["I"]
        /\ mode'["R"] = mode["R"] /\ left'["R"] = left["R"] /\ txBuf'["R"] = txBuf["R"]
        /\ status'["R"] = status["R"] /\ status'["I"] = status["I"] \cup {"TXFRS"}
    BY <1>t, <1>n, <1>a, <1>1, <2>1 DEF NextPoll, AesRoles, Node
  <2>3. /\ \A t \in Int : \A f : PollDue(t, f) => PollDue(t, f)'
        /\ \A t \in Int : \A f : RespDue(t, f) => RespDue(t, f)'
    <3>1. ASSUME NEW t \in Int, Gone(t) \/ InTime(t) PROVE Gone(t)'
      <4>1. t < NextPoll + d
        BY <1>a, <1>1, <3>1 DEF Gone, InTime
      <4> QED BY <2>1, <2>2, <4>1, AesNumbers DEF Gone
    <3>2. ASSUME NEW t \in Int, NEW f, PollDue(t, f) PROVE PollDue(t, f)'
      <4>1. t + Reply + FLIGHT \in Int
        BY AesNumbers
      <4>2. Gone(t + Reply + FLIGHT)'
        BY <3>1, <3>2, <4>1 DEF PollDue
      <4> QED BY <4>2 DEF PollDue
    <3>3. ASSUME NEW t \in Int, NEW f, RespDue(t, f) PROVE RespDue(t, f)'
      BY <3>1, <3>3 DEF RespDue
    <3> QED BY <3>2, <3>3
  <2>4. /\ new.frame.kind \in {"poll", "plain"} /\ new.frame.data = <<hdr["I"]>>
        /\ new.frame.data[1] = hdr["I"]
    BY <1>t, <1>a, <1>f, <1>1 DEF AesRoles, Frame
  <2>5. ASSUME NEW f, f = new.frame PROVE PollDue(FLIGHT, f)'
    <3>1. InTime(FLIGHT + Reply + FLIGHT)'
      BY <2>2, AesNumbers DEF InTime, RoundTripFits
    <3>2. SincePoll(clock["I"] + FLIGHT, FLIGHT)'
      <4>1. clock["I"] \in Int /\ clock'["I"] = clock["I"] /\ FLIGHT \in Int
        BY <1>t, <1>n, AesTimes, AesNumbers
      <4>2. (clock["I"] + FLIGHT) - clock["I"] = FLIGHT
        BY <4>1
      <4>3. SameLo(FLIGHT, FLIGHT)
        BY <4>1, SameLoEquivalence
      <4> QED BY <2>2, <4>1, <4>2, <4>3 DEF SincePoll
    <3>3. Counted(f.data[1])'
      BY <2>4, <2>5 DEF Counted
    <3> QED BY <3>1, <3>2, <3>3 DEF PollDue
  <2>6. OnAir'
    <3>1. ASSUME NEW m \in air'
          PROVE  /\ m.frame.kind = "poll" => PollDue(m.left, m.frame)'
                 /\ m.frame.kind = "resp" => RespDue(m.left, m.frame)'
      <4>1. CASE m = new
        <5>1. PollDue(FLIGHT, m.frame)'
          BY <2>5, <4>1
        <5> QED BY <1>f, <2>4, <4>1, <5>1
      <4>2. CASE m \in air
        <5>1. m.left \in Int
          BY <1>t, <4>2, AesTimes
        <5> QED BY <1>t, <2>3, <4>2, <5>1 DEF OnAir
      <4> QED BY <1>a, <4>1, <4>2
    <3> QED BY <3>1 DEF OnAir
  <2>7. PollTaken'
    <3>1. lag["R"] \in Nat /\ 0 - lag["R"] \in Int
      BY <1>t, AesTimes
    <3>2. ASSUME NEW t \in Int, NEW f, t = 0 - lag["R"], f = rxBuf["R"],
                 HasPoll, lag["R"] <= POLL_RX_TO_RESP_TX_DLY
          PROVE  PollDue(t, f)'
      BY <1>t, <2>3, <3>2 DEF PollTaken
    <3>3. HasPoll /\ lag["R"] <= POLL_RX_TO_RESP_TX_DLY
            => PollDue(0 - lag["R"], rxBuf["R"])'
      BY <1>n, <3>1, <3>2 DEF PollDue
    <3> QED BY <1>t, <1>n, <1>p, <3>3 DEF PollTaken
  <2>8. RespArmed'
    <3>1. left["R"] + FLIGHT \in Int
      BY <1>t, AesTimes, AesNumbers
    <3>2. ASSUME NEW t \in Int, NEW f, t = left["R"] + FLIGHT, f = txBuf["R"], mode["R"] = "tx"
          PROVE  f.kind = "resp" /\ RespDue(t, f)'
      BY <1>t, <2>3, <3>2 DEF RespArmed
    <3>3. mode["R"] = "tx" => txBuf["R"].kind = "resp" /\ RespDue(left["R"] + FLIGHT, txBuf["R"])'
      BY <2>2, <3>1, <3>2 DEF RespDue
    <3> QED BY <2>2, <3>3 DEF RespArmed
  <2>9. RespTaken' /\ AesRoles'
    BY <1>t, <1>n, <2>1, <2>2 DEF RespTaken, HasResp, AesRoles
  <2>10. PollsDiffer => PollsDiffer'
    <3> SUFFICES ASSUME PollsDiffer PROVE PollsDiffer'
      OBVIOUS
    <3>1. /\ Unanswered(hdr["I"]) /\ (HasPoll => hdr["I"] # rxBuf["R"].data[1])
          /\ \A m \in air : m.frame.kind = "poll" => m.frame.data[1] # hdr["I"]
      BY <1>a, <1>1 DEF PollsDiffer
    <3>2. ASSUME NEW m \in air', m.frame.kind = "poll"
          PROVE  /\ Unanswered(m.frame.data[1])
                 /\ \A o \in air' \ {m} : o.frame.kind = "poll" => o.frame.data[1] # m.frame.data[1]
                 /\ HasPoll => m.frame.data[1] # rxBuf["R"].data[1]
      <4>1. CASE m = new
        <5>1. m.frame.data[1] = hdr["I"]
          BY <2>4, <4>1
        <5>2. \A o \in air' \ {m} : o \in air
          BY <1>a, <4>1
        <5> QED BY <3>1, <5>1, <5>2
      <4>2. CASE m # new
        BY <1>a, <2>4, <3>1, <3>2, <4>2 DEF PollsDiffer
      <4> QED BY <4>1, <4>2
    <3> QED BY <1>n, <1>p, <2>2, <3>2 DEF PollsDiffer
  <2> QED BY <1>t, <1>c, <2>6, <2>7, <2>8, <2>9, <2>10 DEF AesExchange, Counters
<1>2. CASE n = "R"
  <2>1. /\ txBuf["R"].kind = "resp" /\ RespDue(FLIGHT, txBuf["R"])
    <3>1. left["R"] = 0 /\ left["R"] + FLIGHT = FLIGHT
      BY <1>a, <1>2, AesNumbers
    <3> QED BY <1>t, <1>a, <1>2, <3>1 DEF RespArmed
  <2>2. /\ mode'["R"] \in {"idle", "gap"} /\ txTs'["I"] = txTs["I"] /\ mode'["I"] = mode["I"]
        /\ status'["I"] = status["I"] /\ txBuf'["I"] = txBuf["I"] /\ left'["I"] = left["I"]
    BY <1>n, <1>a, <1>2 DEF Node
  <2>3. Steady
    <3>1. NextPoll' = NextPoll /\ NextPoll \in Int
      BY <1>t, <2>2, AesTimes DEF NextPoll
    <3>2. NextPoll' >= NextPoll
      BY <3>1
    <3> QED BY <1>n, <2>2, <3>2 DEF Steady, Counted
  <2>4. OnAir'
    <3>1. ASSUME NEW m \in air'
          PROVE  /\ m.frame.kind = "poll" => PollDue(m.left, m.frame)'
                 /\ m.frame.kind = "resp" => RespDue(m.left, m.frame)'
      <4>1. CASE m = new
        <5>1. m.frame.kind = "resp" /\ RespDue(m.left, m.frame) /\ m.left \in Nat
          BY <1>f, <1>2, <2>1, <4>1, AesNumbers
        <5> QED BY <1>t, <2>3, <5>1, Kept
      <4>2. CASE m \in air
        <5>1. m.left \in Nat /\ m.left \in Int /\ m.left + Reply + FLIGHT >= 0
          BY <1>t, <4>2, AesTimes, AesNumbers
        <5> QED BY <1>t, <2>3, <4>2, <5>1, Kept DEF OnAir
      <4> QED BY <1>a, <4>1, <4>2
    <3> QED BY <3>1 DEF OnAir
  <2>5. RespTaken'
    BY <1>t, <1>n, <2>2, <2>3, Kept DEF RespTaken, HasResp
  <2>6. RespArmed' /\ AesRoles'
    BY <1>t, <1>n, <2>2 DEF RespArmed, AesRoles
  <2>7. ~HasPoll'
    BY <1>t, <1>n, <1>a, <1>2, <1>p DEF HasPoll, AesPhases, ReceiverPhases, Listening, Hearing
  <2>8. PollTaken'
    BY <2>7 DEF PollTaken
  <2>9. PollsDiffer => PollsDiffer'
    <3>1. new.frame.kind # "poll"
      BY <1>f, <1>2, <2>1
    <3> QED BY <1>a, <1>n, <1>p, <2>2, <2>7, <3>1 DEF PollsDiffer
  <2> QED BY <1>t, <1>c, <2>4, <2>5, <2>6, <2>8, <2>9 DEF AesExchange, Counters
<1> QED BY <1>1, <1>2 DEF Node

(* What the chips and the air do to the exchange.                          *)
LEMMA AesRadioSteps ==
  ASSUME RoundTripFits, AesInv, AesTypes', Aes!Radio
  PROVE  AesExchange' /\ Counters' /\ Aes!DistanceIsTrue'
<1>t. /\ AesTypes /\ AesPhases /\ AesRoles /\ OnAir /\ PollTaken /\ RespArmed /\ RespTaken
      /\ Counters /\ Aes!DistanceIsTrue /\ "I" \in Node /\ "R" \in Node
  BY DEF AesInv, AesExchange, Node
<1>r. /\ UNCHANGED <<pc, nap, lag, hdr, frameCnt, used, nonces, result>>
      /\ Hardware \/ Interference(Foreign)
  BY SameRadio DEF Aes!Radio, Aes!pollVars, Aes!ownVars
<1>n. /\ mode \in [Node -> Modes] /\ status \in [Node -> SUBSET Flags]
      /\ left \in [Node -> Nat] /\ rxTs \in [Node -> Timestamps] /\ rxBuf \in [Node -> AesFrames]
      /\ Foreign \subseteq ForeignKinds
  BY <1>t, LinkAssumption DEF AesTypes, LinkTypeOK
<1> HIDE DEF AesFrames
<1>d. Aes!DistanceIsTrue'
  BY <1>t, <1>r DEF Aes!DistanceIsTrue
<1>c. /\ CountsUp => CountsUp'
      /\ \A k : Unanswered(k)' = Unanswered(k)
  BY <1>r DEF CountsUp, Unanswered
(* A reception that ends leaves all that is on the air where it was; with  *)
(* a poll or a response it was one that was on its way.                    *)
<1>e. ASSUME NEW n \in Node, NEW flag, EndRx(n, flag), mode[n] = "rx", air' \subseteq air,
             \A i \in Node \ {n} : rxTs'[i] = rxTs[i] /\ rxBuf'[i] = rxBuf[i],
             flag = "RXFCG" /\ rxBuf'[n].kind \in {"poll", "resp"}
               => /\ rxTs'[n] = clock[n]
                  /\ \E m \in air : m.left = 0 /\ m.frame = rxBuf'[n] /\ air' = air \ {m}
      PROVE  AesExchange' /\ Counters'
  <2>1. /\ UNCHANGED <<clock, rxDly, txTs, txBuf>>
        /\ mode'[n] = "idle" /\ left'[n] = 0 /\ status'[n] = status[n] \cup {flag}
        /\ \A i \in Node \ {n} : mode'[i] = mode[i] /\ left'[i] = left[i] /\ status'[i] = status[i]
    BY <1>n, <1>e DEF EndRx
  <2>2. /\ n = "R" /\ pc["R"] = "waitData" => "RXFCG" \notin status["R"] /\ lag["R"] = 0
        /\ n = "I" /\ pc["I"] = "waitResp" => "RXFCG" \notin status["I"]
        /\ n = "I" => pc["I"] = "waitResp"
    BY <1>t, <1>e DEF AesPhases, ReceiverPhases, Listening, Hearing, RxWait, NoRxFlag, RxMask,
                      AesRoles, Asleep
  <2>3. Steady
    <3>1. NextPoll' = NextPoll /\ NextPoll \in Int
      BY <1>t, <1>r, <1>e, <2>1, <2>2, AesTimes DEF NextPoll, Node
    <3>2. NextPoll' >= NextPoll
      BY <3>1
    <3>3. \A k : Counted(k) => Counted(k)'
      BY <1>r, <1>e, <2>1 DEF Counted, Node
    <3> QED BY <1>e, <2>1, <3>2, <3>3 DEF Steady, Node
  <2>4. OnAir'
    BY <1>t, <1>e, <2>3, AirKept
  <2>5. AesRoles'
    BY <1>t, <1>r, <1>e, <2>1 DEF AesRoles, Node
  <2>6. CASE n = "I"
    <3>1. PollTaken' /\ RespArmed' /\ HasPoll' = HasPoll
      BY <1>t, <1>r, <1>e, <2>1, <2>3, <2>6, ResponderKept DEF Node
    <3>2. RespTaken'
      <4> SUFFICES ASSUME HasResp' PROVE RespTaken'
        BY DEF RespTaken
      <4>1. flag = "RXFCG" /\ rxBuf'["I"].kind = "resp"
        BY <1>r, <2>1, <2>2, <2>6 DEF HasResp
      <4>2. PICK m \in air : m.left = 0 /\ m.frame = rxBuf'["I"] /\ rxTs'["I"] = clock["I"]
        BY <1>e, <2>6, <4>1
      <4>3. RespDue(m.left, m.frame)
        BY <1>t, <4>1, <4>2 DEF OnAir
      <4>4. clock["I"] + m.left = clock["I"]
        BY <1>t, <4>2, AesTimes
      <4>5. Answers(rxBuf'["I"].data, rxTs'["I"])
        BY <1>e, <2>6, <4>2, <4>3, <4>4 DEF RespDue, Gone
      <4>6. ASSUME NEW data, NEW due, data = rxBuf'["I"].data, due = rxTs'["I"]
            PROVE  Answers(data, due)'
        BY <1>t, <2>3, <4>5, <4>6, Kept
      <4>7. Answers(rxBuf["I"].data, rxTs["I"])'
        BY <4>6 DEF Answers
      <4> QED BY <4>7 DEF RespTaken
    <3>3. PollsDiffer => PollsDiffer'
      <4>1. rxBuf'["R"] = rxBuf["R"] /\ mode'["I"] # "tx"
        BY <1>t, <1>e, <2>1, <2>6
      <4> QED BY <1>c, <1>e, <3>1, <4>1 DEF PollsDiffer
    <3> QED BY <1>t, <1>r, <1>c, <2>4, <2>5, <3>1, <3>2, <3>3 DEF AesExchange, Counters
  <2>7. CASE n = "R"
    <3>1. RespArmed'
      BY <2>1, <2>7 DEF RespArmed
    <3>2. RespTaken'
      <4>1. HasResp' = HasResp /\ rxBuf'["I"] = rxBuf["I"] /\ rxTs'["I"] = rxTs["I"]
        BY <1>t, <1>r, <1>e, <2>1, <2>7 DEF HasResp
      <4> QED BY <1>t, <2>3, <4>1, Kept DEF RespTaken
    <3>3. HasPoll' => /\ flag = "RXFCG" /\ rxBuf'["R"].kind = "poll" /\ lag["R"] = 0
                      /\ rxTs'["R"] = clock["R"]
      BY <1>r, <1>e, <2>1, <2>2, <2>7 DEF HasPoll
    <3>4. ASSUME HasPoll'
          PROVE  \E m \in air : m.left = 0 /\ m.frame = rxBuf'["R"] /\ air' = air \ {m}
      BY <1>e, <2>7, <3>3, <3>4
    <3>5. PollTaken'
      <4> SUFFICES ASSUME HasPoll' PROVE PollTaken'
        BY DEF PollTaken
      <4>1. PICK m \in air : m.left = 0 /\ m.frame = rxBuf'["R"]
        BY <3>4
      <4>2. lag'["R"] = 0 /\ 0 - lag'["R"] = 0
        BY <1>r, <3>3
      <4>3. clock["R"] = (clock["R"] + 0) % TSMOD
        BY <1>t, AesTimes, AesNumbers DEF Timestamps
      <4>4. m.left = 0 /\ PollDue(m.left, m.frame) /\ 0 + Reply + FLIGHT >= 0
        BY <1>t, <3>3, <4>1, AesNumbers DEF OnAir
      <4>5. ASSUME NEW f, f = m.frame PROVE PollDue(0, f)'
        BY <1>t, <2>3, <4>4, <4>5, Kept
      <4>6. PollDue(0 - lag["R"], rxBuf["R"])'
        BY <4>1, <4>2, <4>5 DEF PollDue
      <4> QED BY <2>1, <3>3, <4>2, <4>3, <4>6 DEF PollTaken
    <3>6. PollsDiffer => PollsDiffer'
      <4> SUFFICES ASSUME PollsDiffer PROVE PollsDiffer'
        OBVIOUS
      <4>1. mode'["I"] = mode["I"] /\ hdr' = hdr
        BY <1>t, <1>r, <2>1, <2>7
      <4>2. CASE HasPoll'
        <5>1. PICK m \in air : m.left = 0 /\ m.frame = rxBuf'["R"] /\ air' = air \ {m}
          BY <3>4, <4>2
        <5>2. m.frame.kind = "poll"
          BY <3>3, <4>2, <5>1
        <5>3. /\ Unanswered(rxBuf'["R"].data[1])
              /\ mode["I"] = "tx" => hdr["I"] # rxBuf'["R"].data[1] /\ Unanswered(hdr["I"])
              /\ \A o \in air' : o.frame.kind = "poll" => o.frame.data[1] # rxBuf'["R"].data[1]
          BY <5>1, <5>2 DEF PollsDiffer
        <5> QED BY <1>c, <1>e, <4>1, <5>3 DEF PollsDiffer
      <4>3. CASE ~HasPoll'
        BY <1>c, <1>e, <4>1, <4>3 DEF PollsDiffer
      <4> QED BY <4>2, <4>3
    <3> QED BY <1>t, <1>r, <1>c, <2>4, <2>5, <3>1, <3>2, <3>5, <3>6 DEF AesExchange, Counters
  <2> QED BY <2>6, <2>7 DEF Node
<1>1. ASSUME NEW n \in Node, Transmit(n) PROVE AesExchange' /\ Counters'
  BY <1>1, <1>r, AesTransmits
<1>2. ASSUME NEW n \in Node, OpenRx(n) PROVE AesExchange' /\ Counters'
  <2>1. /\ UNCHANGED <<clock, rxDly, txTs, rxTs, txBuf, status, air>>
        /\ mode[n] = "gap" /\ left[n] = 0 /\ mode'[n] = "rx" /\ rxBuf'[n].kind = "none"
        /\ \A i \in Node \ {n} : mode'[i] = mode[i] /\ left'[i] = left[i] /\ rxBuf'[i] = rxBuf[i]
    BY <1>n, <1>2 DEF OpenRx, NoFrame, Frame
  <2>2. Steady
    <3>1. NextPoll' >= NextPoll
      <4>1. CASE n = "I"
        <5>1. NextPoll = 0 /\ NextPoll' = 0
          BY <1>t, <1>r, <2>1, <4>1 DEF NextPoll, AesPhases, Asleep
        <5> QED BY <5>1
      <4>2. CASE n = "R"
        <5>1. NextPoll' = NextPoll /\ NextPoll \in Int
          BY <1>t, <1>r, <2>1, <4>2, AesTimes DEF NextPoll
        <5> QED BY <5>1
      <4> QED BY <4>1, <4>2 DEF Node
    <3>2. \A k : Counted(k) => Counted(k)'
      BY <1>r, <2>1 DEF Counted, Node
    <3> QED BY <2>1, <3>1, <3>2 DEF Steady, Node
  <2>3. OnAir'
    BY <1>t, <2>1, <2>2, AirKept
  <2>4. CASE n = "I"
    <3>1. PollTaken' /\ RespArmed' /\ HasPoll' = HasPoll
      BY <1>t, <1>r, <2>1, <2>2, <2>4, ResponderKept DEF Node
    <3>2. RespTaken' /\ AesRoles'
      BY <1>t, <1>r, <2>1, <2>4 DEF RespTaken, HasResp, AesRoles, AesPhases
    <3>3. PollsDiffer => PollsDiffer'
      <4>1. rxBuf'["R"] = rxBuf["R"] /\ mode'["I"] # "tx"
        BY <1>t, <2>1, <2>4
      <4> QED BY <1>c, <2>1, <3>1, <4>1 DEF PollsDiffer
    <3> QED BY <1>t, <1>r, <1>c, <2>3, <3>1, <3>2, <3>3 DEF AesExchange, Counters
  <2>5. CASE n = "R"
    <3>1. ~HasPoll' /\ mode'["R"] # "tx" /\ pc["R"] # "waitData"
      BY <1>t, <1>r, <2>1, <2>5 DEF HasPoll, AesPhases, ReceiverPhases, Listening
    <3>2. PollTaken' /\ RespArmed' /\ AesRoles'
      BY <1>t, <1>r, <2>1, <2>5, <3>1 DEF PollTaken, RespArmed, AesRoles
    <3>3. RespTaken'
      <4>1. HasResp' = HasResp /\ rxBuf'["I"] = rxBuf["I"] /\ rxTs'["I"] = rxTs["I"]
        BY <1>t, <1>r, <2>1, <2>5 DEF HasResp
      <4> QED BY <1>t, <2>2, <4>1, Kept DEF RespTaken
    <3>4. PollsDiffer => PollsDiffer'
      <4>1. mode'["I"] = mode["I"] /\ hdr' = hdr
        BY <1>t, <1>r, <2>1, <2>5
      <4> QED BY <1>c, <2>1, <3>1, <4>1 DEF PollsDiffer
    <3> QED BY <1>t, <1>r, <1>c, <2>3, <3>2, <3>3, <3>4 DEF AesExchange, Counters
  <2> QED BY <2>4, <2>5 DEF Node
<1>3. ASSUME NEW n \in Node, RxTimeout(n) PROVE AesExchange' /\ Counters'
  BY <1>e, <1>3 DEF RxTimeout
<1>4. ASSUME NEW m \in air, Receive(m) PROVE AesExchange' /\ Counters'
  <2>1. /\ m.to \in Node /\ m.left = 0 /\ mode[m.to] = "rx" /\ EndRx(m.to, "RXFCG")
        /\ air' \subseteq air /\ air' = air \ {m} /\ rxTs'[m.to] = clock[m.to]
        /\ rxBuf'[m.to] = m.frame
        /\ \A i \in Node \ {m.to} : rxTs'[i] = rxTs[i] /\ rxBuf'[i] = rxBuf[i]
    BY <1>t, <1>n, <1>4, AesTimes DEF Receive
  <2> QED BY <1>e, <2>1
<1>5. ASSUME NEW m \in air, Miss(m) PROVE AesExchange' /\ Counters'
  <2>1. UNCHANGED <<clock, chipVars, rxDly>> /\ air' \subseteq air
    BY <1>5 DEF Miss
  <2>2. Steady
    <3>1. NextPoll' = NextPoll /\ NextPoll \in Int
      BY <1>t, <1>r, <2>1, AesTimes DEF NextPoll, chipVars
    <3>2. NextPoll' >= NextPoll
      BY <3>1
    <3> QED BY <1>r, <2>1, <3>2 DEF Steady, Counted, chipVars
  <2>3. OnAir' /\ PollTaken' /\ RespArmed' /\ HasPoll' = HasPoll
    BY <1>t, <1>r, <2>1, <2>2, AirKept, ResponderKept DEF chipVars
  <2>4. RespTaken' /\ AesRoles'
    BY <1>t, <1>r, <2>1, <2>2, Kept DEF chipVars, RespTaken, HasResp, AesRoles
  <2>5. PollsDiffer => PollsDiffer'
    BY <1>c, <1>r, <2>1, <2>3 DEF chipVars, PollsDiffer
  <2> QED BY <1>t, <1>r, <1>c, <2>3, <2>4, <2>5 DEF AesExchange, Counters
<1>6. ASSUME NEW m \in air, Corrupt(m) PROVE AesExchange' /\ Counters'
  <2>1. /\ m.to \in Node /\ mode[m.to] = "rx" /\ EndRx(m.to, "RXERR")
        /\ air' \subseteq air /\ UNCHANGED <<rxTs, rxBuf>>
    BY <1>t, <1>6, AesTimes DEF Corrupt
  <2> QED BY <1>e, <2>1
<1>7. ASSUME NEW n \in Node, NEW k \in Foreign, Interfere(n, k) PROVE AesExchange' /\ Counters'
  <2>1. CASE k = "bad"
    BY <1>e, <1>7, <2>1 DEF Interfere
  <2>2. CASE k # "bad"
    <3>1. /\ mode[n] = "rx" /\ EndRx(n, "RXFCG") /\ air' \subseteq air
          /\ rxBuf'[n].kind \notin {"poll", "resp"}
          /\ \A i \in Node \ {n} : rxTs'[i] = rxTs[i] /\ rxBuf'[i] = rxBuf[i]
      BY <1>n, <1>7, <2>2 DEF Interfere, Frame, ForeignKinds
    <3> QED BY <1>e, <3>1
  <2> QED BY <2>1, <2>2
<1> QED
  BY <1>d, <1>r, <1>1, <1>2, <1>3, <1>4, <1>5, <1>6, <1>7 DEF Hardware, Interference

(* A tick brings everything nearer.                                        *)
LEMMA AesTickSteps ==
  ASSUME AesInv, AesTypes', Aes!Tick
  PROVE  AesExchange' /\ Counters' /\ Aes!DistanceIsTrue'
<1>t. /\ AesTypes /\ AesPhases /\ AesRoles /\ OnAir /\ PollTaken /\ RespArmed /\ RespTaken
      /\ Counters /\ Aes!DistanceIsTrue /\ "I" \in Node /\ "R" \in Node
  BY DEF AesInv, AesExchange, Node
<1> HIDE DEF AesFrames
<1>n. /\ UNCHANGED <<pc, mode, status, txTs, rxTs, txBuf, rxBuf, rxDly>>
      /\ UNCHANGED <<hdr, frameCnt, used, nonces, result>>
      /\ clock'["R"] = (clock["R"] + 1) % TSMOD
      /\ mode["R"] = "tx" => left'["R"] = left["R"] - 1
      /\ lag'["R"] = (IF Aes!HostDue("R") THEN lag["R"] + 1 ELSE 0)
      /\ air' = {Nearer(m) : m \in air}
  BY AesTicks DEF HostTick, LinkTick, CountsDown, Node
<1>p. HasPoll' = HasPoll /\ \A k : Unanswered(k)' = Unanswered(k)
  BY <1>n DEF HasPoll, Unanswered
<1>1. OnAir'
  <2>1. ASSUME NEW m \in air'
        PROVE  /\ m.frame.kind = "poll" => PollDue(m.left, m.frame)'
               /\ m.frame.kind = "resp" => RespDue(m.left, m.frame)'
    <3>1. PICK o \in air : m = Nearer(o)
      BY <1>n
    <3>2. o.left \in Int /\ m.left = o.left - 1 /\ m.frame = o.frame
      BY <1>t, <3>1, AesTimes DEF Nearer
    <3>3. ASSUME NEW t \in Int, NEW f, t = o.left, f = m.frame
          PROVE  /\ f.kind = "poll" => PollDue(t - 1, f)'
                 /\ f.kind = "resp" => RespDue(t - 1, f)'
      BY <1>t, <3>2, <3>3, Passed DEF OnAir
    <3>4. ASSUME NEW t \in Int, t = o.left
          PROVE  /\ m.frame.kind = "poll" => PollDue(t - 1, m.frame)'
                 /\ m.frame.kind = "resp" => RespDue(t - 1, m.frame)'
      BY <3>3, <3>4
    <3>5. PICK t \in Int : t = o.left /\ m.left = t - 1
      BY <3>2
    <3> QED BY <3>4, <3>5
  <2> QED BY <2>1 DEF OnAir
<1>2. PollTaken'
  <2> SUFFICES ASSUME HasPoll' PROVE PollTaken'
    BY DEF PollTaken
  <2>1. HasPoll /\ lag'["R"] = lag["R"] + 1
    <3>1. HasPoll
      BY <1>p
    <3>2. Aes!HostDue("R")
      BY <3>1 DEF HasPoll, Aes!HostDue, Aes!Noticed, Aes!Awaited, Aes!TxPoints, Aes!DataPoints,
                  Aes!RxMask
    <3> QED BY <1>n, <3>1, <3>2
  <2>2. lag["R"] \in Nat /\ clock["R"] \in Int /\ rxTs["R"] \in Int
    BY <1>t, AesTimes
  <2>3. clock'["R"] = (rxTs["R"] + lag'["R"]) % TSMOD
    BY <1>t, <1>n, <2>1, <2>2, CountedOn DEF PollTaken
  <2>4. ASSUME NEW t \in Int, NEW f, t = 0 - lag["R"], f = rxBuf["R"],
               lag'["R"] <= POLL_RX_TO_RESP_TX_DLY
        PROVE  PollDue(t - 1, f)'
    <3>1. lag["R"] <= POLL_RX_TO_RESP_TX_DLY
      BY <2>1, <2>2, <2>4, AesNumbers
    <3> QED BY <1>t, <2>1, <2>4, <3>1, Passed DEF PollTaken
  <2>5. ASSUME lag'["R"] <= POLL_RX_TO_RESP_TX_DLY
        PROVE  PollDue(0 - lag["R"], rxBuf["R"])'
    <3>1. PICK t \in Int : t = 0 - lag["R"] /\ t - 1 = 0 - lag'["R"]
      BY <2>1, <2>2
    <3>2. ASSUME NEW f, f = rxBuf["R"] PROVE PollDue(t - 1, f)'
      BY <2>4, <2>5, <3>1, <3>2
    <3> QED BY <1>n, <3>1, <3>2 DEF PollDue
  <2> QED BY <1>n, <2>3, <2>5 DEF PollTaken
<1>3. RespArmed'
  <2> SUFFICES ASSUME mode'["R"] = "tx" PROVE RespArmed'
    BY DEF RespArmed
  <2>1. left["R"] \in Nat /\ left'["R"] = left["R"] - 1 /\ FLIGHT \in Nat
    BY <1>t, <1>n, AesTimes, AesNumbers
  <2>2. txBuf["R"].kind = "resp" /\ RespDue(left["R"] + FLIGHT, txBuf["R"])
    BY <1>t, <1>n DEF RespArmed
  <2>3. PICK t \in Int : t = left["R"] + FLIGHT /\ t - 1 = left'["R"] + FLIGHT
    BY <2>1
  <2>4. ASSUME NEW f, f = txBuf["R"] PROVE RespDue(t - 1, f)'
    BY <1>t, <2>2, <2>3, <2>4, Passed
  <2>5. RespDue(left["R"] + FLIGHT, txBuf["R"])'
    BY <1>n, <2>3, <2>4 DEF RespDue
  <2> QED BY <1>n, <2>2, <2>5 DEF RespArmed
<1>4. RespTaken'
  BY <1>t, <1>n DEF RespTaken, HasResp, Answers, Counted, SincePoll
<1>5. AesRoles'
  <2>1. pc["R"] = "waitData" /\ mode["R"] = "rx" => ~Aes!HostDue("R")
    BY <1>t DEF Aes!HostDue, Aes!Noticed, Aes!Awaited, Aes!Awake, Aes!Rested, Aes!TxPoints,
                Aes!DataPoints, Aes!RxMask, AesPhases, ReceiverPhases, Listening, Hearing,
                RxWait, NoRxFlag, RxMask
  <2> QED BY <1>t, <1>n, <2>1 DEF AesRoles
<1>6. Counters'
  <2>1. PollsDiffer => PollsDiffer'
    <3> SUFFICES ASSUME PollsDiffer PROVE PollsDiffer'
      OBVIOUS
    <3>1. ASSUME NEW m \in air', m.frame.kind = "poll"
          PROVE  /\ Unanswered(m.frame.data[1])
                 /\ \A o \in air' \ {m} : o.frame.kind = "poll" => o.frame.data[1] # m.frame.data[1]
                 /\ mode["I"] = "tx" => m.frame.data[1] # hdr["I"]
                 /\ HasPoll => m.frame.data[1] # rxBuf["R"].data[1]
      <4>1. PICK a \in air : m = Nearer(a)
        BY <1>n
      <4>2. m.frame = a.frame
        BY <4>1 DEF Nearer
      <4>3. ASSUME NEW o \in air' \ {m}, o.frame.kind = "poll"
            PROVE  o.frame.data[1] # m.frame.data[1]
        <5>1. PICK b \in air : o = Nearer(b)
          BY <1>n
        <5>2. o.frame = b.frame /\ a # b
          BY <4>1, <4>3, <5>1 DEF Nearer
        <5> QED BY <3>1, <4>2, <4>3, <5>2 DEF PollsDiffer
      <4> QED BY <3>1, <4>2, <4>3 DEF PollsDiffer
    <3> QED BY <1>n, <1>p, <3>1 DEF PollsDiffer
  <2>2. CountsUp => CountsUp'
    BY <1>n DEF CountsUp
  <2> QED BY <1>t, <1>n, <2>1, <2>2 DEF Counters
<1>7. Aes!DistanceIsTrue'
  BY <1>t, <1>n DEF Aes!DistanceIsTrue
<1> QED BY <1>1, <1>2, <1>3, <1>4, <1>5, <1>6, <1>7 DEF AesExchange

LEMMA AesStart == Init /\ app = "aes" => AesTypes /\ AesExchange /\ Counters /\ Aes!DistanceIsTrue
  <1> SUFFICES ASSUME Aes!Init PROVE AesTypes /\ AesExchange /\ Counters /\ Aes!DistanceIsTrue
    BY DEF Init
  <1> USE DEF Aes!Init, Aes!Idle, Aes!LinkInit, Aes!HostInit, Aes!Node, Node, Aes!NoFrame,
              NoFrame, Aes!Frame, Frame
  <1>1. AesTypes
    <2>1. LinkTypeOK(AesFrames)
      <3>1. NoFrame \in AesFrames /\ 0 \in Timestamps /\ Starts \subseteq Timestamps
        <4>1. 0 \in Timestamps
          BY AesNumbers DEF Timestamps
        <4> QED BY <4>1, AesCarries, PolledAssumption
                DEF PolledAssumption, Aes!AesAssumption, Timestamps, Aes!Timestamps
      <3>2. POLL_TX_TO_RESP_RX_DLY \in Nat /\ RESP_RX_TIMEOUT \in Nat /\ MaxFaults \in Nat
        BY PolledAssumption, LinkAssumption DEF PolledAssumption, Aes!AesAssumption
      <3> HIDE DEF AesFrames
      <3> QED BY <3>1, <3>2 DEF LinkTypeOK, Modes
    <2>2. HostTypeOK(AesFrames)
      BY AesCarries, AesNumbers DEF HostTypeOK, Points
    <2> QED BY <2>1, <2>2 DEF AesTypes
  <1>2. AesExchange
    BY DEF AesExchange, AesRoles, OnAir, PollTaken, HasPoll, RespArmed, RespTaken, HasResp
  <1>3. Counters
    BY DEF Counters, PollsDiffer, HasPoll, CountsUp
  <1>4. Aes!DistanceIsTrue
    BY DEF Aes!DistanceIsTrue
  <1> QED BY <1>1, <1>2, <1>3, <1>4

LEMMA AesAlways ==
  ASSUME RoundTripFits
  PROVE  Spec => [](app = "aes" => Counters /\ Aes!DistanceIsTrue)
  <1> DEFINE Now == AesTypes /\ AesExchange /\ Counters /\ Aes!DistanceIsTrue
             Inv == app = "aes" => Now
  <1>1. Init => Inv
    BY AesStart
  <1>2. Phases /\ Inv /\ [Next]_vars => Inv'
    <2> SUFFICES ASSUME Phases, Inv, [Next]_vars, app' = "aes" PROVE Now'
      OBVIOUS
    <2>1. app = "aes" /\ AesPhases /\ Now /\ AesInv
      BY DEF Next, Runs, vars, Phases, AesInv
    <2>2. CASE Aes!Next
      <3>1. AesTypes'
        BY <2>1, <2>2, AesTypesStep
      <3> QED BY <2>1, <2>2, <3>1, AesInitiatorSteps, AesResponderSteps, AesRadioSteps,
                 AesTickSteps DEF Aes!Next
    <2>3. CASE UNCHANGED <<hostVars, aesVars>>
      <3>1. /\ UNCHANGED linkVars /\ UNCHANGED <<pc, nap, lag, buf>>
            /\ UNCHANGED <<hdr, frameCnt, used, nonces, result>>
        BY <2>3 DEF hostVars, pollVars, aesVars
      <3> HIDE DEF AesFrames
      <3>2. AesTypes'
        BY <2>1, <3>1 DEF linkVars, chipVars, AesTypes, LinkTypeOK, HostTypeOK
      <3>3. OnAir' /\ PollTaken' /\ RespArmed' /\ RespTaken'
        <4>1. Steady
          <5>1. NextPoll' = NextPoll /\ NextPoll \in Int
            BY <2>1, <3>1, AesTimes DEF NextPoll, linkVars, chipVars
          <5>2. NextPoll' >= NextPoll
            BY <5>1
          <5> QED BY <3>1, <5>2 DEF linkVars, chipVars, Steady, Counted
        <4>2. OnAir' /\ PollTaken' /\ RespArmed'
          BY <2>1, <3>1, <3>2, <4>1, AirKept, ResponderKept DEF linkVars, chipVars, AesExchange
        <4>3. RespTaken'
          BY <2>1, <3>1, <3>2, <4>1, Kept DEF linkVars, chipVars, AesExchange, RespTaken, HasResp
        <4> QED BY <4>2, <4>3
      <3>4. AesRoles'
        BY <2>1, <3>1 DEF linkVars, chipVars, AesExchange, AesRoles
      <3>5. Counters'
        BY <2>1, <3>1
           DEF linkVars, chipVars, Counters, PollsDiffer, HasPoll, Unanswered, CountsUp
      <3> QED BY <2>1, <3>1, <3>2, <3>3, <3>4, <3>5 DEF AesExchange, Aes!DistanceIsTrue
    <2> QED BY <2>1, <2>2, <2>3 DEF Next, Runs, vars
  <1>3. Inv => (app = "aes" => Counters /\ Aes!DistanceIsTrue)
    OBVIOUS
  <1> QED BY <1>1, <1>2, <1>3, PhasesAlways, PTL DEF Spec

(* Examples 6e and 6f: no node ever encrypts two frames with one counter,  *)
(* however many polls and responses are lost, corrupted or late, as long   *)
(* as the initiator has read no frame of another network.                  *)
THEOREM NoCounterTwice ==
  ASSUME RoundTripFits
  PROVE  Spec => []CounterFresh
  <1>1. (app = "aes" => Counters /\ Aes!DistanceIsTrue) => CounterFresh
    BY DEF CounterFresh, Aes!CounterFresh, Counters
  <1> QED BY <1>1, AesAlways, PTL

(* Examples 6e and 6f: the initiator only ever reports the true time of    *)
(* flight.                                                                 *)
THEOREM EncryptedDistanceTrue ==
  ASSUME RoundTripFits
  PROVE  Spec => [](app = "aes" => Aes!DistanceIsTrue)
  BY AesAlways, PTL

-----------------------------------------------------------------------------
(* Ranging with STS, the exchange. All that follows a poll is over before  *)
(* the next poll; the round trips fit the 32-bit copies, and for the       *)
(* single-sided formula half their range; a delay is at least one unit of  *)
(* the resolution of delayed transmissions; and a host that is too late    *)
(* for one finds the time behind its clock.                                *)
Last == RESP_RX_TO_FINAL_TX_DLY + TX_ANT_DLY

StsSwift ==
  /\ 2 * FLIGHT + 2 * POLL_RX_TO_RESP_TX_DLY + TX_ANT_DLY < RNG_DELAY
  /\ 2 * FLIGHT + Reply < LOMOD \div 2
  /\ 2 * FLIGHT + Last < LOMOD
  /\ QUANTUM <= POLL_RX_TO_RESP_TX_DLY /\ QUANTUM <= RESP_RX_TO_FINAL_TX_DLY
  /\ Reply + MaxLag + QUANTUM <= TSMOD \div 2

(* The ticks from now before which no further poll is started, and what    *)
(* follows a poll that R gets in "t" ticks ends before that.               *)
Pause == IF pc["I"] = "sleep" THEN nap["I"]
         ELSE RNG_DELAY + IF mode["I"] = "tx" THEN left["I"] ELSE 0

OverBefore(t) == t + 2 * POLL_RX_TO_RESP_TX_DLY + TX_ANT_DLY + FLIGHT < Pause

(* The frames on their way, those that are armed included.                 *)
Coming ==
  air \cup {[to |-> Peer(n), left |-> left[n] + FLIGHT, frame |-> txBuf[n]] :
              n \in {i \in Node : mode[i] = "tx"}}

(* When a node sent last, or will have sent, by its own clock; how far the *)
(* clocks are apart; and the responder's turnaround.                       *)
Sent(n) == IF mode[n] = "tx" THEN clock[n] + left[n] ELSE txTs[n]
Offset  == clock["I"] - clock["R"]
Turn    == DelayedTxTs(pollRxTs, POLL_RX_TO_RESP_TX_DLY) - pollRxTs

(* What the arrival of a frame, when the clock of its receiver shows       *)
(* "due", and its data have to do with the last poll and its reception.    *)
PollArrives(due) == SameLo(due + Offset, Sent("I") + FLIGHT)

Told == <<MsgTs(pollRxTs), MsgTs(DelayedTxTs(pollRxTs, POLL_RX_TO_RESP_TX_DLY))>>

RespSays(data, due) ==
  /\ PollArrives(pollRxTs)
  /\ SameLo(due - Offset, pollRxTs + Turn + FLIGHT)
  /\ proto = "ss" => data = <<1, Told[1], Told[2]>>

FinalSays(data, due) ==
  \E pollTx, respRx, finalTx \in 0 .. LOMOD - 1, last \in 0 .. Last :
    /\ data = <<2, pollTx, respRx, finalTx>>
    /\ SameLo(respRx - pollTx, 2 * FLIGHT + Turn) /\ SameLo(finalTx - respRx, last)
    /\ SameLo(due, pollRxTs + Turn + 2 * FLIGHT + last)

HasIt(n, kind) == "RXFCG" \in status[n] /\ rxBuf[n].kind = kind

GotAPoll   == pc["R"] = "listen" /\ HasIt("R", "poll")
GotAResp   == /\ pc["I"] = "waitResp" \/ (pc["I"] = "waitPoll" /\ proto = "ds")
              /\ HasIt("I", "resp")
GotAFinal  == pc["R"] \in {"waitPoll", "waitFinal"} /\ proto = "ds" /\ HasIt("R", "final")
GotAReport == pc["I"] = "waitReport" /\ HasIt("I", "report")
Timely     == lag["R"] <= POLL_RX_TO_RESP_TX_DLY
Reporting  == pc["R"] = "waitPoll" /\ proto = "nd"

(* Each of them ...                                                        *)
ComingFits == \A m \in Coming :
  /\ m.left < Pause
  /\ m.frame.kind \in IF m.to = "R" THEN {"poll", "final"} ELSE {"resp", "report"}
  /\ m.frame.kind = "poll"   => OverBefore(m.left) /\ PollArrives(clock["R"] + m.left)
  /\ m.frame.kind = "resp"   => RespSays(m.frame.data, clock["I"] + m.left)
  /\ m.frame.kind = "final"  => FinalSays(m.frame.data, clock["R"] + m.left)
  /\ m.frame.kind = "report" => m.frame.data = Told

PollFits == GotAPoll =>
  /\ clock["R"] = (rxTs["R"] + lag["R"]) % TSMOD
  /\ Timely => OverBefore(0 - lag["R"]) /\ PollArrives(rxTs["R"])

RespFits   == GotAResp => RespSays(rxBuf["I"].data, rxTs["I"])
FinalFits  == GotAFinal => FinalSays(rxBuf["R"].data, rxTs["R"])
ReportFits == GotAReport => rxBuf["I"].data = Told

KeptFits == pc["I"] = "waitReport" =>
  \E pollTx, respRx \in 0 .. LOMOD - 1 :
    kept = <<pollTx, respRx>> /\ SameLo(respRx - pollTx, 2 * FLIGHT + Turn)

SentFits == pc["R"] \in {"waitPoll", "waitFinal"} /\ proto = "ds" =>
  SameLo(Sent("R"), pollRxTs + Turn)

ReportingFits == Reporting =>
  \E l \in Nat :
    /\ clock["R"] = (pollRxTs + l) % TSMOD
    /\ l + (IF mode["R"] = "tx" THEN left["R"] ELSE 0) <= Reply + lag["R"]
    /\ l <= 2 * POLL_RX_TO_RESP_TX_DLY =>
         OverBefore(0 - l) /\ \A m \in Coming : m.frame.kind # "poll"

(* ... but no two exchanges at once.                                       *)
Apart ==
  /\ \A m, o \in Coming : m = o \/ (proto = "nd" /\ m.frame.kind # "poll")
  /\ GotAPoll => /\ \A m \in Coming : m.frame.kind = "poll"
                 /\ Timely => Coming = {}
  /\ GotAPoll \/ (\E m \in Coming : m.frame.kind = "poll")
       => ~GotAResp /\ pc["I"] # "waitReport"
  /\ GotAResp /\ proto = "ds" => Coming = {}

(* The roles and the counters.                                             *)
StsRoles ==
  /\ rxBuf["I"].kind \notin {"poll", "final"} /\ rxBuf["R"].kind \notin {"resp", "report"}
  /\ pc["I"] \in {"waitPoll", "waitResp"} => sts["I"] = 1
  /\ pc["R"] = "listen" => sts["R"] = 0 /\ (mode["R"] # "idle" => lag["R"] = 0)
  /\ pc["R"] \in {"waitPoll", "waitFinal"} => sts["R"] = 2
  /\ pc["R"] = "waitFinal" \/ pc["I"] = "waitTx" => proto = "ds"
  /\ pc["R"] = "waitRepTx" \/ pc["I"] = "waitReport" => proto = "nd"
  /\ Reporting /\ mode["R"] = "tx" => lag["R"] = 0

StsExchange ==
  /\ StsRoles /\ Apart /\ ComingFits /\ PollFits /\ RespFits /\ FinalFits /\ ReportFits
  /\ KeptFits /\ SentFits /\ ReportingFits

RespFrames   == {Frame("resp", <<1, rx, tx>>) : rx \in 0 .. LOMOD - 1, tx \in 0 .. LOMOD - 1}
ReportFrames == {Frame("report", <<rx, tx>>) : rx \in 0 .. LOMOD - 1, tx \in 0 .. LOMOD - 1}
FinalFrames  == {Frame("final", <<2, a, b, c>>) :
                   a \in 0 .. LOMOD - 1, b \in 0 .. LOMOD - 1, c \in 0 .. LOMOD - 1}

StsFrames ==
       {Frame(k, <<>>) : k \in ForeignKinds \cup {"none"}}
  \cup {Frame("poll", <<0>>), Frame("resp", <<1>>)}
  \cup RespFrames \cup ReportFrames \cup FinalFrames

StsTypes == /\ LinkTypeOK(StsFrames) /\ HostTypeOK(StsFrames)
            /\ proto \in {"ds", "ss", "nd"} /\ pollRxTs \in Timestamps /\ sts \in [Node -> Int]

LEMMA StsNumbers ==
  /\ FLIGHT \in Nat /\ FLIGHT > 0 /\ RNG_DELAY \in Nat /\ RNG_DELAY_RESP \in Nat
  /\ POLL_TX_TO_RESP_RX_DLY \in Nat /\ POLL_TX_TO_REPORT_RX_DLY \in Nat
  /\ POLL_RX_TO_RESP_TX_DLY \in Nat /\ RESP_RX_TO_FINAL_TX_DLY \in Nat
  /\ TX_ANT_DLY \in Nat /\ MaxLag \in Nat /\ Reply \in Nat /\ Last \in Nat
  /\ LOMOD \in Nat \ {0} /\ TSMOD \in Nat \ {0} /\ QUANTUM \in Nat \ {0}
  BY PolledAssumption, LinkAssumption, TimeAssumption
     DEF PolledAssumption, Sts!StsAssumption, Reply, Last

LEMMA StsCarries ==
  /\ Carries(StsFrames) /\ NoFrame \in StsFrames
  /\ Frame("poll", <<0>>) \in StsFrames /\ Frame("resp", <<1>>) \in StsFrames
  /\ \A rx, tx \in 0 .. LOMOD - 1 : /\ Frame("resp", <<1, rx, tx>>) \in StsFrames
                                    /\ Frame("report", <<rx, tx>>) \in StsFrames
  /\ \A a, b, c \in 0 .. LOMOD - 1 : Frame("final", <<2, a, b, c>>) \in StsFrames
  <1>1. \A k \in ForeignKinds \cup {"none"} : Frame(k, <<>>) \in StsFrames
    BY DEF StsFrames
  <1>2. Frame("poll", <<0>>) \in StsFrames /\ Frame("resp", <<1>>) \in StsFrames
    BY DEF StsFrames
  <1>3. ASSUME NEW rx \in 0 .. LOMOD - 1, NEW tx \in 0 .. LOMOD - 1
        PROVE  Frame("resp", <<1, rx, tx>>) \in StsFrames /\ Frame("report", <<rx, tx>>) \in StsFrames
    <2>1. Frame("resp", <<1, rx, tx>>) \in RespFrames /\ Frame("report", <<rx, tx>>) \in ReportFrames
      BY DEF RespFrames, ReportFrames
    <2> QED BY <2>1 DEF StsFrames
  <1>4. ASSUME NEW a \in 0 .. LOMOD - 1, NEW b \in 0 .. LOMOD - 1, NEW c \in 0 .. LOMOD - 1
        PROVE  Frame("final", <<2, a, b, c>>) \in StsFrames
    <2>1. Frame("final", <<2, a, b, c>>) \in FinalFrames
      BY SMTT(30) DEF FinalFrames
    <2> QED BY <2>1 DEF StsFrames
  <1> HIDE DEF StsFrames
  <1>5. NoFrame \in StsFrames /\ Carries(StsFrames)
    BY <1>1 DEF NoFrame, Carries, ForeignKinds
  <1> QED BY <1>2, <1>3, <1>4, <1>5

(* What the first number in a frame with STS is.                           *)
LEMMA StsData ==
  ASSUME NEW f \in StsFrames
  PROVE  /\ f.kind = "poll" => f.data = <<0>> /\ f.data[1] = 0
         /\ f.kind = "resp" => f.data[1] = 1
         /\ f.kind = "final" => f.data[1] = 2
  BY DEF Frame, StsFrames, RespFrames, ReportFrames, FinalFrames, ForeignKinds

LEMMA StsTimes ==
  ASSUME StsTypes
  PROVE  /\ \A n \in Node : /\ clock[n] \in Int /\ left[n] \in Nat /\ txTs[n] \in Int
                            /\ rxTs[n] \in Int /\ lag[n] \in Nat /\ nap[n] \in Nat
                            /\ clock[n] \in Timestamps /\ rxTs[n] \in Timestamps
                            /\ lag[n] <= MaxLag /\ Sent(n) \in Int
                            /\ txBuf[n] \in StsFrames /\ rxBuf[n] \in StsFrames
         /\ \A m \in Coming : m.left \in Nat /\ m.to \in Node /\ m.frame \in StsFrames
         /\ Pause \in Nat /\ Offset \in Int /\ Turn \in Int
         /\ pollRxTs \in Int /\ pollRxTs \in Timestamps
  <1>1. LinkTypeOK(StsFrames) /\ HostTypeOK(StsFrames) /\ pollRxTs \in Timestamps
    BY DEF StsTypes
  <1> HIDE DEF StsFrames
  <1>2. /\ txBuf \in [Node -> StsFrames] /\ rxBuf \in [Node -> StsFrames]
        /\ lag \in [Node -> 0 .. MaxLag]
        /\ air \subseteq [to : Node, left : Nat, frame : StsFrames]
    BY <1>1 DEF LinkTypeOK, HostTypeOK
  <1>3. "I" \in Node /\ "R" \in Node /\ \A n \in Node : Peer(n) \in Node
    BY DEF Node, Peer
  <1>4. \A n \in Node : /\ clock[n] \in Int /\ left[n] \in Nat /\ txTs[n] \in Int
                         /\ rxTs[n] \in Int /\ lag[n] \in Nat /\ nap[n] \in Nat
                         /\ clock[n] \in Timestamps /\ rxTs[n] \in Timestamps
    BY <1>1, LinkNumbers
  <1>5. \A m \in Coming : m.left \in Nat /\ m.to \in Node /\ m.frame \in StsFrames
    BY <1>2, <1>3, <1>4, StsNumbers DEF Coming
  <1>6. pollRxTs \in Int /\ Turn \in Int
    BY <1>1, StsNumbers, DelayedTypes DEF Turn, Timestamps
  <1>7. Pause \in Nat /\ Offset \in Int /\ \A n \in Node : Sent(n) \in Int
    BY <1>3, <1>4, StsNumbers DEF Pause, Offset, Sent
  <1> QED BY <1>1, <1>2, <1>4, <1>5, <1>6, <1>7

(* The counter in front of the numbers in a frame.                         *)
LEMMA Prefix ==
  ASSUME NEW x \in Int, NEW s \in Seq(Int), NEW t \in Seq(Int),
         Len(t) = 1 + Len(s), t[1] = x, \A i \in 1 .. Len(s) : t[i + 1] = s[i]
  PROVE  <<x>> \o s = t
  <1>1. <<x>> \in Seq(Int) /\ Len(<<x>>) = 1 /\ <<x>>[1] = x
    OBVIOUS
  <1>2. /\ (<<x>> \o s) \in Seq(Int) /\ Len(<<x>> \o s) = Len(t)
        /\ \A i \in 1 .. Len(t) : (<<x>> \o s)[i] = IF i <= 1 THEN <<x>>[i] ELSE s[i - 1]
    BY <1>1, ConcatProperties
  <1>3. ASSUME NEW i \in 1 .. Len(t) PROVE (<<x>> \o s)[i] = t[i]
    <2>1. CASE i = 1
      BY <1>1, <1>2, <2>1
    <2>2. CASE i # 1
      <3>1. i - 1 \in 1 .. Len(s) /\ (i - 1) + 1 = i
        BY <2>2
      <3>2. t[i] = s[i - 1]
        BY <3>1
      <3> QED BY <1>2, <2>2, <3>2
    <2> QED BY <2>1, <2>2
  <1> QED BY <1>2, <1>3, SeqEqual

LEMMA PrefixTwo ==
  ASSUME NEW x \in Int, NEW y \in Int, NEW z \in Int
  PROVE  <<x>> \o <<y, z>> = <<x, y, z>>
  <1> DEFINE s == <<y, z>>
             t == <<x, y, z>>
  <1>1. /\ s \in Seq(Int) /\ t \in Seq(Int) /\ Len(s) = 2 /\ Len(t) = 1 + Len(s) /\ t[1] = x
        /\ t[2] = s[1] /\ t[3] = s[2]
    OBVIOUS
  <1> HIDE DEF s, t
  <1>2. \A i \in 1 .. Len(s) : t[i + 1] = s[i]
    BY <1>1
  <1>3. <<x>> \o s = t
    BY <1>1, <1>2, Prefix
  <1> QED BY <1>3 DEF s, t

LEMMA PrefixThree ==
  ASSUME NEW x \in Int, NEW y \in Int, NEW z \in Int, NEW w \in Int
  PROVE  <<x>> \o <<y, z, w>> = <<x, y, z, w>>
  <1> DEFINE s == <<y, z, w>>
             t == <<x, y, z, w>>
  <1>1. /\ s \in Seq(Int) /\ t \in Seq(Int) /\ Len(s) = 3 /\ Len(t) = 1 + Len(s) /\ t[1] = x
        /\ t[2] = s[1] /\ t[3] = s[2] /\ t[4] = s[3]
    OBVIOUS
  <1> HIDE DEF s, t
  <1>2. \A i \in 1 .. Len(s) : t[i + 1] = s[i]
    BY <1>1
  <1>3. <<x>> \o s = t
    BY <1>1, <1>2, Prefix
  <1> QED BY <1>3 DEF s, t

LEMMA PrefixNone == ASSUME NEW x \in Int PROVE <<x>> \o <<>> = <<x>>
  <1>1. <<>> \in Seq(Int) /\ <<x>> \in Seq(Int)
    OBVIOUS
  <1> QED BY <1>1, ConcatEmptySeq

LEMMA TailIs ==
  ASSUME NEW x \in Int, NEW y \in Int, NEW z \in Int, NEW w \in Int
  PROVE  Tail(<<x, y, z>>) = <<y, z>> /\ Tail(<<x, y, z, w>>) = <<y, z, w>>
  OBVIOUS

(* The two loops keep the types.                                           *)
LEMMA StsTypesHosts ==
  ASSUME StsTypes, StsRoles, Sts!Initiator \/ Sts!Responder
  PROVE  StsTypes'
<1> HIDE DEF StsFrames
<1>c. /\ "I" \in Node /\ "R" \in Node /\ 0 \in Nat /\ 0 \in 0 .. MaxLag
      /\ RNG_DELAY \in Nat /\ RNG_DELAY_RESP \in Nat /\ NoFrame \in StsFrames
      /\ Sts!NoFrame = NoFrame /\ pollRxTs \in Timestamps
      /\ \A n \in Node : /\ rxTs[n] \in Timestamps /\ rxTs[n] \in Int /\ txTs[n] \in Int
                         /\ rxBuf[n] \in StsFrames
  BY StsTimes, StsNumbers, StsCarries DEF Node, NoFrame, Sts!NoFrame, Frame, Sts!Frame
<1>t. ASSUME NEW n \in Node, NEW t \in Int
      PROVE  Sts!TicksTo(n, t) \in Nat /\ Sts!TicksTo(n, t) + TX_ANT_DLY \in Nat
  <2>1. clock[n] \in Int
    BY StsTimes
  <2>2. (t - clock[n]) % TSMOD \in Nat
    BY <2>1, StsNumbers, Division
  <2> QED BY <2>2, StsNumbers DEF Sts!TicksTo
<1>m. ASSUME NEW ts \in Timestamps, NEW d \in Nat
      PROVE  /\ Sts!DelayedTxTime(ts, d) \in Int
             /\ Sts!MsgTs(ts) \in 0 .. LOMOD - 1
             /\ Sts!MsgTs(Sts!DelayedTxTs(ts, d)) \in 0 .. LOMOD - 1
  <2>1. /\ DelayedTxTime(ts, d) \in Int /\ DelayedTxTs(ts, d) \in Int /\ ts \in Int
        /\ Sts!DelayedTxTime(ts, d) = DelayedTxTime(ts, d)
        /\ Sts!DelayedTxTs(ts, d) = DelayedTxTs(ts, d)
    BY DelayedTypes
       DEF Timestamps, DelayedTxTime, Sts!DelayedTxTime, DelayedTxTs, Sts!DelayedTxTs
  <2> QED BY <2>1, TimeTypes DEF MsgTs, Sts!MsgTs
<1>w. ASSUME NEW n \in Node, NEW dly \in Nat, NEW cl, Sts!EnableAfterTx(n, dly, cl)
      PROVE  \E d \in Nat : Sts!EnableFresh(n, d, cl)
  <2>1. Sts!TicksTo(n, txTs[n] + dly) \in Nat
    BY <1>c, <1>t
  <2> QED BY <1>w, <2>1 DEF Sts!EnableAfterTx
<1>e. ASSUME NEW n \in Node, NEW d \in Nat, NEW cl, Sts!EnableFresh(n, d, cl),
             UNCHANGED <<clock, rxDly, rxTo, air, faults>>
      PROVE  LinkTypeOK(StsFrames)'
  BY <1>c, <1>e DEF StsTypes, LinkTypeOK, Sts!EnableFresh, Modes
<1>s. ASSUME NEW n \in Node, NEW f \in StsFrames, NEW d \in Nat, NEW resp \in BOOLEAN, NEW cl,
             Sts!StartTx(n, f, d, resp, cl), UNCHANGED <<clock, rxDly, rxTo, air, faults>>
      PROVE  LinkTypeOK(StsFrames)'
  BY <1>s DEF StsTypes, LinkTypeOK, Sts!StartTx, Modes
<1>f. ASSUME NEW n \in Node, NEW cl, Sts!FailTx(n, cl) \/ Sts!ClearFlags(n, cl),
             UNCHANGED <<clock, rxDly, rxTo, air, faults>>
      PROVE  LinkTypeOK(StsFrames)'
  BY <1>c, <1>f DEF StsTypes, LinkTypeOK, Sts!FailTx, Sts!ClearFlags, Modes
<1>h. ASSUME NEW n \in Node, buf' = buf,
             \/ \E to \in Points : Sts!Goto(n, to)
             \/ \E ms \in {0, RNG_DELAY, RNG_DELAY_RESP} : Sts!Sleep(n, ms)
      PROVE  HostTypeOK(StsFrames)'
  <2>1. \A ms \in {0, RNG_DELAY, RNG_DELAY_RESP} : ms \in Nat
    BY <1>c
  <2>2. CASE \E to \in Points : Sts!Goto(n, to)
    BY <1>c, <1>h, <2>2 DEF StsTypes, HostTypeOK, Sts!Goto
  <2>3. CASE \E ms \in {0, RNG_DELAY, RNG_DELAY_RESP} : Sts!Sleep(n, ms)
    BY <1>c, <1>h, <2>1, <2>3 DEF StsTypes, HostTypeOK, Sts!Sleep, Points
  <2> QED BY <1>h, <2>2, <2>3
<1>p. {"waitPoll", "waitResp", "waitTx", "waitReport", "listen", "waitFinal", "waitRepTx"} \subseteq Points
  BY DEF Points, TxPoints, RespPoints
<1> DEFINE Others == UNCHANGED <<clock, rxDly, rxTo, air, faults>> /\ buf' = buf /\ proto' = proto
<1>q. ASSUME Sts!Rest PROVE Others
  BY <1>q DEF Sts!Rest
<1>y. sts' \in [Node -> Int]
  <2>1. sts \in [Node -> Int]
    BY DEF StsTypes
  <2>2. CASE \E n \in Node : \E count \in {0, 1, sts[n] + 2} : Sts!StsAt(n, count)
    BY <2>1, <2>2 DEF Sts!StsAt
  <2>3. CASE sts' = sts
    BY <2>1, <2>3
  <2> QED
    BY <1>c, <2>2, <2>3
       DEF Sts!Initiator, Sts!Responder, Sts!SendPoll, Sts!PollSent, Sts!RecvResponseDs,
           Sts!RecvResponseLate, Sts!FinalSent, Sts!RecvResponseSs, Sts!RecvResponseNd,
           Sts!RecvReport, Sts!InitiatorFailed, Sts!Listen, Sts!RecvPoll, Sts!RecvPollLate,
           Sts!ResponseSentDs, Sts!ResponseSentSs, Sts!ResponseSentNd, Sts!ReportLate,
           Sts!ReportSent, Sts!RecvFinal, Sts!ResponderFailed
<1>z. ASSUME LinkTypeOK(StsFrames)', HostTypeOK(StsFrames)', proto' = proto, pollRxTs' \in Timestamps
      PROVE  StsTypes'
  BY <1>y, <1>z DEF StsTypes
<1>b. (proto = "ds") \in BOOLEAN /\ FALSE \in BOOLEAN
  OBVIOUS
<1>1. CASE Sts!SendPoll
  <2>1. Frame("poll", <<0>>) \in StsFrames /\ Sts!Frame("poll", <<0>>) = Frame("poll", <<0>>)
    BY StsCarries DEF Frame, Sts!Frame
  <2>2. Others /\ pollRxTs' = pollRxTs
    BY <1>1, <1>q DEF Sts!SendPoll
  <2>3. LinkTypeOK(StsFrames)'
    BY <1>1, <1>c, <1>b, <1>s, <2>1, <2>2 DEF Sts!SendPoll, Sts!StartTxNow
  <2>4. HostTypeOK(StsFrames)'
    BY <1>1, <1>c, <1>h, <1>p, <2>2 DEF Sts!SendPoll
  <2> QED BY <1>c, <1>z, <2>2, <2>3, <2>4
<1>2. CASE Sts!PollSent
  <2>2. Others /\ pollRxTs' = pollRxTs
    BY <1>2, <1>q DEF Sts!PollSent
  <2>3. LinkTypeOK(StsFrames)'
    BY <1>2, <1>c, <1>e, <1>f, <1>w, <2>2, StsNumbers DEF Sts!PollSent
  <2>4. HostTypeOK(StsFrames)'
    BY <1>2, <1>c, <1>h, <1>p, <2>2 DEF Sts!PollSent
  <2> QED BY <1>c, <1>z, <2>2, <2>3, <2>4
<1>3. CASE Sts!RecvResponseDs
  <2>1. Sts!Frame("final", <<sts["I"] + 1>> \o Sts!FinalData) \in StsFrames
    <3>1. sts["I"] + 1 = 2
      BY <1>3, <1>c, StsData DEF Sts!RecvResponseDs, Sts!GotResponse, Sts!GoodFrame, Sts!StsGood
    <3>2. PICK a \in 0 .. LOMOD - 1, b \in 0 .. LOMOD - 1, d \in 0 .. LOMOD - 1 :
            Sts!FinalData = <<a, b, d>>
      <4>1. Sts!MsgTs(txTs["I"]) \in 0 .. LOMOD - 1
        BY <1>c, TimeTypes DEF MsgTs, Sts!MsgTs
      <4> QED BY <1>c, <1>m, <4>1, StsNumbers DEF Sts!FinalData
    <3>3. <<2>> \o <<a, b, d>> = <<2, a, b, d>>
      BY StsNumbers, PrefixThree
    <3> QED BY <3>1, <3>2, <3>3, StsCarries DEF Frame, Sts!Frame
  <2>2. Others /\ pollRxTs' = pollRxTs
    BY <1>3, <1>q DEF Sts!RecvResponseDs
  <2>3. Sts!TicksTo("I", Sts!FinalTime) + TX_ANT_DLY \in Nat
    BY <1>c, <1>t, <1>m, StsNumbers DEF Sts!FinalTime
  <2>4. LinkTypeOK(StsFrames)'
    BY <1>3, <1>c, <1>b, <1>s, <2>1, <2>2, <2>3 DEF Sts!RecvResponseDs, Sts!StartTxAt
  <2>5. HostTypeOK(StsFrames)'
    BY <1>3, <1>c, <1>h, <1>p, <2>2 DEF Sts!RecvResponseDs
  <2> QED BY <1>c, <1>z, <2>2, <2>4, <2>5
<1>4. CASE Sts!RecvResponseLate
  <2>2. Others /\ pollRxTs' = pollRxTs
    BY <1>4, <1>q DEF Sts!RecvResponseLate
  <2>3. LinkTypeOK(StsFrames)'
    BY <1>4, <1>c, <1>f, <2>2 DEF Sts!RecvResponseLate
  <2>4. HostTypeOK(StsFrames)'
    BY <1>4, <1>c, <1>h, <2>2 DEF Sts!RecvResponseLate
  <2> QED BY <1>c, <1>z, <2>2, <2>3, <2>4
<1>5. CASE Sts!FinalSent \/ Sts!RecvResponseSs \/ Sts!RecvReport \/ Sts!InitiatorFailed
  <2>2. Others /\ pollRxTs' = pollRxTs
    BY <1>5, <1>q DEF Sts!FinalSent, Sts!RecvResponseSs, Sts!RecvReport, Sts!InitiatorFailed
  <2>3. LinkTypeOK(StsFrames)'
    BY <1>5, <1>c, <1>f, <2>2
       DEF Sts!FinalSent, Sts!RecvResponseSs, Sts!RecvReport, Sts!InitiatorFailed
  <2>4. HostTypeOK(StsFrames)'
    BY <1>5, <1>c, <1>h, <2>2
       DEF Sts!FinalSent, Sts!RecvResponseSs, Sts!RecvReport, Sts!InitiatorFailed
  <2> QED BY <1>c, <1>z, <2>2, <2>3, <2>4
<1>6. CASE Sts!RecvResponseNd
  <2>1. Sts!ReportWindow \in Nat
    BY StsNumbers DEF Sts!ReportWindow
  <2>2. Others /\ pollRxTs' = pollRxTs
    BY <1>6, <1>q DEF Sts!RecvResponseNd
  <2>3. LinkTypeOK(StsFrames)'
    BY <1>6, <1>c, <1>e, <1>w, <2>1, <2>2 DEF Sts!RecvResponseNd
  <2>4. HostTypeOK(StsFrames)'
    BY <1>6, <1>c, <1>h, <1>p, <2>2 DEF Sts!RecvResponseNd
  <2> QED BY <1>c, <1>z, <2>2, <2>3, <2>4
<1>7. CASE Sts!Listen
  <2>2. Others /\ pollRxTs' = pollRxTs
    BY <1>7, <1>q DEF Sts!Listen
  <2>3. LinkTypeOK(StsFrames)'
    BY <1>7, <1>c, <1>e, <2>2 DEF Sts!Listen
  <2>4. HostTypeOK(StsFrames)'
    BY <1>7, <1>c, <1>h, <1>p, <2>2 DEF Sts!Listen
  <2> QED BY <1>c, <1>z, <2>2, <2>3, <2>4
<1>8. CASE Sts!RecvPoll
  <2>1. Sts!Frame("resp", <<sts["R"] + 1>> \o Sts!ResponseData) \in StsFrames
    <3>1. sts["R"] + 1 = 1
      <4>1. proto # "nd" => rxBuf["R"].kind = "poll" /\ rxBuf["R"].data[1] = sts["R"]
        BY <1>8 DEF Sts!RecvPoll, Sts!GotPoll, Sts!GoodFrame, Sts!StsGood
      <4>2. proto = "nd" => pc["R"] = "listen"
        BY <1>8 DEF Sts!RecvPoll, Sts!GotPoll, Sts!Hearing, StsRoles
      <4> QED BY <1>c, <4>1, <4>2, StsData DEF StsRoles
    <3>2. CASE proto = "ss"
      <4>1. PICK rx \in 0 .. LOMOD - 1, tx \in 0 .. LOMOD - 1 : Sts!ResponseData = <<rx, tx>>
        BY <1>c, <1>m, <3>2, StsNumbers DEF Sts!ResponseData, Sts!ResponderTimes
      <4>2. <<1>> \o <<rx, tx>> = <<1, rx, tx>>
        BY StsNumbers, PrefixTwo
      <4> QED BY <3>1, <4>1, <4>2, StsCarries DEF Frame, Sts!Frame
    <3>3. CASE proto # "ss"
      <4>1. <<1>> \o <<>> = <<1>>
        BY PrefixNone
      <4> QED BY <3>1, <3>3, <4>1, StsCarries DEF Frame, Sts!Frame, Sts!ResponseData
    <3> QED BY <3>2, <3>3
  <2>2. Others /\ pollRxTs' = rxTs["R"]
    BY <1>8, <1>q DEF Sts!RecvPoll
  <2>3. Sts!TicksTo("R", Sts!ResponseTime) + TX_ANT_DLY \in Nat
    BY <1>c, <1>t, <1>m, StsNumbers DEF Sts!ResponseTime
  <2>4. LinkTypeOK(StsFrames)'
    BY <1>8, <1>c, <1>b, <1>s, <2>1, <2>2, <2>3 DEF Sts!RecvPoll, Sts!StartTxAt
  <2>5. HostTypeOK(StsFrames)'
    BY <1>8, <1>c, <1>h, <1>p, <2>2 DEF Sts!RecvPoll
  <2> QED BY <1>c, <1>z, <2>2, <2>4, <2>5
<1>9. CASE Sts!RecvPollLate
  <2>2. Others /\ pollRxTs' = rxTs["R"]
    BY <1>9, <1>q DEF Sts!RecvPollLate
  <2>3. LinkTypeOK(StsFrames)'
    BY <1>9, <1>c, <1>f, <2>2 DEF Sts!RecvPollLate
  <2>4. HostTypeOK(StsFrames)'
    BY <1>9, <1>c, <1>h, <2>2 DEF Sts!RecvPollLate
  <2> QED BY <1>c, <1>z, <2>2, <2>3, <2>4
<1>10. CASE Sts!ResponseSentDs
  <2>2. Others /\ pollRxTs' = pollRxTs
    BY <1>10, <1>q DEF Sts!ResponseSentDs
  <2>3. LinkTypeOK(StsFrames)'
    BY <1>10, <1>c, <1>f, <2>2 DEF Sts!ResponseSentDs
  <2>4. HostTypeOK(StsFrames)'
    BY <1>10, <1>c, <1>h, <1>p, <2>2 DEF Sts!ResponseSentDs
  <2> QED BY <1>c, <1>z, <2>2, <2>3, <2>4
<1>11. CASE Sts!ResponseSentSs \/ Sts!ReportSent \/ Sts!RecvFinal \/ Sts!ResponderFailed
  <2>2. Others /\ pollRxTs' = pollRxTs
    BY <1>11, <1>q DEF Sts!ResponseSentSs, Sts!ReportSent, Sts!RecvFinal, Sts!ResponderFailed
  <2>3. LinkTypeOK(StsFrames)'
    BY <1>11, <1>c, <1>f, <2>2
       DEF Sts!ResponseSentSs, Sts!ReportSent, Sts!RecvFinal, Sts!ResponderFailed
  <2>4. HostTypeOK(StsFrames)'
    BY <1>11, <1>c, <1>h, <2>2
       DEF Sts!ResponseSentSs, Sts!ReportSent, Sts!RecvFinal, Sts!ResponderFailed
  <2> QED BY <1>c, <1>z, <2>2, <2>3, <2>4
<1>12. CASE Sts!ResponseSentNd
  <2>1. Sts!Frame("report", Sts!ResponderTimes(pollRxTs)) \in StsFrames
    BY <1>c, <1>m, StsNumbers, StsCarries DEF Frame, Sts!Frame, Sts!ResponderTimes
  <2>2. Others /\ pollRxTs' = pollRxTs
    BY <1>12, <1>q DEF Sts!ResponseSentNd
  <2>3. Sts!TicksTo("R", Sts!ReportTime) + TX_ANT_DLY \in Nat
    <3>1. 2 * POLL_RX_TO_RESP_TX_DLY \in Nat
      BY StsNumbers
    <3> QED BY <1>c, <1>t, <1>m, <3>1 DEF Sts!ReportTime
  <2>4. LinkTypeOK(StsFrames)'
    BY <1>12, <1>c, <1>b, <1>s, <2>1, <2>2, <2>3 DEF Sts!ResponseSentNd, Sts!StartTxAt
  <2>5. HostTypeOK(StsFrames)'
    BY <1>12, <1>c, <1>h, <1>p, <2>2 DEF Sts!ResponseSentNd
  <2> QED BY <1>c, <1>z, <2>2, <2>4, <2>5
<1>13. CASE Sts!ReportLate
  <2>2. Others /\ pollRxTs' = pollRxTs
    BY <1>13, <1>q DEF Sts!ReportLate
  <2>3. LinkTypeOK(StsFrames)'
    BY <1>13, <1>c, <1>f, <2>2 DEF Sts!ReportLate
  <2>4. HostTypeOK(StsFrames)'
    BY <1>13, <1>c, <1>h, <2>2 DEF Sts!ReportLate
  <2> QED BY <1>c, <1>z, <2>2, <2>3, <2>4
<1> QED
  BY <1>1, <1>2, <1>3, <1>4, <1>5, <1>6, <1>7, <1>8, <1>9, <1>10, <1>11, <1>12, <1>13
     DEF Sts!Initiator, Sts!Responder

(* A tick is the one of the lemmas.                                        *)
LEMMA StsTicks ==
  ASSUME Sts!Tick
  PROVE  /\ HostTick({n \in Node : Sts!HostDue(n)}) /\ LinkTick
         /\ UNCHANGED <<proto, sts, pollRxTs, kept, result>>
  BY DEF Sts!Tick, Sts!HostTick, HostTick, Sts!LinkTick, LinkTick, Sts!CountsDown, CountsDown,
         Sts!Nearer, Nearer, Sts!Node, Node, Sts!stsVars, Sts!ownVars

LEMMA StsTypesStep ==
  ASSUME StsTypes, StsRoles, Sts!Next
  PROVE  StsTypes'
<1> HIDE DEF StsFrames
<1>1. CASE Sts!Radio
  <2>1. Hardware \/ Interference(Foreign)
    BY <1>1, SameRadio DEF Sts!Radio
  <2>2. LinkTypeOK(StsFrames)'
    BY <2>1, StsCarries, LinkTypesRadio, LinkAssumption DEF StsTypes
  <2>3. UNCHANGED <<pc, nap, lag, buf, proto, sts, pollRxTs>>
    BY <1>1 DEF Sts!Radio, Sts!pollVars
  <2> QED BY <2>2, <2>3 DEF StsTypes, HostTypeOK
<1>2. CASE Sts!Tick
  <2> DEFINE due == {n \in Node : Sts!HostDue(n)}
  <2>1. HostTick(due) /\ LinkTick /\ UNCHANGED <<proto, sts, pollRxTs>>
    BY <1>2, StsTicks
  <2> HIDE DEF due
  <2>2. LinkTypeOK(StsFrames)'
    BY <2>1, LinkTypesTick DEF StsTypes
  <2>3. HostTypeOK(StsFrames)'
    BY <2>1, HostTypesTick DEF StsTypes
  <2> QED BY <2>1, <2>2, <2>3 DEF StsTypes
<1> QED BY <1>1, <1>2, StsTypesHosts DEF Sts!Next

(* What the copies tell does not depend on how the clocks run on.          *)
LEMMA StsCarried ==
  ASSUME StsTypes, StsTypes', UNCHANGED <<proto, pollRxTs>>,
         SameLo(Offset', Offset), SameLo(Sent("I")', Sent("I")),
         NEW d \in Int, NEW e \in Int, SameLo(e, d)
  PROVE  /\ PollArrives(d) => PollArrives(e)'
         /\ \A data : RespSays(data, d) => RespSays(data, e)'
         /\ \A data : FinalSays(data, d) => FinalSays(data, e)'
         /\ Turn' = Turn /\ Told' = Told
<1>1. /\ Offset \in Int /\ Offset' \in Int /\ Sent("I") \in Int /\ Sent("I")' \in Int
      /\ pollRxTs \in Int /\ Turn \in Int /\ FLIGHT \in Int
  <2>1. /\ Offset \in Int /\ Sent("I") \in Int /\ pollRxTs \in Int /\ Turn \in Int /\ FLIGHT \in Int
    BY StsTimes, StsNumbers DEF Node
  <2>2. /\ clock' \in [Node -> Timestamps] /\ left' \in [Node -> Nat] /\ txTs' \in [Node -> Timestamps]
        /\ "I" \in Node /\ "R" \in Node
    BY DEF StsTypes, LinkTypeOK, Node
  <2>3. \A n \in Node : clock'[n] \in Int /\ txTs'[n] \in Int
    BY <2>2 DEF Timestamps
  <2> QED BY <2>1, <2>2, <2>3 DEF Offset, Sent
<1>2. Turn' = Turn /\ Told' = Told
  BY DEF Turn, Told
<1>3. ASSUME NEW a \in Int, NEW b \in Int, SameLo(b, a), PollArrives(a) PROVE PollArrives(b)'
  <2> DEFINE o == Offset
             p == Offset'
             s == Sent("I")
             t == Sent("I")'
  <2>1. /\ o \in Int /\ p \in Int /\ s \in Int /\ t \in Int /\ FLIGHT \in Int
        /\ SameLo(p, o) /\ SameLo(t, s) /\ SameLo(a + o, s + FLIGHT)
    BY <1>1, <1>3 DEF PollArrives
  <2> HIDE DEF o, p, s, t
  <2>2. SameLo(b + p, a + o)
    BY <1>3, <2>1, SameLoSums
  <2>3. SameLo(s, t)
    BY <2>1, SameLoEquivalence
  <2>4. SameLo(s + FLIGHT, t + FLIGHT)
    <3>1. (s + FLIGHT) - (t + FLIGHT) = s - t /\ s + FLIGHT \in Int /\ t + FLIGHT \in Int
      BY <2>1
    <3> QED BY <2>1, <2>3, <3>1, SameLoBalance
  <2>5. SameLo(b + p, t + FLIGHT)
    <3>1. b + p \in Int /\ a + o \in Int /\ s + FLIGHT \in Int /\ t + FLIGHT \in Int
      BY <2>1
    <3>2. SameLo(b + p, s + FLIGHT)
      BY <2>1, <2>2, <3>1, SameLoEquivalence
    <3> QED BY <2>4, <3>1, <3>2, SameLoEquivalence
  <2> QED BY <2>5 DEF PollArrives, p, t
<1>4. ASSUME NEW data, RespSays(data, d) PROVE RespSays(data, e)'
  <2>1. PollArrives(pollRxTs)'
    <3>1. SameLo(pollRxTs, pollRxTs)
      BY <1>1, SameLoEquivalence
    <3>2. PICK a \in Int : a = pollRxTs
      BY <1>1
    <3>3. PollArrives(a)'
      BY <1>3, <1>4, <3>1, <3>2 DEF RespSays
    <3> QED BY <3>2, <3>3 DEF PollArrives
  <2>2. SameLo(e - Offset', pollRxTs + Turn + FLIGHT)
    <3> DEFINE o == Offset
               p == Offset'
               v == pollRxTs + Turn + FLIGHT
    <3>1. o \in Int /\ p \in Int /\ v \in Int /\ SameLo(p, o) /\ SameLo(d - o, v)
      BY <1>1, <1>4 DEF RespSays
    <3> HIDE DEF o, p, v
    <3>2. SameLo(e - p, d - o) /\ e - p \in Int /\ d - o \in Int
      BY <3>1, SameLoSums
    <3>3. SameLo(e - p, v)
      BY <3>1, <3>2, SameLoEquivalence
    <3> QED BY <3>3 DEF p, v
  <2> QED BY <1>2, <1>4, <2>1, <2>2 DEF RespSays
<1>5. ASSUME NEW data, FinalSays(data, d) PROVE FinalSays(data, e)'
  <2>1. PICK pollTx \in 0 .. LOMOD - 1, respRx \in 0 .. LOMOD - 1, finalTx \in 0 .. LOMOD - 1,
             last \in 0 .. Last :
          /\ data = <<2, pollTx, respRx, finalTx>>
          /\ SameLo(respRx - pollTx, 2 * FLIGHT + Turn) /\ SameLo(finalTx - respRx, last)
          /\ SameLo(d, pollRxTs + Turn + 2 * FLIGHT + last)
    BY <1>5 DEF FinalSays
  <2>2. SameLo(e, pollRxTs + Turn + 2 * FLIGHT + last)
    <3>1. pollRxTs + Turn + 2 * FLIGHT + last \in Int
      BY <1>1, StsNumbers
    <3> QED BY <2>1, <3>1, SameLoEquivalence
  <2> QED BY <1>2, <2>1, <2>2 DEF FinalSays
<1>6. PollArrives(d) => PollArrives(e)'
  BY <1>3
<1> QED BY <1>2, <1>4, <1>5, <1>6

(* A step that moves no clock, sends no poll and starts no exchange.       *)
Quiet ==
  /\ UNCHANGED <<clock, proto, pollRxTs>> /\ Sent("I")' = Sent("I")
  /\ Coming' \subseteq Coming /\ Pause' >= Pause

LEMMA StsQuiet ==
  ASSUME StsTypes, StsTypes', Quiet
  PROVE  /\ \A due \in Int : PollArrives(due) => PollArrives(due)'
         /\ \A data : \A due \in Int : RespSays(data, due) => RespSays(data, due)'
         /\ \A data : \A due \in Int : FinalSays(data, due) => FinalSays(data, due)'
         /\ \A t \in Int : OverBefore(t) => OverBefore(t)'
         /\ Turn' = Turn /\ Told' = Told
         /\ ComingFits => ComingFits'
<1>1. Offset' = Offset /\ Offset \in Int /\ Sent("I") \in Int /\ \A t \in Int : SameLo(t, t)
  BY StsTimes, SameLoEquivalence DEF Quiet, Offset, Node
<1>2. ASSUME NEW due \in Int
      PROVE  /\ PollArrives(due) => PollArrives(due)'
             /\ \A data : RespSays(data, due) => RespSays(data, due)'
             /\ \A data : FinalSays(data, due) => FinalSays(data, due)'
             /\ Turn' = Turn /\ Told' = Told
  BY <1>1, StsCarried DEF Quiet
<1>3. Pause \in Nat /\ Pause' \in Nat
  <2>1. /\ nap' \in [Node -> Nat] /\ left' \in [Node -> Nat] /\ "I" \in Node
    BY DEF StsTypes, LinkTypeOK, HostTypeOK, Node
  <2>2. Pause' \in Nat
    BY <2>1, StsNumbers DEF Pause
  <2> QED BY <2>2, StsTimes
<1>4. ASSUME NEW t \in Int, OverBefore(t) PROVE OverBefore(t)'
  <2> DEFINE p == Pause
             q == Pause'
  <2>1. p \in Int /\ q \in Int /\ q >= p
    BY <1>3 DEF Quiet
  <2> HIDE DEF p, q
  <2>2. t + 2 * POLL_RX_TO_RESP_TX_DLY + TX_ANT_DLY + FLIGHT < p
    BY <1>4 DEF OverBefore, p
  <2>3. t + 2 * POLL_RX_TO_RESP_TX_DLY + TX_ANT_DLY + FLIGHT < q
    BY <2>1, <2>2, StsNumbers
  <2> QED BY <2>3 DEF OverBefore, q
<1>5. ASSUME ComingFits PROVE ComingFits'
  <2>1. ASSUME NEW m \in Coming
        PROVE  /\ m.left < Pause'
               /\ m.frame.kind \in IF m.to = "R" THEN {"poll", "final"} ELSE {"resp", "report"}
               /\ m.frame.kind = "poll"   => OverBefore(m.left)' /\ PollArrives(clock["R"] + m.left)'
               /\ m.frame.kind = "resp"   => RespSays(m.frame.data, clock["I"] + m.left)'
               /\ m.frame.kind = "final"  => FinalSays(m.frame.data, clock["R"] + m.left)'
               /\ m.frame.kind = "report" => m.frame.data = Told'
    <3>1. /\ m.left \in Int /\ clock["R"] \in Int /\ clock["I"] \in Int /\ clock' = clock
          /\ clock["R"] + m.left \in Int /\ clock["I"] + m.left \in Int
      BY StsTimes DEF Node, Quiet
    <3>2. m.left < Pause'
      <4>1. m.left < Pause /\ Pause' >= Pause
        BY <1>5 DEF ComingFits, Quiet
      <4> QED BY <1>3, <3>1, <4>1
    <3>3. ASSUME NEW a \in Int, NEW b \in Int, a = clock["R"] + m.left, b = clock["I"] + m.left
          PROVE  /\ m.frame.kind = "poll"   => OverBefore(m.left)' /\ PollArrives(a)'
                 /\ m.frame.kind = "resp"   => RespSays(m.frame.data, b)'
                 /\ m.frame.kind = "final"  => FinalSays(m.frame.data, a)'
                 /\ m.frame.kind = "report" => m.frame.data = Told'
      BY <1>2, <1>4, <1>5, <3>1, <3>3 DEF ComingFits
    <3>4. PICK a \in Int : a = clock["R"] + m.left
      BY <3>1
    <3>5. PICK b \in Int : b = clock["I"] + m.left
      BY <3>1
    <3>6. a = clock'["R"] + m.left /\ b = clock'["I"] + m.left
      BY <3>1, <3>4, <3>5
    <3>7. m.frame.kind \in IF m.to = "R" THEN {"poll", "final"} ELSE {"resp", "report"}
      BY <1>5 DEF ComingFits
    <3>8. /\ m.frame.kind = "poll"   => PollArrives(clock["R"] + m.left)'
          /\ m.frame.kind = "resp"   => RespSays(m.frame.data, clock["I"] + m.left)'
          /\ m.frame.kind = "final"  => FinalSays(m.frame.data, clock["R"] + m.left)'
      BY <3>3, <3>4, <3>5, <3>6 DEF PollArrives, RespSays, FinalSays
    <3> QED BY <3>2, <3>3, <3>4, <3>5, <3>7, <3>8
  <2> QED BY <2>1 DEF Quiet, ComingFits
<1>6. 0 \in Int
  OBVIOUS
<1> QED BY <1>2, <1>4, <1>5, <1>6

(* What the steps of the other node leave of a node.                       *)
Stays(n) ==
  /\ pc'[n] = pc[n] /\ status'[n] = status[n] /\ rxBuf'[n] = rxBuf[n] /\ rxTs'[n] = rxTs[n]
  /\ txTs'[n] = txTs[n] /\ mode'[n] = mode[n] /\ left'[n] = left[n] /\ lag'[n] = lag[n]
  /\ txBuf'[n] = txBuf[n] /\ nap'[n] = nap[n] /\ sts'[n] = sts[n]

(* Nothing is on its way that was not, but what a node has just armed.     *)
LEMMA StsComing ==
  ASSUME air' \subseteq air, NEW S,
         \A n \in Node \ S : mode'[n] = "tx" =>
           mode[n] = "tx" /\ left'[n] = left[n] /\ txBuf'[n] = txBuf[n]
  PROVE  Coming' \subseteq
           Coming \cup {[to |-> Peer(n), left |-> left'[n] + FLIGHT, frame |-> txBuf'[n]] : n \in S}
  <1> DEFINE Armed(n) == [to |-> Peer(n), left |-> left[n] + FLIGHT, frame |-> txBuf[n]]
  <1>1. ASSUME NEW m \in Coming', m \notin air'
        PROVE  m \in Coming \/ \E n \in S :
                 m = [to |-> Peer(n), left |-> left'[n] + FLIGHT, frame |-> txBuf'[n]]
    <2>1. PICK n \in Node : mode'[n] = "tx"
                /\ m = [to |-> Peer(n), left |-> left'[n] + FLIGHT, frame |-> txBuf'[n]]
      BY <1>1 DEF Coming
    <2>2. CASE n \in S
      BY <2>1, <2>2
    <2>3. CASE n \notin S
      <3>1. mode[n] = "tx" /\ m = Armed(n)
        BY <2>1, <2>3
      <3> QED BY <3>1 DEF Coming
    <2> QED BY <2>2, <2>3
  <1>2. \A m \in air' : m \in Coming
    BY DEF Coming
  <1> QED BY <1>1, <1>2

(* What the responder is at, as far as it does not depend on the initiator.*)
LEMMA StsResponderStays ==
  ASSUME StsTypes, StsTypes', Stays("R"), UNCHANGED <<clock, proto, pollRxTs>>
  PROVE  /\ GotAPoll' = GotAPoll /\ Timely' = Timely /\ Reporting' = Reporting
         /\ FinalFits => FinalFits'
         /\ SentFits => SentFits'
  <1>1. GotAPoll' = GotAPoll /\ Timely' = Timely /\ Reporting' = Reporting
        /\ GotAFinal' = GotAFinal
    BY DEF Stays, GotAPoll, Timely, Reporting, GotAFinal, HasIt
  <1>2. Turn' = Turn /\ Sent("R")' = Sent("R")
    BY DEF Turn, Sent, Stays
  <1>3. FinalFits => FinalFits'
    BY <1>1, <1>2 DEF FinalFits, FinalSays, Stays
  <1>4. SentFits => SentFits'
    BY <1>2 DEF SentFits, Stays
  <1> QED BY <1>1, <1>3, <1>4

LEMMA StsResponderQuiet ==
  ASSUME StsTypes, StsTypes', Quiet, Stays("R")
  PROVE  (PollFits => PollFits') /\ (ReportingFits => ReportingFits')
  <1>1. /\ GotAPoll' = GotAPoll /\ Timely' = Timely /\ Reporting' = Reporting
        /\ clock' = clock /\ pollRxTs' = pollRxTs /\ rxTs'["R"] = rxTs["R"] /\ lag'["R"] = lag["R"]
        /\ mode'["R"] = mode["R"] /\ left'["R"] = left["R"] /\ Coming' \subseteq Coming
    BY StsResponderStays DEF Quiet, Stays
  <1>2. ASSUME NEW t \in Int, OverBefore(t) PROVE OverBefore(t)'
    BY <1>2, StsQuiet
  <1>3. ASSUME PollFits PROVE PollFits'
    <2> SUFFICES ASSUME GotAPoll, Timely PROVE OverBefore(0 - lag["R"])' /\ PollArrives(rxTs["R"])'
      BY <1>1, <1>3 DEF PollFits
    <2>1. OverBefore(0 - lag["R"]) /\ PollArrives(rxTs["R"])
      BY <1>3 DEF PollFits
    <2>2. PICK t \in Int : t = 0 - lag["R"]
      BY StsTimes DEF Node
    <2>3. PICK d \in Int : d = rxTs["R"]
      BY StsTimes DEF Node
    <2>4. OverBefore(t)' /\ PollArrives(d)'
      BY <2>1, <2>2, <2>3, StsQuiet
    <2> QED BY <1>1, <2>2, <2>3, <2>4 DEF OverBefore, PollArrives
  <1>4. ASSUME ReportingFits PROVE ReportingFits'
    <2> SUFFICES ASSUME Reporting PROVE ReportingFits'
      BY <1>1 DEF ReportingFits
    <2>1. PICK l \in Nat :
            /\ clock["R"] = (pollRxTs + l) % TSMOD
            /\ l + (IF mode["R"] = "tx" THEN left["R"] ELSE 0) <= Reply + lag["R"]
            /\ l <= 2 * POLL_RX_TO_RESP_TX_DLY =>
                 OverBefore(0 - l) /\ \A m \in Coming : m.frame.kind # "poll"
      BY <1>4 DEF ReportingFits
    <2>2. PICK t \in Int : t = 0 - l
      OBVIOUS
    <2>3. l <= 2 * POLL_RX_TO_RESP_TX_DLY => OverBefore(t)'
      BY <1>2, <2>1, <2>2
    <2>4. l <= 2 * POLL_RX_TO_RESP_TX_DLY => OverBefore(0 - l)'
      BY <2>2, <2>3 DEF OverBefore
    <2> QED BY <1>1, <2>1, <2>4 DEF ReportingFits
  <1> QED BY <1>3, <1>4

(* What the initiator is at, as long as it has sent no other poll.         *)
LEMMA StsInitiatorStays ==
  ASSUME StsTypes, StsTypes', UNCHANGED <<clock, proto, pollRxTs>>, Sent("I")' = Sent("I"),
         pc'["I"] = pc["I"], status'["I"] = status["I"], rxBuf'["I"] = rxBuf["I"],
         rxTs'["I"] = rxTs["I"], kept' = kept
  PROVE  /\ GotAResp' = GotAResp
         /\ RespFits => RespFits'
         /\ ReportFits => ReportFits'
         /\ KeptFits => KeptFits'
  <1>1. GotAResp' = GotAResp /\ GotAReport' = GotAReport
    BY DEF GotAResp, GotAReport, HasIt
  <1>2. rxTs["I"] \in Int
    BY StsTimes DEF Node
  <1>3. PICK d \in Int : d = rxTs["I"]
    BY <1>2
  <1>4. Offset' = Offset /\ Offset \in Int /\ Sent("I") \in Int
    BY StsTimes DEF Offset, Node
  <1>5. SameLo(Offset', Offset) /\ SameLo(Sent("I")', Sent("I")) /\ SameLo(d, d)
    BY <1>4, SameLoEquivalence
  <1>6. (\A data : RespSays(data, d) => RespSays(data, d)') /\ Turn' = Turn /\ Told' = Told
    BY <1>5, StsCarried
  <1>7. RespFits => RespFits'
    <2> SUFFICES ASSUME RespFits, GotAResp PROVE RespSays(rxBuf["I"].data, rxTs["I"])'
      BY <1>1 DEF RespFits
    <2>1. PICK data : data = rxBuf["I"].data
      OBVIOUS
    <2>2. RespSays(data, d)'
      BY <1>3, <1>6, <2>1 DEF RespFits
    <2> QED BY <1>3, <2>1, <2>2 DEF RespSays
  <1>8. ReportFits => ReportFits'
    BY <1>1, <1>6 DEF ReportFits
  <1>9. KeptFits => KeptFits'
    BY <1>6 DEF KeptFits
  <1> QED BY <1>1, <1>7, <1>8, <1>9

(* The exchanges stay apart as long as nothing is added.                   *)
LEMMA StsApart ==
  ASSUME Apart, Coming' \subseteq Coming, proto' = proto,
         GotAPoll' => GotAPoll, GotAPoll' /\ Timely' => Timely,
         GotAResp' => GotAResp,
         pc'["I"] = "waitReport" => pc["I"] = "waitReport" \/ GotAResp
  PROVE  Apart'
  <1>1. \A m, o \in Coming' : m = o \/ (proto' = "nd" /\ m.frame.kind # "poll")
    BY DEF Apart
  <1>2. GotAPoll' => /\ \A m \in Coming' : m.frame.kind = "poll"
                     /\ Timely' => Coming' = {}
    BY DEF Apart
  <1>3. GotAPoll' \/ (\E m \in Coming' : m.frame.kind = "poll")
          => ~GotAResp' /\ pc'["I"] # "waitReport"
    BY DEF Apart
  <1>4. GotAResp' /\ proto' = "ds" => Coming' = {}
    BY DEF Apart
  <1> QED BY <1>1, <1>2, <1>3, <1>4 DEF Apart

(* The responder's turnaround, as far as the copies tell.                  *)
LEMMA StsTurn ==
  ASSUME StsSwift, StsTypes
  PROVE  \E turn \in 0 .. Reply : SameLo(Turn, turn)
  <1>1. pollRxTs \in Timestamps /\ POLL_RX_TO_RESP_TX_DLY \in Nat
        /\ QUANTUM <= POLL_RX_TO_RESP_TX_DLY
    BY StsTimes, StsNumbers DEF StsSwift
  <1> QED BY <1>1, DelayedTurn DEF Turn, Reply

(* A response that arrives when the initiator's clock shows "due" ends a   *)
(* round trip of two flights and the turnaround.                           *)
LEMMA StsRound ==
  ASSUME StsTypes, NEW data, NEW due \in Int, RespSays(data, due), mode["I"] # "tx"
  PROVE  SameLo(due - txTs["I"], 2 * FLIGHT + Turn)
  <1> DEFINE o == Offset
             p == pollRxTs
             t == txTs["I"]
             u == Turn
             x == p + o
             y == t + FLIGHT
             v == due - o
             w == p + u + FLIGHT
  <1>1. o \in Int /\ p \in Int /\ t \in Int /\ u \in Int /\ FLIGHT \in Int
    BY StsTimes, StsNumbers DEF Node
  <1>2. SameLo(x, y) /\ SameLo(v, w)
    BY DEF RespSays, PollArrives, Sent
  <1> HIDE DEF o, p, t, u
  <1>3. /\ x \in Int /\ y \in Int /\ v \in Int /\ w \in Int
        /\ due - t \in Int /\ 2 * FLIGHT + u \in Int
        /\ (due - t) - (2 * FLIGHT + u) = (x - y) + (v - w)
    BY <1>1
  <1> HIDE DEF x, y, v, w
  <1>4. SameLo(due - t, 2 * FLIGHT + u)
    BY <1>2, <1>3, SameLoBalance
  <1> QED BY <1>4 DEF t, u

(* The single-sided formula, from the initiator's copies of such a round   *)
(* trip and what it is told.                                               *)
LEMMA StsSingleSided ==
  ASSUME StsSwift, StsTypes, NEW a \in 0 .. LOMOD - 1, NEW b \in 0 .. LOMOD - 1,
         SameLo(b - a, 2 * FLIGHT + Turn)
  PROVE  SsTwiceTof(a, Told[1], Told[2], b) = 2 * FLIGHT
  <1>1. PICK turn \in 0 .. Reply : SameLo(Turn, turn)
    BY StsTurn
  <1>2. /\ turn \in Int /\ turn \in 0 .. LOMOD - 1 /\ turn < LOMOD \div 2
        /\ 2 * FLIGHT + turn \in 0 .. LOMOD - 1 /\ 2 * FLIGHT + turn < LOMOD \div 2
    <2>1. LOMOD \div 2 <= LOMOD /\ LOMOD \div 2 \in Nat
      BY StsNumbers
    <2> QED BY <1>1, <2>1, StsNumbers DEF StsSwift
  <1>3. Turn \in Int /\ pollRxTs \in Int /\ pollRxTs \in Timestamps
    BY StsTimes
  <1>4. DelayedTxTs(pollRxTs, POLL_RX_TO_RESP_TX_DLY) \in Int
    BY <1>3, StsNumbers, DelayedTypes
  <1>5. Sub32(Told[2], Told[1]) = turn
    <2>1. SameLo(DelayedTxTs(pollRxTs, POLL_RX_TO_RESP_TX_DLY) - pollRxTs, turn)
      BY <1>1 DEF Turn
    <2>2. Sub32(MsgTs(DelayedTxTs(pollRxTs, POLL_RX_TO_RESP_TX_DLY)), MsgTs(pollRxTs)) = turn
      BY <1>2, <1>3, <1>4, <2>1, CopiesSubtract
    <2> QED BY <2>2 DEF Told
  <1>6. Sub32(b, a) = 2 * FLIGHT + turn
    <2>1. b - a \in Int /\ FLIGHT \in Int
      BY StsNumbers
    <2> DEFINE d == b - a
               u == Turn
               x == 2 * FLIGHT + u
               y == 2 * FLIGHT + turn
    <2>2. x \in Int /\ y \in Int /\ x - y = u - turn
      BY <1>2, <1>3, <2>1
    <2>3. SameLo(x, y)
      <3> HIDE DEF x, y
      <3> QED BY <1>1, <1>2, <1>3, <2>2, SameLoBalance
    <2>4. d \in Int /\ SameLo(d, x) /\ y \in 0 .. LOMOD - 1
      BY <1>2, <2>1
    <2> HIDE DEF d, x, y
    <2>5. SameLo(d, y)
      BY <2>2, <2>3, <2>4, SameLoEquivalence
    <2>6. d % LOMOD = y
      BY <2>4, <2>5, SameLoExact
    <2> QED BY <2>6 DEF Sub32, d, y
  <1>7. Signed32(turn) = turn /\ Signed32(2 * FLIGHT + turn) = 2 * FLIGHT + turn
    BY <1>2 DEF Signed32
  <1>8. (2 * FLIGHT + turn) - turn = 2 * FLIGHT
    BY <1>2, StsNumbers
  <1> QED BY <1>5, <1>6, <1>7, <1>8 DEF SsTwiceTof

(* The double-sided formula, from what the final message says and what the *)
(* responder knows.                                                        *)
LEMMA StsDoubleSided ==
  ASSUME StsSwift, StsTypes, NEW pollTx \in 0 .. LOMOD - 1, NEW respRx \in 0 .. LOMOD - 1,
         NEW finalTx \in 0 .. LOMOD - 1, NEW last \in 0 .. Last, NEW r \in Int, NEW s \in Int,
         SameLo(respRx - pollTx, 2 * FLIGHT + Turn), SameLo(finalTx - respRx, last),
         SameLo(r, pollRxTs + Turn + 2 * FLIGHT + last), SameLo(s, pollRxTs + Turn)
  PROVE  DsTof(pollTx, MsgTs(pollRxTs), MsgTs(s), respRx, finalTx, MsgTs(r)) = FLIGHT
  <1> DEFINE p == pollRxTs
             u == Turn
  <1>1. PICK turn \in 0 .. Reply : SameLo(u, turn)
    BY StsTurn
  <1>2. /\ turn \in Nat /\ last \in Nat /\ turn \in 0 .. LOMOD - 1 /\ last \in 0 .. LOMOD - 1
        /\ 2 * FLIGHT + turn \in 0 .. LOMOD - 1 /\ 2 * FLIGHT + last \in 0 .. LOMOD - 1
    <2>1. LOMOD \div 2 <= LOMOD /\ LOMOD \div 2 \in Nat
      BY StsNumbers
    <2> QED BY <1>1, <2>1, StsNumbers DEF StsSwift
  <1>3. u \in Int /\ p \in Int /\ FLIGHT \in Int /\ respRx - pollTx \in Int
        /\ finalTx - respRx \in Int
    BY StsTimes, StsNumbers
  <1>4. SameLo(s, p + u) /\ SameLo(r, p + u + 2 * FLIGHT + last)
        /\ SameLo(respRx - pollTx, 2 * FLIGHT + u)
    OBVIOUS
  <1> HIDE DEF p, u
  <1>5. Sub32(respRx, pollTx) = 2 * FLIGHT + turn
    <2> DEFINE d == respRx - pollTx
               x == 2 * FLIGHT + u
               y == 2 * FLIGHT + turn
    <2>1. x \in Int /\ y \in Int /\ x - y = u - turn
      BY <1>2, <1>3
    <2>2. SameLo(x, y)
      <3> HIDE DEF x, y
      <3> QED BY <1>1, <1>2, <1>3, <2>1, SameLoBalance
    <2>3. d \in Int /\ SameLo(d, x) /\ y \in 0 .. LOMOD - 1
      BY <1>2, <1>3, <1>4
    <2> HIDE DEF d, x, y
    <2>4. SameLo(d, y)
      BY <2>1, <2>2, <2>3, SameLoEquivalence
    <2>5. d % LOMOD = y
      BY <2>3, <2>4, SameLoExact
    <2> QED BY <2>5 DEF Sub32, d, y
  <1>6. Sub32(finalTx, respRx) = last
    BY <1>2, <1>3, SameLoExact DEF Sub32
  <1>7. Sub32(MsgTs(s), MsgTs(p)) = turn
    <2>1. SameLo(s - p, u)
      <3> DEFINE x == p + u
      <3>1. x \in Int /\ s - p \in Int /\ (s - p) - u = s - x /\ SameLo(s, x)
        BY <1>3, <1>4
      <3> HIDE DEF x
      <3> QED BY <1>3, <3>1, SameLoBalance
    <2>2. SameLo(s - p, turn)
      <3>1. s - p \in Int
        BY <1>3
      <3> QED BY <1>1, <1>2, <1>3, <2>1, <3>1, SameLoEquivalence
    <2> QED BY <1>2, <1>3, <2>2, CopiesSubtract
  <1>8. Sub32(MsgTs(r), MsgTs(s)) = 2 * FLIGHT + last
    <2> DEFINE x == p + u + 2 * FLIGHT + last
               y == p + u
    <2>1. /\ x \in Int /\ y \in Int /\ SameLo(r, x) /\ SameLo(s, y)
          /\ (r - s) - (2 * FLIGHT + last) = (r - x) - (s - y)
          /\ r - s \in Int /\ 2 * FLIGHT + last \in Int
      BY <1>2, <1>3, <1>4
    <2> HIDE DEF x, y
    <2>2. SameLo(r - s, 2 * FLIGHT + last)
      BY <2>1, SameLoBalance
    <2> QED BY <1>2, <2>2, CopiesSubtract
  <1>9. TruncDiv((2 * FLIGHT + turn) * (2 * FLIGHT + last) - last * turn,
                 (2 * FLIGHT + turn) + (2 * FLIGHT + last) + last + turn) = FLIGHT
    BY <1>2, StsNumbers, AsymmetricRounds
  <1> QED BY <1>5, <1>6, <1>7, <1>8, <1>9 DEF DsTof, p

StsInv == Shape /\ StsPhases /\ StsTypes /\ StsExchange /\ Sts!DistanceIsTrue

LEMMA StsParts ==
  ASSUME StsInv
  PROVE  /\ Shape /\ StsPhases /\ StsTypes /\ Sts!DistanceIsTrue
         /\ StsRoles /\ Apart /\ ComingFits /\ PollFits /\ RespFits /\ FinalFits /\ ReportFits
         /\ KeptFits /\ SentFits /\ ReportingFits
         /\ "I" \in Node /\ "R" \in Node
         /\ pc \in [Node -> Points] /\ mode \in [Node -> Modes] /\ nap \in [Node -> Nat]
         /\ status \in [Node -> SUBSET Flags] /\ left \in [Node -> Nat]
         /\ txBuf \in [Node -> StsFrames] /\ rxBuf \in [Node -> StsFrames]
         /\ lag \in [Node -> 0 .. MaxLag] /\ sts \in [Node -> Int]
         /\ rxTs \in [Node -> Timestamps] /\ txTs \in [Node -> Timestamps]
         /\ clock \in [Node -> Timestamps] /\ w4r \in [Node -> BOOLEAN]
  <1> HIDE DEF StsFrames
  <1>1. Shape /\ StsPhases /\ StsTypes /\ StsExchange /\ Sts!DistanceIsTrue
    BY DEF StsInv
  <1> QED BY <1>1 DEF StsExchange, StsTypes, LinkTypeOK, HostTypeOK, Node

(* What a good frame with STS is, at each point.                           *)
LEMMA StsGot ==
  ASSUME StsInv
  PROVE  /\ Sts!GotResponse => GotAResp /\ sts["I"] = 1 /\ pc["I"] = "waitResp"
         /\ Sts!GotPoll => GotAPoll /\ sts["R"] = 0
         /\ Sts!GotFinal => GotAFinal
  <1>1. /\ StsRoles /\ rxBuf["I"] \in StsFrames /\ rxBuf["R"] \in StsFrames
    BY StsParts, StsTimes
  <1>2. ASSUME Sts!GotResponse PROVE GotAResp /\ sts["I"] = 1 /\ pc["I"] = "waitResp"
    BY <1>1, <1>2 DEF Sts!GotResponse, Sts!GoodFrame, Sts!StsGood, GotAResp, HasIt, StsRoles
  <1>3. ASSUME Sts!GotPoll PROVE GotAPoll /\ sts["R"] = 0
    <2>1. /\ pc["R"] \in {"listen", "waitFinal"} /\ "RXFCG" \in status["R"]
          /\ rxBuf["R"].kind \in {"poll", "final"} /\ rxBuf["R"].data[1] = sts["R"]
          /\ proto # "nd" => rxBuf["R"].kind = "poll"
      BY <1>1, <1>3 DEF Sts!GotPoll, Sts!Hearing, Sts!GoodFrame, Sts!StsGood, StsRoles
    <2>2. sts["R"] = IF rxBuf["R"].kind = "poll" THEN 0 ELSE 2
      BY <1>1, <2>1, StsData
    <2>3. pc["R"] = "listen"
      BY <1>1, <2>1, <2>2 DEF StsRoles
    <2> QED BY <1>1, <2>1, <2>2, <2>3 DEF StsRoles, GotAPoll, HasIt
  <1>4. ASSUME Sts!GotFinal PROVE GotAFinal
    <2>1. /\ pc["R"] \in {"listen", "waitFinal"} /\ "RXFCG" \in status["R"] /\ proto = "ds"
          /\ rxBuf["R"].kind = "final" /\ rxBuf["R"].data[1] = sts["R"]
      BY <1>4 DEF Sts!GotFinal, Sts!Hearing, Sts!GoodFrame, Sts!StsGood
    <2>2. sts["R"] = 2
      BY <1>1, <2>1, StsData
    <2> QED BY <1>1, <2>1, <2>2 DEF StsRoles, GotAFinal, HasIt
  <1> QED BY <1>2, <1>3, <1>4

(* The initiator's steps: no frame leaves during one, and the final        *)
(* message it prepares is one that ends the exchange.                      *)
LEMMA StsInitiatorActs ==
  ASSUME StsSwift, StsInv, StsTypes', Sts!Initiator
  PROVE  StsExchange' /\ Sts!DistanceIsTrue'
<1>t. /\ Shape /\ StsPhases /\ StsTypes /\ Sts!DistanceIsTrue
      /\ StsRoles /\ Apart /\ ComingFits /\ PollFits /\ RespFits /\ FinalFits /\ ReportFits
      /\ KeptFits /\ SentFits /\ ReportingFits /\ "I" \in Node /\ "R" \in Node
  BY StsParts
<1>n. /\ pc \in [Node -> Points] /\ mode \in [Node -> Modes] /\ nap \in [Node -> Nat]
      /\ status \in [Node -> SUBSET Flags] /\ left \in [Node -> Nat]
      /\ txBuf \in [Node -> StsFrames] /\ rxBuf \in [Node -> StsFrames]
      /\ lag \in [Node -> 0 .. MaxLag] /\ sts \in [Node -> Int]
      /\ rxTs \in [Node -> Timestamps] /\ txTs \in [Node -> Timestamps]
      /\ clock \in [Node -> Timestamps]
  BY StsParts
<1> HIDE DEF StsFrames
<1> DEFINE Ends == \/ Sts!RecvResponseLate \/ Sts!FinalSent \/ Sts!RecvResponseSs
                   \/ Sts!RecvReport \/ Sts!InitiatorFailed
<1>w. Sts!Noticed("I") => /\ pc["I"] \in {"waitPoll", "waitTx"} => "TXFRS" \in status["I"]
  BY DEF Sts!Noticed, Sts!Awaited, Sts!TxPoints
<1>p. pc["I"] # "sleep" => mode["I"] # "tx" \/ pc["I"] \in {"waitPoll", "waitTx"}
  BY <1>t DEF StsPhases, Hearing
<1>q. "TXFRS" \in status["I"] /\ pc["I"] \in {"waitPoll", "waitTx"} => mode["I"] # "tx"
  BY <1>t DEF StsPhases, AskingPoll, Asking, Sending
<1>1. Stays("R") /\ UNCHANGED <<clock, air, proto, pollRxTs, txTs, rxTs>>
  <2> USE <1>t, <1>n DEF Sts!Rest, Node, Stays
  <2>1. CASE Sts!SendPoll
    BY <2>1 DEF Sts!SendPoll, Sts!StsAt, Sts!StartTxNow, Sts!StartTx, Sts!Goto
  <2>2. CASE Sts!PollSent
    BY <2>2 DEF Sts!PollSent, Sts!ClearFlags, Sts!EnableAfterTx, Sts!EnableFresh, Sts!Goto
  <2>3. CASE Sts!RecvResponseDs
    BY <2>3 DEF Sts!RecvResponseDs, Sts!StsAt, Sts!StartTxAt, Sts!StartTx, Sts!Goto
  <2>4. CASE Ends
    BY <2>4 DEF Sts!RecvResponseLate, Sts!FinalSent, Sts!RecvResponseSs, Sts!RecvReport,
                Sts!InitiatorFailed, Sts!FailTx, Sts!ClearFlags, Sts!Sleep
  <2>5. CASE Sts!RecvResponseNd
    BY <2>5 DEF Sts!RecvResponseNd, Sts!EnableAfterTx, Sts!EnableFresh, Sts!Goto
  <2> QED BY <2>1, <2>2, <2>3, <2>4, <2>5 DEF Sts!Initiator
<1>2. /\ FinalFits' /\ SentFits' /\ GotAPoll' = GotAPoll /\ Timely' = Timely
      /\ Reporting' = Reporting
  <2>1. UNCHANGED <<clock, proto, pollRxTs>> /\ Stays("R")
    BY <1>1
  <2>2. /\ GotAPoll' = GotAPoll /\ Timely' = Timely /\ Reporting' = Reporting
        /\ FinalFits => FinalFits'
        /\ SentFits => SentFits'
    BY <1>t, <2>1, StsResponderStays
  <2> QED BY <1>t, <2>2
<1>g. Sts!GotResponse => GotAResp /\ sts["I"] = 1 /\ pc["I"] = "waitResp"
  BY StsGot
(* A step of an initiator that goes on waiting or sleeps afterwards.       *)
<1>3. ASSUME mode["I"] # "tx", mode'["I"] # "tx", pc["I"] # "sleep",
             pc'["I"] = "sleep" => nap'["I"] = RNG_DELAY
      PROVE  /\ ComingFits' /\ PollFits' /\ ReportingFits' /\ Coming' \subseteq Coming
             /\ Quiet
  <2>1. Coming' \subseteq Coming
    <3>1. \A n \in Node \ {} : mode'[n] = "tx" =>
            mode[n] = "tx" /\ left'[n] = left[n] /\ txBuf'[n] = txBuf[n]
      BY <1>1, <1>3 DEF Node, Stays
    <3>2. Coming' \subseteq
            Coming \cup {[to |-> Peer(n), left |-> left'[n] + FLIGHT, frame |-> txBuf'[n]] : n \in {}}
      BY <1>1, <3>1, StsComing
    <3> QED BY <3>2
  <2>2. Pause' >= Pause
    <3>1. Pause = RNG_DELAY /\ Pause' = RNG_DELAY
      BY <1>3, StsNumbers DEF Pause
    <3> QED BY <3>1, StsNumbers
  <2>3. Sent("I")' = Sent("I")
    BY <1>1, <1>3 DEF Sent
  <2>4. Quiet
    BY <1>1, <2>1, <2>2, <2>3 DEF Quiet
  <2> QED BY <1>t, <1>1, <2>1, <2>4, StsQuiet, StsResponderQuiet
<1>4. ASSUME pc'["I"] = "sleep", mode["I"] # "tx", mode'["I"] # "tx", pc["I"] # "sleep",
             nap'["I"] = RNG_DELAY, rxBuf'["I"] = rxBuf["I"]
      PROVE  StsExchange'
  <2>1. ~GotAResp' /\ ~GotAReport' /\ pc'["I"] # "waitReport"
    BY <1>4 DEF GotAResp, GotAReport
  <2>2. /\ ComingFits' /\ PollFits' /\ ReportingFits' /\ Coming' \subseteq Coming
    BY <1>3, <1>4
  <2>3. Apart'
    BY <1>t, <1>1, <1>2, <2>1, <2>2, StsApart
  <2>4. StsRoles'
    BY <1>t, <1>1, <1>2, <1>4 DEF StsRoles, Stays
  <2> QED BY <1>2, <2>1, <2>2, <2>3, <2>4 DEF StsExchange, RespFits, ReportFits, KeptFits
<1>5. ASSUME Ends
      PROVE  /\ pc'["I"] = "sleep" /\ mode["I"] # "tx" /\ mode'["I"] # "tx" /\ pc["I"] # "sleep"
             /\ nap'["I"] = RNG_DELAY /\ rxBuf'["I"] = rxBuf["I"]
  <2>1. mode["I"] # "tx" /\ pc["I"] # "sleep"
    BY <1>5, <1>w, <1>p, <1>q, <1>g
       DEF Sts!RecvResponseLate, Sts!FinalSent, Sts!RecvResponseSs, Sts!RecvReport, Sts!GotReport,
           Sts!InitiatorFailed
  <2> QED
    BY <1>t, <1>n, <1>5, <2>1
       DEF Sts!RecvResponseLate, Sts!FinalSent, Sts!RecvResponseSs, Sts!RecvReport,
           Sts!InitiatorFailed, Sts!FailTx, Sts!ClearFlags, Sts!Sleep
<1>6. ASSUME ~Sts!RecvResponseSs, ~Sts!RecvReport PROVE Sts!DistanceIsTrue'
  <2>1. result' = result
    BY <1>6 DEF Sts!Initiator, Sts!SendPoll, Sts!PollSent, Sts!RecvResponseDs,
                Sts!RecvResponseLate, Sts!FinalSent, Sts!RecvResponseNd, Sts!InitiatorFailed
  <2> QED BY <1>t, <1>1, <2>1 DEF Sts!DistanceIsTrue
<1>r. ASSUME GotAResp
      PROVE  /\ SameLo(rxTs["I"] - txTs["I"], 2 * FLIGHT + Turn) /\ mode["I"] # "tx"
             /\ RespSays(rxBuf["I"].data, rxTs["I"]) /\ ~GotAPoll
  <2>1. RespSays(rxBuf["I"].data, rxTs["I"]) /\ rxTs["I"] \in Int
    BY <1>t, <1>r, StsTimes DEF RespFits
  <2>2. mode["I"] # "tx"
    BY <1>t, <1>r DEF GotAResp, HasIt, StsPhases, AskingPoll, Asking, Hearing, RxWait, NoRxFlag,
                      RxMask
  <2> QED BY <1>t, <1>r, <2>1, <2>2, StsRound DEF Apart
<1>i. /\ txTs["I"] \in Int /\ rxTs["I"] \in Int /\ rxTs["I"] \in Timestamps
      /\ MsgTs(txTs["I"]) \in 0 .. LOMOD - 1 /\ MsgTs(rxTs["I"]) \in 0 .. LOMOD - 1
      /\ Turn \in Int /\ clock["I"] \in Int /\ clock["R"] \in Int /\ pollRxTs \in Int
      /\ 2 * FLIGHT + Turn \in Int
  <2>1. /\ txTs["I"] \in Int /\ rxTs["I"] \in Int /\ rxTs["I"] \in Timestamps /\ Turn \in Int
        /\ clock["I"] \in Int /\ clock["R"] \in Int /\ pollRxTs \in Int
    BY <1>t, StsTimes
  <2> QED BY <2>1, StsNumbers, TimeTypes
<1>7. CASE Sts!RecvResponseLate \/ Sts!FinalSent \/ Sts!InitiatorFailed
  <2>1. StsExchange'
    BY <1>4, <1>5, <1>7
  <2>2. result' = result
    BY <1>7 DEF Sts!RecvResponseLate, Sts!FinalSent, Sts!InitiatorFailed
  <2> QED BY <1>t, <1>1, <2>1, <2>2 DEF Sts!DistanceIsTrue
<1>8. CASE Sts!RecvResponseSs
  <2>1. StsExchange'
    BY <1>4, <1>5, <1>8
  <2>2. GotAResp /\ proto = "ss"
    BY <1>8, <1>g DEF Sts!RecvResponseSs
  <2>3. rxBuf["I"].data = <<1, Told[1], Told[2]>>
    BY <1>r, <2>2 DEF RespSays
  <2>4. Tail(rxBuf["I"].data) = <<Told[1], Told[2]>>
    <3>1. Told[1] \in Int /\ Told[2] \in Int
      <4>1. MsgTs(pollRxTs) \in Int
        BY <1>i, TimeTypes, StsNumbers
      <4>2. DelayedTxTs(pollRxTs, POLL_RX_TO_RESP_TX_DLY) \in Int
        BY <1>t, StsTimes, StsNumbers, DelayedTypes
      <4>3. MsgTs(DelayedTxTs(pollRxTs, POLL_RX_TO_RESP_TX_DLY)) \in Int
        BY <4>2, TimeTypes, StsNumbers
      <4> QED BY <4>1, <4>3 DEF Told
    <3> QED BY <2>3, <3>1, TailIs
  <2>5. SameLo(MsgTs(rxTs["I"]) - MsgTs(txTs["I"]), 2 * FLIGHT + Turn)
    BY <1>i, <1>r, <2>2, CopiesDiffer
  <2>6. SsTwiceTof(MsgTs(txTs["I"]), Told[1], Told[2], MsgTs(rxTs["I"])) = 2 * FLIGHT
    BY <1>t, <1>i, <2>5, StsSingleSided
  <2>7. result' = <<2 * FLIGHT>>
    <3>1. \A a, b, c, d : Sts!SsTwiceTof(a, b, c, d) = SsTwiceTof(a, b, c, d)
      BY DEF Sts!SsTwiceTof, SsTwiceTof, Sts!Sub32, Sub32, Sts!Signed32, Signed32
    <3>2. \A ts : Sts!MsgTs(ts) = MsgTs(ts)
      BY DEF Sts!MsgTs, MsgTs
    <3>3. Sts!Report(Sts!MsgTs(txTs["I"]), Sts!MsgTs(rxTs["I"]), Tail(rxBuf["I"].data))
      BY <1>8 DEF Sts!RecvResponseSs
    <3>4. Sts!Report(MsgTs(txTs["I"]), MsgTs(rxTs["I"]), <<Told[1], Told[2]>>)
      BY <2>4, <3>2, <3>3
    <3>5. result' = <<SsTwiceTof(MsgTs(txTs["I"]), Told[1], Told[2], MsgTs(rxTs["I"]))>>
      BY <3>1, <3>4 DEF Sts!Report
    <3> QED BY <2>6, <3>5
  <2> QED BY <1>1, <2>1, <2>2, <2>7 DEF Sts!DistanceIsTrue
<1>9. CASE Sts!RecvReport
  <2>1. StsExchange'
    BY <1>4, <1>5, <1>9
  <2>2. GotAReport /\ proto = "nd" /\ pc["I"] = "waitReport"
    BY <1>t, <1>9 DEF Sts!RecvReport, Sts!GotReport, GotAReport, HasIt, StsRoles
  <2>3. rxBuf["I"].data = Told
    BY <1>t, <2>2 DEF ReportFits
  <2>4. PICK a \in 0 .. LOMOD - 1, b \in 0 .. LOMOD - 1 :
          kept = <<a, b>> /\ SameLo(b - a, 2 * FLIGHT + Turn)
    BY <1>t, <2>2 DEF KeptFits
  <2>5. SsTwiceTof(a, Told[1], Told[2], b) = 2 * FLIGHT
    BY <1>t, <2>4, StsSingleSided
  <2>6. result' = <<2 * FLIGHT>>
    BY <1>9, <2>3, <2>4, <2>5
       DEF Sts!RecvReport, Sts!Report, Sts!SsTwiceTof, SsTwiceTof, Sts!Sub32, Sub32,
           Sts!Signed32, Signed32
  <2> QED BY <1>1, <2>1, <2>2, <2>6 DEF Sts!DistanceIsTrue
<1>10. CASE Sts!PollSent
  <2>1. /\ pc["I"] = "waitPoll" /\ mode["I"] # "tx" /\ sts["I"] = 1
    BY <1>t, <1>w, <1>q, <1>10 DEF Sts!PollSent, StsRoles
  <2>2. /\ pc'["I"] = "waitResp" /\ mode'["I"] # "tx" /\ sts' = sts /\ kept' = kept
        /\ proto = "ds" => rxBuf'["I"] = rxBuf["I"] /\ status'["I"] \subseteq status["I"]
        /\ proto # "ds" => rxBuf'["I"].kind = "none"
    BY <1>t, <1>n, <1>10, <2>1
       DEF Sts!PollSent, Sts!ClearFlags, Sts!EnableAfterTx, Sts!EnableFresh, Sts!Goto,
           Sts!NoFrame, Sts!Frame
  <2>3. ComingFits' /\ PollFits' /\ ReportingFits' /\ Coming' \subseteq Coming /\ Quiet
    BY <1>3, <2>1, <2>2
  <2>4. GotAResp' => GotAResp /\ rxBuf'["I"] = rxBuf["I"]
    BY <1>1, <2>1, <2>2 DEF GotAResp, HasIt
  <2>5. Apart'
    BY <1>t, <1>1, <1>2, <2>2, <2>3, <2>4, StsApart
  <2>6. RespFits'
    <3> SUFFICES ASSUME GotAResp' PROVE RespSays(rxBuf["I"].data, rxTs["I"])'
      BY DEF RespFits
    <3>1. PICK d \in Int : d = rxTs["I"]
      BY <1>i
    <3>2. PICK data : data = rxBuf["I"].data
      OBVIOUS
    <3>3. RespSays(data, d)
      BY <1>t, <2>4, <3>1, <3>2 DEF RespFits
    <3>4. RespSays(data, d)'
      BY <1>t, <2>3, <3>3, StsQuiet
    <3> QED BY <1>1, <2>4, <3>1, <3>2, <3>4 DEF RespSays
  <2>7. StsRoles'
    BY <1>t, <1>1, <1>2, <2>1, <2>2 DEF StsRoles, Stays
  <2>8. ReportFits' /\ KeptFits'
    BY <2>2 DEF ReportFits, GotAReport, KeptFits
  <2>9. Sts!DistanceIsTrue'
    <3>1. result' = result
      BY <1>10 DEF Sts!PollSent
    <3> QED BY <1>t, <1>1, <3>1 DEF Sts!DistanceIsTrue
  <2> QED BY <1>2, <2>3, <2>5, <2>6, <2>7, <2>8, <2>9 DEF StsExchange
<1>11. CASE Sts!RecvResponseNd
  <2>1. GotAResp /\ proto = "nd" /\ pc["I"] = "waitResp"
    BY <1>g, <1>11 DEF Sts!RecvResponseNd
  <2>2. /\ pc'["I"] = "waitReport" /\ mode'["I"] # "tx" /\ sts' = sts
        /\ rxBuf'["I"].kind = "none" /\ kept' = <<MsgTs(txTs["I"]), MsgTs(rxTs["I"])>>
    BY <1>t, <1>n, <1>11
       DEF Sts!RecvResponseNd, Sts!EnableAfterTx, Sts!EnableFresh, Sts!Goto, Sts!NoFrame,
           Sts!Frame, Sts!MsgTs, MsgTs
  <2>3. ComingFits' /\ PollFits' /\ ReportingFits' /\ Coming' \subseteq Coming /\ Quiet
    BY <1>3, <1>r, <2>1, <2>2
  <2>4. ~GotAResp' /\ ~GotAReport'
    BY <2>2 DEF GotAResp, GotAReport, HasIt
  <2>5. Apart'
    BY <1>t, <1>1, <1>2, <2>1, <2>3, <2>4, StsApart
  <2>6. KeptFits'
    <3>1. Turn' = Turn
      BY <1>1 DEF Turn
    <3>2. SameLo(MsgTs(rxTs["I"]) - MsgTs(txTs["I"]), 2 * FLIGHT + Turn)
      BY <1>i, <1>r, <2>1, CopiesDiffer
    <3> QED BY <1>i, <2>2, <3>1, <3>2 DEF KeptFits
  <2>7. StsRoles'
    BY <1>t, <1>1, <1>2, <2>1, <2>2 DEF StsRoles, Stays
  <2>8. ReportFits' /\ RespFits'
    BY <2>4 DEF ReportFits, RespFits
  <2>9. Sts!DistanceIsTrue'
    <3>1. result' = result
      BY <1>11 DEF Sts!RecvResponseNd
    <3> QED BY <1>t, <1>1, <3>1 DEF Sts!DistanceIsTrue
  <2> QED BY <1>2, <2>3, <2>5, <2>6, <2>7, <2>8, <2>9 DEF StsExchange
<1> DEFINE new == [to |-> "R", left |-> left'["I"] + FLIGHT, frame |-> txBuf'["I"]]
<1>c. ASSUME Coming = {} PROVE Coming' \subseteq {new}
  <2>1. \A n \in Node \ {"I"} : mode'[n] = "tx" =>
          mode[n] = "tx" /\ left'[n] = left[n] /\ txBuf'[n] = txBuf[n]
    BY <1>1 DEF Node, Stays
  <2>2. air' \subseteq air
    BY <1>1
  <2>3. Coming' \subseteq
          Coming \cup {[to |-> Peer(n), left |-> left'[n] + FLIGHT, frame |-> txBuf'[n]] : n \in {"I"}}
    BY <2>1, <2>2, StsComing
  <2> QED BY <1>c, <2>3 DEF Peer
<1>f. new.to = "R" /\ new.left = left'["I"] + FLIGHT /\ new.frame = txBuf'["I"]
  OBVIOUS
<1> HIDE DEF new
<1>12. CASE Sts!SendPoll
  <2>1. pc["I"] = "sleep" /\ nap["I"] = 0 /\ Pause = 0 /\ "RXFCG" \notin status["I"]
    BY <1>t, <1>12 DEF Sts!SendPoll, Sts!Awake, Sts!Rested, StsPhases, Asleep, NoRxFlag, RxMask,
                       Pause
  <2>2. Coming = {}
    <3>1. \A m \in Coming : m.left \in Nat /\ m.left < 0
      BY <1>t, <2>1, StsTimes DEF ComingFits
    <3>2. \A m \in Coming : FALSE
      BY <3>1
    <3> QED BY <3>2
  <2>3. ASSUME NEW t \in Nat, t <= 2 * POLL_RX_TO_RESP_TX_DLY PROVE ~OverBefore(0 - t)
    BY <2>1, <2>3, StsNumbers DEF OverBefore
  <2>4. /\ pc'["I"] = "waitPoll" /\ mode'["I"] = "tx" /\ left'["I"] = 0 /\ sts'["I"] = 1
        /\ txBuf'["I"].kind = "poll" /\ "RXFCG" \notin status'["I"] /\ rxBuf' = rxBuf
        /\ result' = result
    BY <1>t, <1>n, <1>12, <2>1
       DEF Sts!SendPoll, Sts!StsAt, Sts!StartTxNow, Sts!StartTx, Sts!Goto, Sts!Frame
  <2>5. Pause' = RNG_DELAY /\ Sent("I")' = clock["I"]
    BY <1>1, <1>i, <2>4, StsNumbers DEF Pause, Sent
  <2>6. Coming' \subseteq {new} /\ new.left = FLIGHT
    BY <1>c, <1>f, <2>2, <2>4, StsNumbers
  <2>7. ComingFits'
    <3>1. FLIGHT < Pause' /\ OverBefore(FLIGHT)'
      BY <2>5, StsNumbers DEF StsSwift, OverBefore
    <3>2. PollArrives(clock["R"] + FLIGHT)'
      <4>1. (clock["R"] + FLIGHT) + (clock["I"] - clock["R"]) = clock["I"] + FLIGHT
            /\ clock["I"] + FLIGHT \in Int
        BY <1>i, StsNumbers
      <4>2. SameLo(clock["I"] + FLIGHT, clock["I"] + FLIGHT)
        BY <4>1, SameLoEquivalence
      <4> QED BY <1>1, <2>5, <4>1, <4>2 DEF PollArrives, Offset
    <3>3. ASSUME NEW m \in Coming'
          PROVE  /\ m.left = FLIGHT /\ m.to = "R" /\ m.frame.kind = "poll"
      BY <1>f, <2>4, <2>6, <3>3
    <3>4. OverBefore(FLIGHT)' /\ PollArrives(clock["R"] + FLIGHT)' /\ FLIGHT < Pause'
      BY <3>1, <3>2
    <3>5. ASSUME NEW m \in Coming'
          PROVE  OverBefore(m.left)' /\ PollArrives(clock["R"] + m.left)'
      BY <3>3, <3>4 DEF OverBefore, PollArrives
    <3> QED BY <3>1, <3>3, <3>5 DEF ComingFits
  <2>8. ~GotAResp' /\ ~GotAReport' /\ pc'["I"] # "waitReport"
    BY <2>4 DEF GotAResp, GotAReport, HasIt
  <2>9. GotAPoll => ~Timely
    BY <1>t, <2>3, StsTimes, StsNumbers DEF PollFits, Timely
  <2>10. PollFits'
    BY <1>t, <1>1, <1>2, <2>9 DEF PollFits, Stays
  <2>11. ReportingFits'
    <3> SUFFICES ASSUME Reporting PROVE ReportingFits'
      BY <1>2 DEF ReportingFits
    <3>1. PICK l \in Nat :
            /\ clock["R"] = (pollRxTs + l) % TSMOD
            /\ l + (IF mode["R"] = "tx" THEN left["R"] ELSE 0) <= Reply + lag["R"]
            /\ l <= 2 * POLL_RX_TO_RESP_TX_DLY =>
                 OverBefore(0 - l) /\ \A m \in Coming : m.frame.kind # "poll"
      BY <1>t DEF ReportingFits
    <3>2. ~(l <= 2 * POLL_RX_TO_RESP_TX_DLY)
      BY <2>3, <3>1
    <3> QED BY <1>1, <3>1, <3>2 DEF ReportingFits, Stays
  <2>12. Apart'
    <3>1. \A m \in Coming' : m.frame.kind = "poll" /\ m = new
      BY <1>f, <2>4, <2>6
    <3> QED BY <1>2, <2>8, <2>9, <3>1 DEF Apart
  <2>13. StsRoles'
    BY <1>t, <1>1, <1>2, <2>4 DEF StsRoles, Stays
  <2>14. Sts!DistanceIsTrue'
    BY <1>t, <1>1, <2>4 DEF Sts!DistanceIsTrue
  <2> QED BY <1>2, <2>7, <2>8, <2>10, <2>11, <2>12, <2>13, <2>14
          DEF StsExchange, RespFits, ReportFits, KeptFits
<1>13. CASE Sts!RecvResponseDs
  <2> DEFINE E == RESP_RX_TO_FINAL_TX_DLY
             ts == rxTs["I"]
             sent == DelayedTxTs(ts, E)
  <2>1. GotAResp /\ proto = "ds" /\ sts["I"] = 1 /\ pc["I"] = "waitResp" /\ Coming = {}
    BY <1>t, <1>g, <1>13 DEF Sts!RecvResponseDs, Apart
  <2>2. /\ Sts!FinalTime = DelayedTxTime(ts, E)
        /\ Sts!FinalData = <<MsgTs(txTs["I"]), MsgTs(ts), MsgTs(sent)>>
        /\ \A time : Sts!TicksTo("I", time) = TicksTo("I", time)
    BY DEF Sts!FinalTime, Sts!FinalData, Sts!DelayedTxTime, DelayedTxTime, Sts!DelayedTxTs,
           DelayedTxTs, Sts!MsgTs, MsgTs, Sts!TicksTo, TicksTo
  <2>3. sent \in Int /\ MsgTs(sent) \in 0 .. LOMOD - 1 /\ E \in Nat /\ ts \in Timestamps
        /\ ts \in Int
    BY <1>i, StsNumbers, DelayedTypes, TimeTypes
  <2>4. /\ pc'["I"] = "waitTx" /\ mode'["I"] = "tx" /\ rxBuf' = rxBuf /\ result' = result
        /\ left'["I"] = TicksTo("I", DelayedTxTime(ts, E)) + TX_ANT_DLY
        /\ txBuf'["I"] = Frame("final", <<2, MsgTs(txTs["I"]), MsgTs(ts), MsgTs(sent)>>)
    <3>1. <<2>> \o <<MsgTs(txTs["I"]), MsgTs(ts), MsgTs(sent)>>
            = <<2, MsgTs(txTs["I"]), MsgTs(ts), MsgTs(sent)>>
      BY <1>i, <2>3, PrefixThree, StsNumbers
    <3> HIDE DEF sent, ts, E
    <3>2. txBuf'["I"] = Frame("final", <<2>> \o <<MsgTs(txTs["I"]), MsgTs(ts), MsgTs(sent)>>)
      BY <1>t, <1>n, <1>13, <2>1, <2>2
         DEF Sts!RecvResponseDs, Sts!StartTxAt, Sts!StartTx, Sts!Frame, Frame
    <3>3. /\ pc'["I"] = "waitTx" /\ mode'["I"] = "tx" /\ rxBuf' = rxBuf /\ result' = result
          /\ left'["I"] = TicksTo("I", DelayedTxTime(ts, E)) + TX_ANT_DLY
      BY <1>t, <1>n, <1>13, <2>2
         DEF Sts!RecvResponseDs, Sts!StartTxAt, Sts!StartTx, Sts!Goto
    <3> QED BY <3>1, <3>2, <3>3
  <2>5. Coming' \subseteq {new}
    BY <1>c, <2>1
  <2>6. left'["I"] \in Nat
    <3>1. left' \in [Node -> Nat]
      BY DEF StsTypes, LinkTypeOK
    <3> QED BY <1>t, <3>1
  <2>7. ASSUME NEW data, data = <<2, MsgTs(txTs["I"]), MsgTs(ts), MsgTs(sent)>>
        PROVE  FinalSays(data, clock["R"] + (left'["I"] + FLIGHT))
    <3>1. PICK last \in 0 .. Last : SameLo(sent - ts, last)
      <4>1. QUANTUM <= E
        BY DEF StsSwift
      <4> QED BY <2>3, <4>1, DelayedTurn DEF Last
    <3>2. SameLo(clock["I"] + left'["I"], sent)
      BY <1>t, <1>i, <2>3, <2>4, SentAsPredicted
    <3>3. SameLo(MsgTs(sent) - MsgTs(ts), last)
      <4>1. last \in Int
        OBVIOUS
      <4> QED BY <2>3, <3>1, <4>1, CopiesDiffer
    <3>4. SameLo(MsgTs(ts) - MsgTs(txTs["I"]), 2 * FLIGHT + Turn)
      BY <1>i, <1>r, <2>1, CopiesDiffer
    <3>5. SameLo(ts - Offset, pollRxTs + Turn + FLIGHT)
      BY <1>r, <2>1 DEF RespSays
    <3>6. SameLo(clock["R"] + (left'["I"] + FLIGHT), pollRxTs + Turn + 2 * FLIGHT + last)
      <4> DEFINE a == clock["I"] + left'["I"]
                 b == sent - ts
                 c == ts - Offset
                 d == pollRxTs + Turn + FLIGHT
                 x == clock["R"] + (left'["I"] + FLIGHT)
                 y == pollRxTs + Turn + 2 * FLIGHT + last
                 z == sent + last
      <4>1. /\ a \in Int /\ b \in Int /\ c \in Int /\ d \in Int /\ x \in Int /\ y \in Int
            /\ last \in Int /\ sent \in Int /\ (x - y) + (last - b) = (a - sent) + (c - d)
        BY <1>i, <2>3, <2>6, StsNumbers DEF Offset
      <4>2. SameLo(a, sent) /\ SameLo(b, last) /\ SameLo(c, d)
        BY <3>1, <3>2, <3>5
      <4> HIDE DEF a, b, c, d, x, y, sent
      <4>3. a + b \in Int /\ sent + last \in Int /\ SameLo(a + b, sent + last)
        BY <4>1, <4>2, SameLoSums
      <4>4. x - y = ((a + b) - (sent + last)) + (c - d)
        BY <4>1
      <4>5. SameLo(x, y)
        BY <4>1, <4>2, <4>3, <4>4, SameLoBalance
      <4> QED BY <4>5 DEF x, y
    <3> HIDE DEF sent, ts
    <3> QED BY <1>i, <2>3, <2>7, <3>1, <3>3, <3>4, <3>6 DEF FinalSays, ts
  <2>8. ComingFits'
    <3>1. ASSUME NEW m \in Coming'
          PROVE  /\ m.left = left'["I"] + FLIGHT /\ m.to = "R" /\ m.frame.kind = "final"
                 /\ m.frame.data = <<2, MsgTs(txTs["I"]), MsgTs(ts), MsgTs(sent)>>
      BY <1>f, <2>4, <2>5, <3>1 DEF Frame
    <3>2. left'["I"] + FLIGHT < Pause'
      <4>1. Pause' = RNG_DELAY + left'["I"]
        BY <2>4 DEF Pause
      <4>2. FLIGHT < RNG_DELAY
        BY StsNumbers DEF StsSwift
      <4> QED BY <2>6, <4>1, <4>2, StsNumbers
    <3>3. ASSUME NEW m \in Coming' PROVE FinalSays(m.frame.data, clock["R"] + m.left)'
      <4>1. PICK data : data = <<2, MsgTs(txTs["I"]), MsgTs(ts), MsgTs(sent)>>
        OBVIOUS
      <4>2. FinalSays(data, clock["R"] + (left'["I"] + FLIGHT))
        BY <2>7, <4>1
      <4>3. Turn' = Turn /\ clock' = clock /\ pollRxTs' = pollRxTs
        BY <1>1 DEF Turn
      <4>4. m.frame.data = data /\ m.left = left'["I"] + FLIGHT
        BY <3>1, <4>1
      <4> QED BY <4>2, <4>3, <4>4 DEF FinalSays
    <3> QED BY <3>1, <3>2, <3>3 DEF ComingFits
  <2>9. ~GotAPoll /\ ~GotAPoll' /\ ~GotAResp' /\ ~GotAReport' /\ ~Reporting'
    BY <1>1, <1>2, <1>r, <2>1, <2>4 DEF GotAResp, GotAReport, Reporting
  <2>10. Apart'
    <3>1. \A m \in Coming' : m.frame.kind = "final" /\ m = new
      BY <1>f, <2>4, <2>5 DEF Frame
    <3> QED BY <2>9, <3>1 DEF Apart
  <2>11. StsRoles'
    BY <1>t, <1>1, <1>2, <2>1, <2>4 DEF StsRoles, Stays
  <2>12. Sts!DistanceIsTrue'
    BY <1>t, <1>1, <2>4 DEF Sts!DistanceIsTrue
  <2> QED BY <1>2, <2>4, <2>8, <2>9, <2>10, <2>11, <2>12
          DEF StsExchange, PollFits, RespFits, ReportFits, KeptFits, ReportingFits
<1> QED BY <1>7, <1>8, <1>9, <1>10, <1>11, <1>12, <1>13 DEF Sts!Initiator

(* The responder's steps: a response leaves only if the host noticed the   *)
(* poll in time, and then nothing else is on its way.                      *)
LEMMA StsResponderActs ==
  ASSUME StsSwift, StsInv, StsTypes', Sts!Responder
  PROVE  StsExchange' /\ Sts!DistanceIsTrue'
<1>t. /\ Shape /\ StsPhases /\ StsTypes /\ Sts!DistanceIsTrue
      /\ StsRoles /\ Apart /\ ComingFits /\ PollFits /\ RespFits /\ FinalFits /\ ReportFits
      /\ KeptFits /\ SentFits /\ ReportingFits /\ "I" \in Node /\ "R" \in Node
  BY StsParts
<1>n. /\ pc \in [Node -> Points] /\ mode \in [Node -> Modes] /\ nap \in [Node -> Nat]
      /\ status \in [Node -> SUBSET Flags] /\ left \in [Node -> Nat]
      /\ txBuf \in [Node -> StsFrames] /\ rxBuf \in [Node -> StsFrames]
      /\ lag \in [Node -> 0 .. MaxLag] /\ sts \in [Node -> Int]
      /\ rxTs \in [Node -> Timestamps] /\ txTs \in [Node -> Timestamps]
      /\ clock \in [Node -> Timestamps]
  BY StsParts
<1> HIDE DEF StsFrames
<1> DEFINE Ends == \/ Sts!ResponseSentSs \/ Sts!ReportLate \/ Sts!ReportSent
                   \/ Sts!RecvFinal \/ Sts!ResponderFailed
<1> DEFINE D == POLL_RX_TO_RESP_TX_DLY
<1>1. Stays("I") /\ UNCHANGED <<clock, air, proto, txTs, rxTs, kept>>
  <2> USE <1>t, <1>n DEF Sts!Rest, Node, Stays
  <2>1. CASE Sts!Listen
    BY <2>1 DEF Sts!Listen, Sts!StsAt, Sts!EnableFresh, Sts!Goto
  <2>2. CASE Sts!RecvPoll
    BY <2>2 DEF Sts!RecvPoll, Sts!StsAt, Sts!StartTxAt, Sts!StartTx, Sts!Goto
  <2>3. CASE Sts!RecvPollLate
    BY <2>3 DEF Sts!RecvPollLate, Sts!FailTx, Sts!Sleep
  <2>4. CASE Sts!ResponseSentDs
    BY <2>4 DEF Sts!ResponseSentDs, Sts!ClearFlags, Sts!Goto
  <2>5. CASE Sts!ResponseSentNd
    BY <2>5 DEF Sts!ResponseSentNd, Sts!StartTxAt, Sts!StartTx, Sts!Goto
  <2>6. CASE Ends
    BY <2>6 DEF Sts!ResponseSentSs, Sts!ReportLate, Sts!ReportSent, Sts!RecvFinal,
                Sts!ResponderFailed, Sts!FailTx, Sts!ClearFlags, Sts!Sleep
  <2> QED BY <2>1, <2>2, <2>3, <2>4, <2>5, <2>6 DEF Sts!Responder
<1>2. /\ Sent("I")' = Sent("I") /\ Pause' = Pause /\ Offset' = Offset
      /\ GotAResp' = GotAResp /\ GotAReport' = GotAReport /\ pc'["I"] = pc["I"]
  BY <1>1 DEF Stays, Sent, Pause, Offset, GotAResp, GotAReport, HasIt
<1>i. /\ clock["R"] \in Int /\ clock["I"] \in Int /\ clock["R"] \in Timestamps
      /\ rxTs["R"] \in Timestamps /\ rxTs["R"] \in Int /\ pollRxTs \in Timestamps
      /\ pollRxTs \in Int /\ D \in Nat /\ Turn \in Int /\ Pause \in Nat /\ lag["R"] \in Nat
      /\ lag["R"] <= MaxLag /\ left'["R"] \in Nat /\ Offset \in Int /\ Sent("I") \in Int
  <2>1. left' \in [Node -> Nat]
    BY DEF StsTypes, LinkTypeOK
  <2> QED BY <1>t, <2>1, StsTimes, StsNumbers
<1>d. /\ D < TSMOD /\ 2 * D < TSMOD /\ 2 * D \in Nat /\ D \in Nat /\ QUANTUM <= D
      /\ lag["R"] + QUANTUM <= TSMOD \div 2
      /\ \A l \in Nat : l <= Reply + lag["R"] => l + QUANTUM <= TSMOD \div 2
  <2>1. Reply + MaxLag + QUANTUM <= TSMOD \div 2 /\ Reply = D + TX_ANT_DLY /\ QUANTUM <= D
    BY DEF StsSwift, Reply
  <2>2. TSMOD \div 2 \in Nat /\ 2 * (TSMOD \div 2) <= TSMOD
    BY StsNumbers
  <2> QED BY <1>i, <2>1, <2>2, StsNumbers
(* Steps that leave the transmitter off ...                                *)
<1>3. ASSUME mode'["R"] # "tx" PROVE Coming' \subseteq Coming
  <2>1. \A n \in Node \ {} : mode'[n] = "tx" =>
          mode[n] = "tx" /\ left'[n] = left[n] /\ txBuf'[n] = txBuf[n]
    BY <1>1, <1>3 DEF Node, Stays
  <2>2. Coming' \subseteq
          Coming \cup {[to |-> Peer(n), left |-> left'[n] + FLIGHT, frame |-> txBuf'[n]] : n \in {}}
    BY <1>1, <2>1, StsComing
  <2> QED BY <2>2
<1>4. ASSUME pollRxTs' = pollRxTs PROVE RespFits' /\ ReportFits' /\ KeptFits'
  <2>1. /\ UNCHANGED <<clock, proto, pollRxTs>> /\ kept' = kept /\ pc'["I"] = pc["I"]
        /\ status'["I"] = status["I"] /\ rxBuf'["I"] = rxBuf["I"] /\ rxTs'["I"] = rxTs["I"]
    BY <1>1, <1>4 DEF Stays
  <2> QED BY <1>t, <1>2, <2>1, StsInitiatorStays
<1>5. ASSUME pollRxTs' = pollRxTs, mode'["R"] # "tx", GotAPoll' => FALSE
      PROVE  Apart' /\ ComingFits'
  <2>1. Quiet
    <3>1. Pause' >= Pause
      BY <1>2, <1>i
    <3> QED BY <1>1, <1>2, <1>3, <1>5, <3>1 DEF Quiet
  <2>2. ComingFits'
    BY <1>t, <2>1, StsQuiet
  <2>3. Apart'
    BY <1>t, <1>1, <1>2, <1>3, <1>5, StsApart
  <2> QED BY <2>2, <2>3
(* ... and afterwards pause, or listen anew.                               *)
<1>6. ASSUME pc'["R"] \in {"sleep", "listen"}, GotAPoll' => FALSE
      PROVE  PollFits' /\ FinalFits' /\ SentFits' /\ ReportingFits'
  BY <1>6 DEF PollFits, FinalFits, GotAFinal, SentFits, ReportingFits, Reporting
<1>7. ASSUME pc'["R"] = "sleep", mode'["R"] # "tx", rxBuf'["R"] = rxBuf["R"],
             pollRxTs' = pollRxTs
      PROVE  StsExchange'
  <2>1. GotAPoll' => FALSE
    BY <1>7 DEF GotAPoll
  <2>2. StsRoles'
    BY <1>t, <1>1, <1>7 DEF StsRoles, Stays, Reporting
  <2> QED BY <1>4, <1>5, <1>6, <1>7, <2>1, <2>2 DEF StsExchange
<1>8. ASSUME ~Sts!RecvFinal PROVE Sts!DistanceIsTrue'
  <2>1. result' = result
    BY <1>8 DEF Sts!Responder, Sts!Listen, Sts!RecvPoll, Sts!RecvPollLate, Sts!ResponseSentDs,
                Sts!ResponseSentSs, Sts!ResponseSentNd, Sts!ReportLate, Sts!ReportSent,
                Sts!ResponderFailed
  <2> QED BY <1>t, <1>1, <2>1 DEF Sts!DistanceIsTrue
<1>w. Sts!Noticed("R") => /\ pc["R"] \in {"waitPoll", "waitRepTx"} => "TXFRS" \in status["R"]
  BY DEF Sts!Noticed, Sts!Awaited, Sts!TxPoints
<1>q. /\ pc["R"] \in {"waitPoll", "waitRepTx"} /\ "TXFRS" \in status["R"] => mode["R"] # "tx"
      /\ pc["R"] \in {"listen", "waitFinal"} => mode["R"] # "tx"
  BY <1>t DEF StsPhases, AskingPoll, Asking, Sending, Hearing
<1>9. CASE Ends /\ ~Sts!RecvFinal
  <2>1. mode["R"] # "tx"
    BY <1>9, <1>w, <1>q DEF Sts!ResponseSentSs, Sts!ReportLate, Sts!ReportSent,
                            Sts!ResponderFailed, Sts!Hearing
  <2>2. /\ pc'["R"] = "sleep" /\ mode'["R"] # "tx" /\ rxBuf'["R"] = rxBuf["R"]
        /\ pollRxTs' = pollRxTs
    BY <1>t, <1>n, <1>9, <2>1
       DEF Sts!ResponseSentSs, Sts!ReportLate, Sts!ReportSent, Sts!ResponderFailed,
           Sts!FailTx, Sts!ClearFlags, Sts!Sleep
  <2> QED BY <1>7, <1>8, <1>9, <2>2
<1>10. CASE Sts!Listen
  <2>1. /\ pc'["R"] = "listen" /\ mode'["R"] = "gap" /\ rxBuf'["R"].kind = "none"
        /\ pollRxTs' = pollRxTs /\ sts'["R"] = 0 /\ lag'["R"] = 0
    BY <1>t, <1>n, <1>10
       DEF Sts!Listen, Sts!StsAt, Sts!EnableFresh, Sts!Goto, Sts!NoFrame, Sts!Frame
  <2>2. GotAPoll' => FALSE
    BY <2>1 DEF GotAPoll, HasIt
  <2>3. StsRoles'
    BY <1>t, <1>1, <2>1 DEF StsRoles, Stays, Reporting
  <2>4. ~Sts!RecvFinal
    <3>1. pc["R"] = "sleep"
      BY <1>10 DEF Sts!Listen, Sts!Awake, Sts!Rested
    <3> QED BY <3>1 DEF Sts!RecvFinal, Sts!GotFinal, Sts!Hearing
  <2> QED BY <1>4, <1>5, <1>6, <1>8, <2>1, <2>2, <2>3, <2>4 DEF StsExchange
<1>g. Sts!GotPoll => GotAPoll /\ sts["R"] = 0 /\ pc["R"] = "listen"
  BY StsGot DEF GotAPoll
<1>h. Sts!GotFinal => GotAFinal /\ pc["R"] = "waitFinal"
  BY StsGot DEF GotAFinal, Sts!GotFinal, Sts!Hearing
<1>a. GotAPoll => /\ ~GotAResp' /\ ~GotAReport' /\ pc'["I"] # "waitReport"
                  /\ RespFits' /\ ReportFits' /\ KeptFits'
  BY <1>t, <1>2 DEF Apart, GotAReport, RespFits, ReportFits, KeptFits
<1>11. CASE Sts!RecvPollLate
  <2>1. GotAPoll /\ pc["R"] = "listen"
    BY <1>g, <1>11 DEF Sts!RecvPollLate
  <2>2. pc'["R"] = "sleep" /\ mode'["R"] # "tx" /\ rxBuf' = rxBuf /\ result' = result
    BY <1>t, <1>n, <1>11 DEF Sts!RecvPollLate, Sts!FailTx, Sts!Sleep
  <2>3. ~GotAPoll'
    BY <2>2 DEF GotAPoll
  <2>4. \A m \in Coming' : m \in Coming /\ m.frame.kind = "poll"
    BY <1>t, <1>3, <2>1, <2>2 DEF Apart
  <2>5. ComingFits'
    <3>1. ASSUME NEW m \in Coming'
          PROVE  /\ m.left < Pause' /\ m.frame.kind = "poll" /\ m.to = "R"
                 /\ OverBefore(m.left)' /\ PollArrives(clock["R"] + m.left)'
      <4>1. /\ m.left < Pause /\ m.frame.kind = "poll"
            /\ m.frame.kind \in IF m.to = "R" THEN {"poll", "final"} ELSE {"resp", "report"}
            /\ OverBefore(m.left) /\ PollArrives(clock["R"] + m.left)
        BY <1>t, <2>4 DEF ComingFits
      <4>2. m.to = "R"
        BY <4>1
      <4> QED BY <1>1, <1>2, <4>1, <4>2 DEF OverBefore, PollArrives
    <3> QED BY <3>1 DEF ComingFits
  <2>6. Apart'
    <3>1. GotAResp' => GotAResp
      BY <1>2
    <3> QED BY <1>t, <1>1, <1>2, <1>3, <2>2, <2>3, <3>1, StsApart
  <2>7. StsRoles'
    BY <1>t, <1>1, <2>2 DEF StsRoles, Stays, Reporting
  <2>8. Sts!DistanceIsTrue'
    BY <1>t, <1>1, <2>2 DEF Sts!DistanceIsTrue
  <2> QED BY <1>a, <1>6, <2>1, <2>2, <2>3, <2>5, <2>6, <2>7, <2>8 DEF StsExchange
<1>12. CASE Sts!ResponseSentDs
  <2>1. /\ pc["R"] = "waitPoll" /\ proto = "ds" /\ mode["R"] # "tx"
    BY <1>12, <1>w, <1>q DEF Sts!ResponseSentDs
  <2>2. /\ pc'["R"] = "waitFinal" /\ mode'["R"] = mode["R"] /\ rxBuf' = rxBuf /\ result' = result
        /\ pollRxTs' = pollRxTs /\ sts' = sts /\ status'["R"] \subseteq status["R"]
    BY <1>t, <1>n, <1>12 DEF Sts!ResponseSentDs, Sts!ClearFlags, Sts!Goto
  <2>3. GotAPoll' => FALSE
    BY <2>2 DEF GotAPoll
  <2>4. PollFits' /\ ReportingFits'
    BY <2>2, <2>3 DEF PollFits, ReportingFits, Reporting
  <2>5. Turn' = Turn /\ Sent("R")' = Sent("R")
    BY <1>1, <2>1, <2>2 DEF Turn, Sent
  <2>6. SentFits'
    BY <1>t, <2>1, <2>2, <2>5 DEF SentFits
  <2>7. FinalFits'
    <3>1. GotAFinal' => GotAFinal
      BY <1>1, <2>1, <2>2 DEF GotAFinal, HasIt
    <3>2. rxBuf'["R"] = rxBuf["R"] /\ rxTs'["R"] = rxTs["R"]
      BY <1>1, <2>2
    <3> QED BY <1>t, <2>2, <2>5, <3>1, <3>2 DEF FinalFits, FinalSays
  <2>8. StsRoles'
    BY <1>t, <1>1, <2>1, <2>2 DEF StsRoles, Stays, Reporting
  <2>9. Sts!DistanceIsTrue'
    BY <1>t, <1>1, <2>2 DEF Sts!DistanceIsTrue
  <2> QED BY <1>4, <1>5, <2>1, <2>2, <2>3, <2>4, <2>6, <2>7, <2>8, <2>9 DEF StsExchange
<1>13. CASE Sts!RecvFinal
  <2>1. GotAFinal /\ pc["R"] = "waitFinal" /\ proto = "ds" /\ mode["R"] # "tx"
    BY <1>13, <1>h, <1>q DEF Sts!RecvFinal, Sts!GotFinal
  <2>2. /\ pc'["R"] = "sleep" /\ mode'["R"] # "tx" /\ rxBuf'["R"] = rxBuf["R"]
        /\ pollRxTs' = pollRxTs
    BY <1>t, <1>n, <1>13, <2>1 DEF Sts!RecvFinal, Sts!ClearFlags, Sts!Sleep
  <2>3. StsExchange'
    BY <1>7, <2>2
  <2>4. PICK pollTx \in 0 .. LOMOD - 1, respRx \in 0 .. LOMOD - 1, finalTx \in 0 .. LOMOD - 1,
             last \in 0 .. Last :
          /\ rxBuf["R"].data = <<2, pollTx, respRx, finalTx>>
          /\ SameLo(respRx - pollTx, 2 * FLIGHT + Turn) /\ SameLo(finalTx - respRx, last)
          /\ SameLo(rxTs["R"], pollRxTs + Turn + 2 * FLIGHT + last)
    BY <1>t, <2>1 DEF FinalFits, FinalSays
  <2>5. SameLo(txTs["R"], pollRxTs + Turn)
    BY <1>t, <2>1 DEF SentFits, Sent
  <2>6. DsTof(pollTx, MsgTs(pollRxTs), MsgTs(txTs["R"]), respRx, finalTx, MsgTs(rxTs["R"])) = FLIGHT
    <3>1. txTs["R"] \in Int /\ rxTs["R"] \in Int
      BY <1>t, StsTimes
    <3> QED BY <1>t, <2>4, <2>5, <3>1, StsDoubleSided
  <2>7. Tail(rxBuf["R"].data) = <<pollTx, respRx, finalTx>>
    <3>1. pollTx \in Int /\ respRx \in Int /\ finalTx \in Int /\ 2 \in Int
      BY StsNumbers
    <3> QED BY <2>4, <3>1, TailIs
  <2>8. result' = <<FLIGHT>>
    <3> DEFINE Res(ts) == <<Sts!DsTof(ts[1], Sts!MsgTs(pollRxTs), Sts!MsgTs(txTs["R"]),
                                      ts[2], ts[3], Sts!MsgTs(rxTs["R"]))>>
    <3>1. \A a, b, c, d, e, f : Sts!DsTof(a, b, c, d, e, f) = DsTof(a, b, c, d, e, f)
      BY DEF Sts!DsTof, DsTof, Sts!Sub32, Sub32, Sts!TruncDiv, TruncDiv
    <3>2. \A ts : Sts!MsgTs(ts) = MsgTs(ts)
      BY DEF Sts!MsgTs, MsgTs
    <3>3. result' = Res(Tail(rxBuf["R"].data))
      BY <1>13 DEF Sts!RecvFinal
    <3>4. result' = Res(<<pollTx, respRx, finalTx>>)
      BY <2>7, <3>3
    <3>5. Res(<<pollTx, respRx, finalTx>>)
            = <<DsTof(pollTx, MsgTs(pollRxTs), MsgTs(txTs["R"]), respRx, finalTx, MsgTs(rxTs["R"]))>>
      BY <3>1, <3>2
    <3> QED BY <2>6, <3>4, <3>5
  <2> QED BY <1>1, <2>1, <2>3, <2>8 DEF Sts!DistanceIsTrue
<1> DEFINE new == [to |-> "I", left |-> left'["R"] + FLIGHT, frame |-> txBuf'["R"]]
<1>c. Coming' \subseteq Coming \cup {new}
  <2>1. \A n \in Node \ {"R"} : mode'[n] = "tx" =>
          mode[n] = "tx" /\ left'[n] = left[n] /\ txBuf'[n] = txBuf[n]
    BY <1>1 DEF Node, Stays
  <2>2. air' \subseteq air
    BY <1>1
  <2>3. Coming' \subseteq
          Coming \cup {[to |-> Peer(n), left |-> left'[n] + FLIGHT, frame |-> txBuf'[n]] : n \in {"R"}}
    BY <2>1, <2>2, StsComing
  <2> QED BY <2>3 DEF Peer
<1>f. new.to = "I" /\ new.left = left'["R"] + FLIGHT /\ new.frame = txBuf'["R"]
  OBVIOUS
<1> HIDE DEF new
<1>k. /\ \A time : Sts!TooLate("R", time) = TooLate("R", time)
      /\ \A time : Sts!TicksTo("R", time) = TicksTo("R", time)
      /\ \A ts, d : Sts!DelayedTxTime(ts, d) = DelayedTxTime(ts, d)
      /\ \A ts : Sts!ResponderTimes(ts) = <<MsgTs(ts), MsgTs(DelayedTxTs(ts, D))>>
  BY DEF Sts!TooLate, TooLate, Sts!TicksTo, TicksTo, Sts!DelayedTxTime, DelayedTxTime,
         Sts!ResponderTimes, Sts!DelayedTxTs, DelayedTxTs, Sts!MsgTs, MsgTs
<1>14. CASE Sts!RecvPoll
  <2> DEFINE ts == rxTs["R"]
             sent == DelayedTxTs(ts, D)
  <2>1. GotAPoll /\ pc["R"] = "listen" /\ sts["R"] = 0 /\ ~GotAResp
    BY <1>t, <1>g, <1>14 DEF Sts!RecvPoll, Apart
  <2>2. /\ pc'["R"] = "waitPoll" /\ mode'["R"] = "tx" /\ rxBuf' = rxBuf /\ result' = result
        /\ left'["R"] = TicksTo("R", DelayedTxTime(ts, D)) + TX_ANT_DLY
        /\ ~TooLate("R", DelayedTxTime(ts, D)) /\ pollRxTs' = ts
        /\ sts'["R"] = 2 /\ lag'["R"] = 0
        /\ txBuf'["R"] = Frame("resp", <<1>> \o Sts!ResponseData)
    BY <1>t, <1>n, <1>14, <1>k, <2>1
       DEF Sts!RecvPoll, Sts!ResponseTime, Sts!StsAt, Sts!StartTxAt, Sts!StartTx, Sts!Goto,
           Sts!Frame, Frame
  <2>3. sent \in Int /\ MsgTs(sent) \in Int /\ MsgTs(ts) \in Int /\ ts \in Int /\ ts \in Timestamps
    <3>1. sent \in Int
      BY <1>i, <1>d, DelayedTypes
    <3> QED BY <1>i, <3>1, TimeTypes, StsNumbers
  <2>4. /\ txBuf'["R"].kind = "resp" /\ Told' = <<MsgTs(ts), MsgTs(sent)>>
        /\ Turn' = sent - ts
        /\ proto = "ss" => txBuf'["R"].data = <<1, MsgTs(ts), MsgTs(sent)>>
    <3>1. proto = "ss" => Sts!ResponseData = <<MsgTs(ts), MsgTs(sent)>>
      BY <1>k DEF Sts!ResponseData
    <3>2. <<1>> \o <<MsgTs(ts), MsgTs(sent)>> = <<1, MsgTs(ts), MsgTs(sent)>>
      BY <2>3, PrefixTwo
    <3>3. Told' = <<MsgTs(ts), MsgTs(sent)>> /\ Turn' = sent - ts
      BY <2>2 DEF Told, Turn
    <3> HIDE DEF ts, sent
    <3>4. txBuf'["R"].kind = "resp" /\ txBuf'["R"].data = <<1>> \o Sts!ResponseData
      BY <2>2 DEF Frame
    <3> QED BY <3>1, <3>2, <3>3, <3>4
  <2>5. PICK r \in 0 .. QUANTUM - 1 :
          lag["R"] + r <= D /\ TicksTo("R", DelayedTxTime(ts, D)) = D - r - lag["R"]
    <3>1. clock["R"] = (ts + lag["R"]) % TSMOD
      BY <1>t, <2>1 DEF PollFits
    <3>2. PICK l \in Nat : l = lag["R"]
      BY <1>i
    <3>3. PICK t \in Timestamps : t = ts
      BY <1>i
    <3>4. clock["R"] = (t + l) % TSMOD /\ ~TooLate("R", DelayedTxTime(t, D))
          /\ l + QUANTUM <= TSMOD \div 2 /\ D < TSMOD /\ D \in Nat
      BY <1>d, <2>2, <3>1, <3>2, <3>3
    <3>5. \E r \in 0 .. QUANTUM - 1 :
            l + r <= D /\ TicksTo("R", DelayedTxTime(t, D)) = D - r - l
      BY <1>t, <3>4, DelayedSend
    <3> QED BY <3>2, <3>3, <3>5
  <2>6. /\ Coming = {} /\ OverBefore(0 - lag["R"]) /\ PollArrives(ts)
        /\ clock["R"] = (ts + lag["R"]) % TSMOD
    <3>1. Timely
      BY <1>i, <2>5, StsNumbers DEF Timely
    <3> QED BY <1>t, <2>1, <3>1 DEF Apart, PollFits
  <2>7. Coming' \subseteq {new} /\ new.frame.kind = "resp" /\ new.to = "I"
        /\ new.left = left'["R"] + FLIGHT /\ new.frame.data = txBuf'["R"].data
    BY <1>c, <1>f, <2>4, <2>6
  <2>8. SameLo(clock["R"] + left'["R"], sent)
    BY <1>t, <1>i, <2>2, SentAsPredicted
  <2>9. left'["R"] + FLIGHT < Pause' /\ lag["R"] + left'["R"] <= Reply
    <3>1. left'["R"] = (D - r - lag["R"]) + TX_ANT_DLY /\ r \in Nat
      BY <2>2, <2>5, StsNumbers
    <3>2. (0 - lag["R"]) + 2 * D + TX_ANT_DLY + FLIGHT < Pause
      BY <2>6 DEF OverBefore
    <3>3. D \in Nat /\ TX_ANT_DLY \in Nat /\ FLIGHT \in Nat /\ Reply = D + TX_ANT_DLY
      BY StsNumbers DEF Reply
    <3> QED BY <1>2, <1>i, <3>1, <3>2, <3>3
  <2>10. PollArrives(ts)'
    <3>1. PICK d \in Int : d = ts
      BY <2>3
    <3>2. PollArrives(d)
      BY <2>6, <3>1
    <3>3. rxTs'["R"] = d
      BY <1>1, <3>1
    <3> QED BY <1>2, <3>2, <3>3 DEF PollArrives
  <2>11. ComingFits'
    <3>1. ASSUME NEW data, data = txBuf'["R"].data, NEW m \in Nat, m = left'["R"] + FLIGHT
          PROVE  RespSays(data, clock["I"] + m)'
      <4>1. SameLo((clock["I"] + (left'["R"] + FLIGHT)) - Offset, ts + Turn' + FLIGHT)
        <5> DEFINE x == (clock["I"] + (left'["R"] + FLIGHT)) - Offset
                   y == ts + Turn' + FLIGHT
                   a == clock["R"] + left'["R"]
        <5>1. x \in Int /\ y \in Int /\ a \in Int /\ sent \in Int /\ x - y = a - sent
          BY <1>i, <2>3, <2>4, StsNumbers DEF Offset
        <5> HIDE DEF x, y, a, sent
        <5>2. SameLo(a, sent)
          BY <2>8 DEF a
        <5>3. SameLo(x, y)
          BY <5>1, <5>2, SameLoBalance
        <5> QED BY <5>3 DEF x, y
      <4>2. clock' = clock /\ Offset' = Offset /\ pollRxTs' = ts /\ proto' = proto
            /\ rxTs' = rxTs
        BY <1>1, <1>2, <2>2
      <4>3. PollArrives(pollRxTs)'
        BY <1>1, <2>2, <2>10 DEF PollArrives
      <4>4. proto' = "ss" => data = <<1, Told'[1], Told'[2]>>
        BY <2>4, <3>1, <4>2
      <4> HIDE DEF ts, sent
      <4>5. SameLo((clock'["I"] + m) - Offset', pollRxTs' + Turn' + FLIGHT)
        BY <3>1, <4>1, <4>2
      <4> QED BY <4>3, <4>4, <4>5 DEF RespSays
    <3>2. ASSUME NEW m \in Coming'
          PROVE  /\ m.left < Pause' /\ m.to = "I" /\ m.frame.kind = "resp"
                 /\ RespSays(m.frame.data, clock["I"] + m.left)'
      <4>1. m.left = left'["R"] + FLIGHT /\ m.to = "I" /\ m.frame.kind = "resp"
            /\ m.frame.data = txBuf'["R"].data
        BY <2>7
      <4>2. PICK data, l : data = txBuf'["R"].data /\ l = m.left
        OBVIOUS
      <4>3. l \in Nat
        BY <1>i, <4>1, <4>2, StsNumbers
      <4>4. RespSays(data, clock["I"] + l)'
        BY <3>1, <4>1, <4>2, <4>3
      <4> QED BY <2>9, <4>1, <4>2, <4>4
    <3> QED BY <3>2 DEF ComingFits
  <2>12. SentFits'
    <3>1. Sent("R")' = clock["R"] + left'["R"]
      BY <1>1, <2>2 DEF Sent
    <3>2. pollRxTs' + Turn' = sent
      <4>1. sent \in Int /\ ts \in Int /\ Turn' = sent - ts /\ pollRxTs' = ts
        BY <2>2, <2>3, <2>4
      <4> HIDE DEF sent, ts
      <4> QED BY <4>1
    <3> QED BY <2>8, <3>1, <3>2 DEF SentFits
  <2>13. ~GotAPoll' /\ PollFits' /\ FinalFits'
    <3>1. rxBuf'["R"].kind = "poll"
      BY <2>1, <2>2 DEF GotAPoll, HasIt
    <3> QED BY <2>2, <3>1 DEF GotAPoll, GotAFinal, HasIt, PollFits, FinalFits
  <2>14. ReportingFits'
    <3>1. PICK l \in Nat : l = lag["R"]
      BY <1>i
    <3>2. clock'["R"] = (pollRxTs' + l) % TSMOD
      BY <1>1, <2>2, <2>6, <3>1
    <3>3. l + left'["R"] <= Reply + lag'["R"]
      BY <1>i, <2>2, <2>9, <3>1, StsNumbers
    <3>4. OverBefore(0 - l)' /\ \A m \in Coming' : m.frame.kind # "poll"
      <4>1. OverBefore(0 - l)
        BY <2>6, <3>1
      <4> QED BY <1>2, <2>7, <4>1 DEF OverBefore
    <3> QED BY <2>2, <3>2, <3>3, <3>4 DEF ReportingFits
  <2>15. Apart'
    BY <1>2, <2>1, <2>7, <2>13 DEF Apart
  <2>16. StsRoles'
    BY <1>t, <1>1, <2>2 DEF StsRoles, Stays, Reporting
  <2>17. Sts!DistanceIsTrue'
    BY <1>t, <1>1, <2>2 DEF Sts!DistanceIsTrue
  <2> QED BY <1>a, <2>1, <2>11, <2>12, <2>13, <2>14, <2>15, <2>16, <2>17 DEF StsExchange
<1>15. CASE Sts!ResponseSentNd
  <2>1. Reporting /\ proto = "nd" /\ pc["R"] = "waitPoll" /\ mode["R"] # "tx"
    BY <1>15, <1>w, <1>q DEF Sts!ResponseSentNd, Reporting
  <2>2. /\ pc'["R"] = "waitRepTx" /\ mode'["R"] = "tx" /\ rxBuf' = rxBuf /\ result' = result
        /\ left'["R"] = TicksTo("R", DelayedTxTime(pollRxTs, 2 * D)) + TX_ANT_DLY
        /\ ~TooLate("R", DelayedTxTime(pollRxTs, 2 * D)) /\ pollRxTs' = pollRxTs
        /\ sts' = sts /\ txBuf'["R"] = Frame("report", Told)
    BY <1>t, <1>n, <1>15, <1>k, <2>1
       DEF Sts!ResponseSentNd, Sts!ReportTime, Sts!StartTxAt, Sts!StartTx, Sts!Goto,
           Sts!Frame, Frame, Told
  <2>3. PICK l \in Nat :
          /\ clock["R"] = (pollRxTs + l) % TSMOD /\ l <= Reply + lag["R"]
          /\ l <= 2 * D => OverBefore(0 - l) /\ \A m \in Coming : m.frame.kind # "poll"
    <3>1. PICK l \in Nat :
            /\ clock["R"] = (pollRxTs + l) % TSMOD
            /\ l + (IF mode["R"] = "tx" THEN left["R"] ELSE 0) <= Reply + lag["R"]
            /\ l <= 2 * D => OverBefore(0 - l) /\ \A m \in Coming : m.frame.kind # "poll"
      BY <1>t, <2>1 DEF ReportingFits
    <3>2. l <= Reply + lag["R"]
      BY <2>1, <3>1
    <3> QED BY <3>1, <3>2
  <2>4. PICK r \in 0 .. QUANTUM - 1 :
          l + r <= 2 * D /\ TicksTo("R", DelayedTxTime(pollRxTs, 2 * D)) = 2 * D - r - l
    <3>1. PICK d \in Nat : d = 2 * D /\ d < TSMOD
      BY <1>d
    <3>2. l + QUANTUM <= TSMOD \div 2
      BY <1>d, <2>3
    <3>3. ~TooLate("R", DelayedTxTime(pollRxTs, d)) /\ clock["R"] = (pollRxTs + l) % TSMOD
      BY <2>2, <2>3, <3>1
    <3>4. \E r \in 0 .. QUANTUM - 1 :
            l + r <= d /\ TicksTo("R", DelayedTxTime(pollRxTs, d)) = d - r - l
      BY <1>t, <1>i, <3>1, <3>2, <3>3, DelayedSend
    <3> QED BY <3>1, <3>4
  <2>5. OverBefore(0 - l) /\ \A m \in Coming : m.frame.kind # "poll"
    <3>1. l <= 2 * D
      BY <1>i, <2>4, StsNumbers
    <3> QED BY <2>3, <3>1
  <2>6. left'["R"] + FLIGHT < Pause'
    <3>1. left'["R"] = (2 * D - r - l) + TX_ANT_DLY /\ r \in Nat
      BY <2>2, <2>4, StsNumbers
    <3>2. (0 - l) + 2 * D + TX_ANT_DLY + FLIGHT < Pause
      BY <2>5 DEF OverBefore
    <3> QED BY <1>2, <1>i, <3>1, <3>2, StsNumbers
  <2>7. Turn' = Turn /\ Told' = Told /\ clock' = clock /\ proto' = proto
    BY <1>1, <2>2 DEF Turn, Told
  <2>8. \A m \in Coming' : m \in Coming \/ m = new
    BY <1>c
  <2>9. new.to = "I" /\ new.frame.kind = "report" /\ new.frame.data = Told'
        /\ new.left = left'["R"] + FLIGHT
    BY <1>f, <2>2, <2>7 DEF Frame
  <2>10. ComingFits'
    <3>1. ASSUME NEW m \in Coming
          PROVE  /\ m.left < Pause'
                 /\ m.frame.kind \in IF m.to = "R" THEN {"poll", "final"} ELSE {"resp", "report"}
                 /\ m.frame.kind = "poll"   => OverBefore(m.left)' /\ PollArrives(clock["R"] + m.left)'
                 /\ m.frame.kind = "resp"   => RespSays(m.frame.data, clock["I"] + m.left)'
                 /\ m.frame.kind = "final"  => FinalSays(m.frame.data, clock["R"] + m.left)'
                 /\ m.frame.kind = "report" => m.frame.data = Told'
      <4>1. /\ m.left < Pause
            /\ m.frame.kind \in IF m.to = "R" THEN {"poll", "final"} ELSE {"resp", "report"}
            /\ m.frame.kind # "poll"
            /\ m.frame.kind = "resp"   => RespSays(m.frame.data, clock["I"] + m.left)
            /\ m.frame.kind = "final"  => FinalSays(m.frame.data, clock["R"] + m.left)
            /\ m.frame.kind = "report" => m.frame.data = Told
        BY <1>t, <2>5 DEF ComingFits
      <4>2. m.frame.kind = "resp" => RespSays(m.frame.data, clock["I"] + m.left)'
        BY <1>2, <2>2, <2>7, <4>1 DEF RespSays, PollArrives
      <4>3. m.frame.kind = "final" => FinalSays(m.frame.data, clock["R"] + m.left)'
        BY <2>2, <2>7, <4>1 DEF FinalSays
      <4> QED BY <1>2, <2>7, <4>1, <4>2, <4>3
    <3>2. /\ new.left < Pause' /\ new.to = "I" /\ new.frame.kind = "report"
          /\ new.frame.data = Told'
      BY <2>6, <2>9
    <3>3. \A m \in Coming' : m \in Coming \/ (/\ m.left < Pause' /\ m.to = "I"
                                              /\ m.frame.kind = "report" /\ m.frame.data = Told')
      BY <2>8, <3>2
    <3> QED BY <3>1, <3>3 DEF ComingFits
  <2>11. ~GotAPoll' /\ PollFits' /\ FinalFits' /\ SentFits' /\ ReportingFits'
    BY <2>2 DEF GotAPoll, PollFits, FinalFits, GotAFinal, SentFits, ReportingFits, Reporting
  <2>12. Apart'
    <3>1. \A m \in Coming' : m.frame.kind # "poll"
      BY <2>5, <2>8, <2>9
    <3> QED BY <2>1, <2>7, <2>11, <3>1 DEF Apart
  <2>13. StsRoles'
    BY <1>t, <1>1, <2>1, <2>2 DEF StsRoles, Stays, Reporting
  <2>14. Sts!DistanceIsTrue'
    BY <1>t, <1>1, <2>2 DEF Sts!DistanceIsTrue
  <2> QED BY <1>4, <2>2, <2>10, <2>11, <2>12, <2>13, <2>14 DEF StsExchange
<1> QED BY <1>9, <1>10, <1>11, <1>12, <1>13, <1>14, <1>15 DEF Sts!Responder

(* What the chips and the air do: what was on its way arrives or is lost,  *)
(* and nothing else is received that a host takes for a frame with STS.    *)
LEMMA StsRadioActs ==
  ASSUME StsSwift, StsInv, StsTypes', Sts!Radio
  PROVE  StsExchange' /\ Sts!DistanceIsTrue'
<1>t. /\ Shape /\ StsPhases /\ StsTypes /\ Sts!DistanceIsTrue
      /\ StsRoles /\ Apart /\ ComingFits /\ PollFits /\ RespFits /\ FinalFits /\ ReportFits
      /\ KeptFits /\ SentFits /\ ReportingFits /\ "I" \in Node /\ "R" \in Node
  BY StsParts
<1>n. /\ mode \in [Node -> Modes] /\ status \in [Node -> SUBSET Flags]
      /\ left \in [Node -> Nat] /\ rxBuf \in [Node -> StsFrames] /\ txBuf \in [Node -> StsFrames]
      /\ rxTs \in [Node -> Timestamps] /\ txTs \in [Node -> Timestamps]
      /\ w4r \in [Node -> BOOLEAN] /\ Foreign \subseteq ForeignKinds
  BY StsParts, LinkAssumption
<1>r. /\ UNCHANGED <<pc, nap, lag, proto, sts, pollRxTs, kept, result>>
      /\ Hardware \/ Interference(Foreign)
  BY SameRadio DEF Sts!Radio, Sts!pollVars
<1> HIDE DEF StsFrames
<1>i. /\ clock["R"] \in Int /\ clock["I"] \in Int /\ clock["R"] \in Timestamps
      /\ Pause \in Nat /\ left["I"] \in Nat /\ left["R"] \in Nat /\ lag["R"] \in Nat
      /\ FLIGHT \in Nat /\ FLIGHT > 0 /\ RNG_DELAY \in Nat
  BY <1>t, StsTimes, StsNumbers
<1>d. Sts!DistanceIsTrue'
  BY <1>t, <1>r DEF Sts!DistanceIsTrue
<1>1. Timely' = Timely /\ Reporting' = Reporting
  BY <1>r DEF Timely, Reporting
(* What every step keeps.                                                  *)
<1>2. ASSUME Quiet, Sent("R")' = Sent("R"),
             mode'["R"] = "tx" => mode["R"] = "tx" /\ left'["R"] = left["R"]
      PROVE  ComingFits' /\ SentFits' /\ KeptFits' /\ ReportingFits'
  <2>1. Turn' = Turn /\ ComingFits' /\ \A t \in Int : OverBefore(t) => OverBefore(t)'
    BY <1>t, <1>2, StsQuiet
  <2>2. SentFits' /\ KeptFits'
    BY <1>t, <1>r, <1>2, <2>1 DEF SentFits, KeptFits
  <2>3. ReportingFits'
    <3> SUFFICES ASSUME Reporting PROVE ReportingFits'
      BY <1>1 DEF ReportingFits
    <3>1. PICK l \in Nat :
            /\ clock["R"] = (pollRxTs + l) % TSMOD
            /\ l + (IF mode["R"] = "tx" THEN left["R"] ELSE 0) <= Reply + lag["R"]
            /\ l <= 2 * POLL_RX_TO_RESP_TX_DLY =>
                 OverBefore(0 - l) /\ \A m \in Coming : m.frame.kind # "poll"
      BY <1>t DEF ReportingFits
    <3>2. l <= 2 * POLL_RX_TO_RESP_TX_DLY =>
            OverBefore(0 - l)' /\ \A m \in Coming' : m.frame.kind # "poll"
      BY <1>2, <2>1, <3>1 DEF Quiet
    <3>3. l + (IF mode'["R"] = "tx" THEN left'["R"] ELSE 0) <= Reply + lag["R"]
      BY <1>i, <1>2, <3>1, StsNumbers
    <3> QED BY <1>r, <1>2, <3>1, <3>2, <3>3 DEF ReportingFits, Quiet
  <2> QED BY <2>1, <2>2, <2>3
<1>3. ASSUME UNCHANGED <<clock, txTs, txBuf>>, air' \subseteq air,
             \A i \in Node : /\ mode'[i] = "tx" <=> mode[i] = "tx"
                             /\ mode[i] = "tx" => left'[i] = left[i]
      PROVE  /\ Quiet /\ Coming' \subseteq Coming
             /\ ComingFits' /\ SentFits' /\ KeptFits' /\ ReportingFits'
  <2>1. Coming' \subseteq Coming
    <3>1. \A i \in Node \ {} : mode'[i] = "tx" =>
            mode[i] = "tx" /\ left'[i] = left[i] /\ txBuf'[i] = txBuf[i]
      BY <1>3
    <3>2. Coming' \subseteq
            Coming \cup {[to |-> Peer(i), left |-> left'[i] + FLIGHT, frame |-> txBuf'[i]] : i \in {}}
      BY <1>3, <3>1, StsComing
    <3> QED BY <3>2
  <2>2. Sent("I")' = Sent("I") /\ Sent("R")' = Sent("R")
    BY <1>t, <1>3 DEF Sent
  <2>3. Pause' >= Pause
    <3>1. Pause' = Pause
      BY <1>t, <1>r, <1>3 DEF Pause
    <3> QED BY <1>i, <3>1
  <2>4. Quiet
    BY <1>r, <1>3, <2>1, <2>2, <2>3 DEF Quiet
  <2> QED BY <1>t, <1>2, <1>3, <2>1, <2>2, <2>4
(* The initiator's chip does something, and the responder's.               *)
<1>4. ASSUME Stays("R"), Quiet
      PROVE  GotAPoll' = GotAPoll /\ PollFits' /\ FinalFits'
  <2>1. UNCHANGED <<clock, proto, pollRxTs>>
    BY <1>4 DEF Quiet
  <2>2. FinalFits => FinalFits'
    BY <1>t, <1>4, <2>1, StsResponderStays
  <2>3. GotAPoll' = GotAPoll
    BY <1>t, <1>4, <2>1, StsResponderStays
  <2>4. PollFits => PollFits'
    BY <1>t, <1>4, StsResponderQuiet
  <2> QED BY <1>t, <2>2, <2>3, <2>4
<1>5. ASSUME Stays("I"), Quiet
      PROVE  GotAResp' = GotAResp /\ RespFits' /\ ReportFits'
  <2>1. /\ UNCHANGED <<clock, proto, pollRxTs>> /\ Sent("I")' = Sent("I") /\ pc'["I"] = pc["I"]
        /\ status'["I"] = status["I"] /\ rxBuf'["I"] = rxBuf["I"] /\ rxTs'["I"] = rxTs["I"]
        /\ kept' = kept
    BY <1>r, <1>5 DEF Quiet, Stays
  <2>2. GotAResp' = GotAResp
    BY <1>t, <2>1, StsInitiatorStays
  <2>3. RespFits => RespFits'
    BY <1>t, <2>1, StsInitiatorStays
  <2>4. ReportFits => ReportFits'
    BY <1>t, <2>1, StsInitiatorStays
  <2> QED BY <1>t, <2>2, <2>3, <2>4
(* A reception ends, as a good one of a frame that was on its way or of    *)
(* one of another network.                                                 *)
<1>e. ASSUME NEW n \in Node, NEW flag, EndRx(n, flag), mode[n] = "rx", air' \subseteq air,
             \A i \in Node \ {n} : rxTs'[i] = rxTs[i] /\ rxBuf'[i] = rxBuf[i],
             \/ rxBuf'[n] = rxBuf[n] /\ flag # "RXFCG"
             \/ rxBuf'[n].kind \in ForeignKinds
             \/ /\ rxTs'[n] = clock[n]
                /\ \E m \in air : /\ m.to = n /\ m.left = 0 /\ m.frame = rxBuf'[n]
                                  /\ air' = air \ {m}
      PROVE  StsExchange'
  <2>1. /\ UNCHANGED <<clock, txTs, txBuf>>
        /\ mode'[n] = "idle" /\ left'[n] = 0 /\ status'[n] = status[n] \cup {flag}
        /\ \A i \in Node \ {n} : mode'[i] = mode[i] /\ left'[i] = left[i] /\ status'[i] = status[i]
    BY <1>n, <1>e DEF EndRx
  <2>2. /\ Quiet /\ Coming' \subseteq Coming
        /\ ComingFits' /\ SentFits' /\ KeptFits' /\ ReportingFits'
    <3>1. \A i \in Node : /\ mode'[i] = "tx" <=> mode[i] = "tx"
                          /\ mode[i] = "tx" => left'[i] = left[i]
      BY <1>e, <2>1
    <3> QED BY <1>3, <1>e, <2>1, <3>1
  <2>3. "RXFCG" \notin status[n]
    BY <1>t, <1>e DEF Node, StsPhases, AskingPoll, Asking, Hearing, Sending, RxWait, NoRxFlag,
                      RxMask, Asleep, Off
  <2>4. ASSUME HasIt(n, "poll")' \/ HasIt(n, "resp")' \/ HasIt(n, "final")' \/ HasIt(n, "report")'
        PROVE  /\ rxTs'[n] = clock[n]
               /\ \E m \in Coming : /\ m.to = n /\ m.left = 0 /\ m.frame = rxBuf'[n]
                                    /\ m \notin Coming'
    <3>1. flag = "RXFCG"
      BY <2>1, <2>3, <2>4 DEF HasIt
    <3>2. rxBuf'[n].kind \notin ForeignKinds
      BY <2>4 DEF HasIt, ForeignKinds
    <3>3. rxTs'[n] = clock[n]
      BY <1>e, <3>1, <3>2
    <3>4. PICK m \in air : m.to = n /\ m.left = 0 /\ m.frame = rxBuf'[n] /\ air' = air \ {m}
      BY <1>e, <3>1, <3>2
    <3>5. m \in Coming
      BY DEF Coming
    <3>6. m \notin Coming'
      <4> SUFFICES ASSUME m \in Coming' PROVE FALSE
        OBVIOUS
      <4>1. PICK i \in Node :
              m = [to |-> Peer(i), left |-> left'[i] + FLIGHT, frame |-> txBuf'[i]]
        BY <3>4 DEF Coming
      <4>2. left'[i] \in Nat
        BY DEF StsTypes, LinkTypeOK
      <4>3. left'[i] + FLIGHT = 0
        BY <3>4, <4>1
      <4> QED BY <1>i, <4>2, <4>3
    <3> QED BY <3>3, <3>4, <3>5, <3>6
  <2>5. CASE n = "I"
    <3>1. Stays("R")
      BY <1>t, <1>r, <1>e, <2>1, <2>5 DEF Stays, Node
    <3>2. GotAPoll' = GotAPoll /\ PollFits' /\ FinalFits'
      BY <1>4, <2>2, <3>1
    <3>3. ASSUME GotAResp'
          PROVE  /\ rxTs'["I"] = clock["I"]
                 /\ \E m \in Coming : /\ m.left = 0 /\ m.frame = rxBuf'["I"] /\ m \notin Coming'
                                      /\ m.frame.kind = "resp"
      <4>1. HasIt("I", "resp")'
        BY <3>3 DEF GotAResp
      <4> QED BY <2>4, <2>5, <4>1 DEF HasIt
    <3>4. RespFits'
      <4> SUFFICES ASSUME GotAResp' PROVE RespSays(rxBuf["I"].data, rxTs["I"])'
        BY DEF RespFits
      <4>1. PICK m \in Coming : m.left = 0 /\ m.frame = rxBuf'["I"] /\ m.frame.kind = "resp"
        BY <3>3
      <4>2. PICK d \in Int : d = clock["I"]
        BY <1>i
      <4>3. clock["I"] + m.left = d
        BY <1>i, <4>1, <4>2
      <4>4. PICK data : data = m.frame.data
        OBVIOUS
      <4>5. RespSays(data, d)
        BY <1>t, <4>1, <4>3, <4>4 DEF ComingFits
      <4>6. RespSays(data, d)'
        BY <1>t, <2>2, <4>5, StsQuiet
      <4>7. rxBuf'["I"].data = data /\ rxTs'["I"] = d
        BY <3>3, <4>1, <4>2, <4>4
      <4> QED BY <4>6, <4>7 DEF RespSays
    <3>5. ReportFits'
      <4> SUFFICES ASSUME GotAReport' PROVE rxBuf'["I"].data = Told'
        BY DEF ReportFits
      <4>1. HasIt("I", "report")'
        BY DEF GotAReport
      <4>2. PICK m \in Coming : m.frame = rxBuf'["I"] /\ m.frame.kind = "report"
        BY <2>4, <2>5, <4>1 DEF HasIt
      <4>3. m.frame.data = Told
        BY <1>t, <4>2 DEF ComingFits
      <4>4. Told' = Told
        BY <1>t, <2>2, StsQuiet
      <4> QED BY <4>2, <4>3, <4>4
    <3>6. Apart'
      <4>1. pc'["I"] = pc["I"] /\ proto' = proto
        BY <1>r
      <4>2. CASE GotAResp'
        <5>1. PICK m \in Coming : m \notin Coming' /\ m.frame.kind = "resp"
          BY <3>3, <4>2
        <5>2. ~GotAPoll /\ ~GotAPoll'
          BY <1>t, <3>2, <5>1 DEF Apart
        <5>3. \A o \in Coming' : o \in Coming /\ o # m
          BY <2>2, <5>1
        <5>4. \A o \in Coming' : proto = "nd" /\ o.frame.kind # "poll"
          BY <1>t, <5>3 DEF Apart
        <5> QED BY <1>t, <4>1, <5>2, <5>4 DEF Apart
      <4>3. CASE ~GotAResp'
        <5>1. GotAResp' => GotAResp
          BY <4>3
        <5> QED BY <1>t, <1>1, <2>2, <3>2, <4>1, <5>1, StsApart
      <4> QED BY <4>2, <4>3
    <3>7. StsRoles'
      <4>1. rxBuf'["I"].kind \notin {"poll", "final"}
        <5>1. CASE rxBuf'["I"] = rxBuf["I"]
          BY <1>t, <5>1 DEF StsRoles
        <5>2. CASE rxBuf'["I"].kind \in ForeignKinds
          BY <5>2 DEF ForeignKinds
        <5>3. ASSUME NEW m \in air, m.to = "I", m.frame = rxBuf'["I"]
              PROVE  rxBuf'["I"].kind \notin {"poll", "final"}
          <6>1. m \in Coming
            BY DEF Coming
          <6>2. m.frame.kind \in {"resp", "report"}
            BY <1>t, <5>3, <6>1 DEF ComingFits
          <6> QED BY <5>3, <6>2
        <5> QED BY <1>e, <2>5, <5>1, <5>2, <5>3
      <4> QED BY <1>t, <1>r, <3>1, <4>1 DEF StsRoles, Stays, Reporting
    <3> QED BY <2>2, <3>2, <3>4, <3>5, <3>6, <3>7 DEF StsExchange
  <2>6. CASE n = "R"
    <3>1. Stays("I")
      BY <1>t, <1>r, <1>e, <2>1, <2>6 DEF Stays, Node
    <3>2. GotAResp' = GotAResp /\ RespFits' /\ ReportFits'
      BY <1>5, <2>2, <3>1
    <3>3. ASSUME GotAPoll'
          PROVE  /\ rxTs'["R"] = clock["R"] /\ lag["R"] = 0
                 /\ \E m \in Coming : /\ m.left = 0 /\ m.frame = rxBuf'["R"] /\ m \notin Coming'
                                      /\ m.frame.kind = "poll"
      <4>1. HasIt("R", "poll")' /\ pc["R"] = "listen"
        BY <1>r, <3>3 DEF GotAPoll
      <4>2. lag["R"] = 0
        BY <1>t, <1>e, <2>6, <4>1 DEF StsRoles
      <4> QED BY <2>4, <2>6, <4>1, <4>2 DEF HasIt
    <3>4. PollFits'
      <4> SUFFICES ASSUME GotAPoll' PROVE PollFits'
        BY DEF PollFits
      <4>1. PICK m \in Coming : m.left = 0 /\ m.frame.kind = "poll"
        BY <3>3
      <4>2. PICK d \in Int : d = clock["R"] /\ d \in Timestamps
        BY <1>i
      <4>3. clock["R"] + m.left = d
        BY <1>i, <4>1, <4>2
      <4>4. OverBefore(0) /\ PollArrives(d)
        BY <1>t, <4>1, <4>3 DEF ComingFits
      <4>5. OverBefore(0)' /\ PollArrives(d)'
        BY <1>t, <2>2, <4>4, StsQuiet
      <4>6. clock'["R"] = d /\ rxTs'["R"] = d /\ lag'["R"] = 0 /\ 0 - 0 = 0
        BY <1>r, <2>1, <3>3, <4>2
      <4>7. d = (d + 0) % TSMOD
        BY <4>2, StsNumbers DEF Timestamps
      <4>8. /\ clock'["R"] = (rxTs'["R"] + lag'["R"]) % TSMOD
            /\ 0 - lag'["R"] = 0
        BY <4>6, <4>7
      <4>9. OverBefore(0 - lag["R"])' /\ PollArrives(rxTs["R"])'
        BY <4>5, <4>6, <4>8 DEF OverBefore, PollArrives
      <4> QED BY <4>8, <4>9 DEF PollFits
    <3>5. FinalFits'
      <4> SUFFICES ASSUME GotAFinal' PROVE FinalSays(rxBuf["R"].data, rxTs["R"])'
        BY DEF FinalFits
      <4>0. HasIt("R", "final")'
        BY DEF GotAFinal
      <4>1. PICK m \in Coming : m.left = 0 /\ m.frame = rxBuf'["R"] /\ m.frame.kind = "final"
                                /\ rxTs'["R"] = clock["R"]
        BY <2>4, <2>6, <4>0 DEF HasIt
      <4>2. PICK d \in Int : d = clock["R"]
        BY <1>i
      <4>3. clock["R"] + m.left = d
        BY <1>i, <4>1, <4>2
      <4>4. PICK data : data = m.frame.data
        OBVIOUS
      <4>5. FinalSays(data, d)
        BY <1>t, <4>1, <4>3, <4>4 DEF ComingFits
      <4>6. FinalSays(data, d)'
        BY <1>t, <2>2, <4>5, StsQuiet
      <4>7. rxBuf'["R"].data = data /\ rxTs'["R"] = d
        BY <4>1, <4>2, <4>4
      <4> QED BY <4>6, <4>7 DEF FinalSays
    <3>6. Apart'
      <4>1. pc'["I"] = pc["I"] /\ proto' = proto
        BY <1>r
      <4>2. CASE GotAPoll'
        <5>1. PICK m \in Coming : m \notin Coming' /\ m.frame.kind = "poll"
          BY <3>3, <4>2
        <5>2. ~GotAResp' /\ pc["I"] # "waitReport"
          BY <1>t, <3>2, <5>1 DEF Apart
        <5>3. \A o \in Coming' : o \in Coming /\ o # m
          BY <2>2, <5>1
        <5>4. Coming' = {}
          BY <1>t, <5>1, <5>3 DEF Apart
        <5> QED BY <4>1, <5>2, <5>4 DEF Apart
      <4>3. CASE ~GotAPoll'
        <5>1. (GotAPoll' => GotAPoll) /\ (GotAPoll' /\ Timely' => Timely)
          BY <4>3
        <5>2. GotAResp' => GotAResp
          BY <3>2
        <5> QED BY <1>t, <1>1, <2>2, <4>1, <5>1, <5>2, StsApart
      <4> QED BY <4>2, <4>3
    <3>7. StsRoles'
      <4>1. rxBuf'["R"].kind \notin {"resp", "report"}
        <5>1. CASE rxBuf'["R"] = rxBuf["R"]
          BY <1>t, <5>1 DEF StsRoles
        <5>2. CASE rxBuf'["R"].kind \in ForeignKinds
          BY <5>2 DEF ForeignKinds
        <5>3. ASSUME NEW m \in air, m.to = "R", m.frame = rxBuf'["R"]
              PROVE  rxBuf'["R"].kind \notin {"resp", "report"}
          <6>1. m \in Coming
            BY DEF Coming
          <6>2. m.frame.kind \in {"poll", "final"}
            BY <1>t, <5>3, <6>1 DEF ComingFits
          <6> QED BY <5>3, <6>2
        <5> QED BY <1>e, <2>6, <5>1, <5>2, <5>3
      <4>2. mode'["R"] = "idle"
        BY <2>1, <2>6
      <4> QED BY <1>t, <1>r, <3>1, <4>1, <4>2 DEF StsRoles, Stays, Reporting
    <3> QED BY <2>2, <3>2, <3>4, <3>5, <3>6, <3>7 DEF StsExchange
  <2> QED BY <2>5, <2>6 DEF Node
(* A frame leaves.                                                         *)
<1>6. ASSUME NEW n \in Node, Transmit(n) PROVE StsExchange'
  <2>1. /\ UNCHANGED <<clock, rxTs, rxBuf>> /\ mode[n] = "tx" /\ left[n] = 0
        /\ mode'[n] # "tx" /\ txTs'[n] = clock[n] /\ status'[n] = status[n] \cup {"TXFRS"}
        /\ air' = air \cup {[to |-> Peer(n), left |-> FLIGHT, frame |-> txBuf[n]]}
        /\ \A i \in Node \ {n} : /\ mode'[i] = mode[i] /\ left'[i] = left[i]
                                 /\ status'[i] = status[i] /\ txTs'[i] = txTs[i]
                                 /\ txBuf'[i] = txBuf[i]
    BY <1>n, <1>6 DEF Transmit
  <2>2. Coming' \subseteq Coming
    <3> DEFINE sent == [to |-> Peer(n), left |-> FLIGHT, frame |-> txBuf[n]]
    <3>1. left[n] + FLIGHT = FLIGHT
      BY <1>i, <2>1
    <3>2. sent \in Coming
      BY <2>1, <3>1 DEF Coming
    <3> HIDE DEF sent
    <3>3. ASSUME NEW m \in Coming' PROVE m \in Coming
      <4>1. CASE m \in air'
        <5>1. m \in air \/ m = sent
          BY <2>1, <4>1 DEF sent
        <5> QED BY <3>2, <5>1 DEF Coming
      <4>2. CASE m \notin air'
        <5>1. PICK i \in Node : mode'[i] = "tx"
                /\ m = [to |-> Peer(i), left |-> left'[i] + FLIGHT, frame |-> txBuf'[i]]
          BY <4>2 DEF Coming
        <5>2. i # n /\ mode[i] = "tx"
                /\ m = [to |-> Peer(i), left |-> left[i] + FLIGHT, frame |-> txBuf[i]]
          BY <2>1, <5>1
        <5> QED BY <5>2 DEF Coming
      <4> QED BY <4>1, <4>2
    <3> QED BY <3>3
  <2>3. Sent("I")' = Sent("I") /\ Sent("R")' = Sent("R")
    <3>1. \A i \in Node : clock[i] \in Int /\ clock[i] + 0 = clock[i]
      BY <1>i DEF Node
    <3> QED BY <1>t, <2>1, <3>1 DEF Sent
  <2>4. Pause' >= Pause
    <3>1. Pause' = Pause
      <4>1. mode["I"] = "tx" => pc["I"] # "sleep"
        BY <1>t DEF StsPhases, Asleep
      <4>2. RNG_DELAY + 0 = RNG_DELAY
        BY <1>i
      <4> QED BY <1>t, <1>r, <2>1, <4>1, <4>2 DEF Pause
    <3> QED BY <1>i, <3>1
  <2>5. Quiet
    BY <1>r, <2>1, <2>2, <2>3, <2>4 DEF Quiet
  <2>6. ComingFits' /\ SentFits' /\ KeptFits' /\ ReportingFits'
    <3>1. mode'["R"] = "tx" => mode["R"] = "tx" /\ left'["R"] = left["R"]
      BY <1>t, <2>1
    <3> QED BY <1>2, <2>3, <2>5, <3>1
  <2>7. \A i \in Node : \A k : HasIt(i, k)' = HasIt(i, k)
    BY <2>1 DEF HasIt
  <2>8. /\ GotAPoll' = GotAPoll /\ GotAResp' = GotAResp /\ GotAFinal' = GotAFinal
        /\ GotAReport' = GotAReport
    BY <1>t, <1>r, <2>7 DEF GotAPoll, GotAResp, GotAFinal, GotAReport
  <2>9. Apart'
    BY <1>t, <1>r, <1>1, <2>2, <2>8, StsApart
  <2>10. StsRoles'
    BY <1>t, <1>r, <1>1, <2>1 DEF StsRoles
  <2>11. RespFits' /\ ReportFits'
    <3>1. /\ UNCHANGED <<clock, proto, pollRxTs>> /\ Sent("I")' = Sent("I")
          /\ rxBuf' = rxBuf /\ rxTs' = rxTs
      BY <1>r, <2>1, <2>3
    <3>2. Told' = Told /\ Turn' = Turn /\ Offset' = Offset
      BY <3>1 DEF Told, Turn, Offset
    <3> QED BY <1>t, <2>8, <3>1, <3>2 DEF RespFits, ReportFits, RespSays, PollArrives
  <2>12. PollFits' /\ FinalFits'
    <3>1. /\ UNCHANGED <<clock, proto, pollRxTs, lag>> /\ rxBuf' = rxBuf /\ rxTs' = rxTs
      BY <1>r, <2>1
    <3>2. Turn' = Turn /\ Offset' = Offset
      BY <3>1 DEF Turn, Offset
    <3>3. FinalFits'
      BY <1>t, <2>8, <3>1, <3>2 DEF FinalFits, FinalSays
    <3>4. OverBefore(0 - lag["R"]) => OverBefore(0 - lag["R"])'
      <4>1. PICK t \in Int : t = 0 - lag["R"]
        BY <1>i
      <4>2. OverBefore(t) => OverBefore(t)'
        BY <1>t, <2>5, StsQuiet
      <4> QED BY <3>1, <4>1, <4>2 DEF OverBefore
    <3> QED BY <1>t, <1>1, <2>3, <2>8, <3>1, <3>2, <3>3, <3>4 DEF PollFits, PollArrives
  <2> QED BY <2>6, <2>9, <2>10, <2>11, <2>12 DEF StsExchange
<1>7. ASSUME NEW n \in Node, OpenRx(n) PROVE StsExchange'
  <2>1. /\ UNCHANGED <<clock, txTs, rxTs, txBuf, status, air>>
        /\ mode[n] = "gap" /\ mode'[n] = "rx" /\ rxBuf'[n].kind = "none"
        /\ \A i \in Node \ {n} : mode'[i] = mode[i] /\ left'[i] = left[i] /\ rxBuf'[i] = rxBuf[i]
    BY <1>n, <1>7 DEF OpenRx, NoFrame, Frame
  <2>2. /\ Quiet /\ Coming' \subseteq Coming
        /\ ComingFits' /\ SentFits' /\ KeptFits' /\ ReportingFits'
    <3>1. \A i \in Node : /\ mode'[i] = "tx" <=> mode[i] = "tx"
                          /\ mode[i] = "tx" => left'[i] = left[i]
      BY <2>1
    <3> QED BY <1>3, <2>1, <3>1
  <2>3. CASE n = "I"
    <3>1. Stays("R")
      BY <1>t, <1>r, <2>1, <2>3 DEF Stays, Node
    <3>2. GotAPoll' = GotAPoll /\ PollFits' /\ FinalFits'
      BY <1>4, <2>2, <3>1
    <3>3. ~GotAResp' /\ ~GotAReport'
      BY <2>1, <2>3 DEF GotAResp, GotAReport, HasIt
    <3>4. Apart'
      BY <1>t, <1>1, <1>r, <2>2, <3>2, <3>3, StsApart
    <3>5. StsRoles'
      BY <1>t, <1>r, <2>1, <2>3, <3>1 DEF StsRoles, Stays, Reporting
    <3> QED BY <2>2, <3>2, <3>3, <3>4, <3>5 DEF StsExchange, RespFits, ReportFits
  <2>4. CASE n = "R"
    <3>1. Stays("I")
      BY <1>t, <1>r, <2>1, <2>4 DEF Stays, Node
    <3>2. GotAResp' = GotAResp /\ RespFits' /\ ReportFits'
      BY <1>5, <2>2, <3>1
    <3>3. ~GotAPoll' /\ ~GotAFinal'
      BY <2>1, <2>4 DEF GotAPoll, GotAFinal, HasIt
    <3>4. Apart'
      BY <1>t, <1>1, <1>r, <2>2, <3>2, <3>3, StsApart
    <3>5. StsRoles'
      BY <1>t, <1>r, <2>1, <2>4, <3>1 DEF StsRoles, Stays, Reporting
    <3> QED BY <2>2, <3>2, <3>3, <3>4, <3>5 DEF StsExchange, PollFits, FinalFits
  <2> QED BY <2>3, <2>4 DEF Node
<1>8. ASSUME NEW n \in Node, RxTimeout(n) PROVE StsExchange'
  BY <1>e, <1>8 DEF RxTimeout
<1>9. ASSUME NEW m \in air, Receive(m) PROVE StsExchange'
  <2>1. /\ m.to \in Node /\ m.left = 0 /\ mode[m.to] = "rx" /\ EndRx(m.to, "RXFCG")
        /\ air' \subseteq air /\ air' = air \ {m} /\ rxTs'[m.to] = clock[m.to]
        /\ rxBuf'[m.to] = m.frame
        /\ \A i \in Node \ {m.to} : rxTs'[i] = rxTs[i] /\ rxBuf'[i] = rxBuf[i]
    BY <1>t, <1>n, <1>9 DEF Receive, Shape
  <2> QED BY <1>e, <2>1
<1>10. ASSUME NEW m \in air, Miss(m) PROVE StsExchange'
  <2>1. UNCHANGED <<clock, mode, left, status, txTs, rxTs, txBuf, rxBuf>> /\ air' \subseteq air
    BY <1>10 DEF Miss, chipVars
  <2>2. /\ Quiet /\ Coming' \subseteq Coming
        /\ ComingFits' /\ SentFits' /\ KeptFits' /\ ReportingFits'
    BY <1>3, <2>1
  <2>3. Stays("I") /\ Stays("R")
    BY <1>r, <2>1 DEF Stays
  <2>4. GotAPoll' = GotAPoll /\ PollFits' /\ FinalFits'
    BY <1>4, <2>2, <2>3
  <2>5. GotAResp' = GotAResp /\ RespFits' /\ ReportFits'
    BY <1>5, <2>2, <2>3
  <2>6. Apart'
    BY <1>t, <1>1, <1>r, <2>2, <2>4, <2>5, StsApart
  <2>7. StsRoles'
    BY <1>t, <1>r, <2>1 DEF StsRoles, Reporting
  <2> QED BY <2>2, <2>4, <2>5, <2>6, <2>7 DEF StsExchange
<1>11. ASSUME NEW m \in air, Corrupt(m) PROVE StsExchange'
  <2>1. /\ m.to \in Node /\ mode[m.to] = "rx" /\ EndRx(m.to, "RXERR")
        /\ air' \subseteq air /\ UNCHANGED <<rxTs, rxBuf>>
    BY <1>t, <1>11 DEF Corrupt, Shape
  <2> QED BY <1>e, <2>1
<1>12. ASSUME NEW n \in Node, NEW k \in Foreign, Interfere(n, k) PROVE StsExchange'
  <2>1. CASE k = "bad"
    BY <1>e, <1>12, <2>1 DEF Interfere
  <2>2. CASE k # "bad"
    <3>1. /\ mode[n] = "rx" /\ EndRx(n, "RXFCG") /\ air' \subseteq air
          /\ rxBuf'[n].kind \in ForeignKinds
          /\ \A i \in Node \ {n} : rxTs'[i] = rxTs[i] /\ rxBuf'[i] = rxBuf[i]
      BY <1>n, <1>12, <2>2 DEF Interfere, Frame
    <3> QED BY <1>e, <3>1
  <2> QED BY <2>1, <2>2
<1> QED
  BY <1>d, <1>r, <1>6, <1>7, <1>8, <1>9, <1>10, <1>11, <1>12 DEF Hardware, Interference

(* A tick brings everything nearer and nothing out of its place.           *)
LEMMA StsTickActs ==
  ASSUME StsSwift, StsInv, StsTypes', Sts!Tick
  PROVE  StsExchange' /\ Sts!DistanceIsTrue'
<1>t. /\ Shape /\ StsPhases /\ StsTypes /\ Sts!DistanceIsTrue
      /\ StsRoles /\ Apart /\ ComingFits /\ PollFits /\ RespFits /\ FinalFits /\ ReportFits
      /\ KeptFits /\ SentFits /\ ReportingFits /\ "I" \in Node /\ "R" \in Node
  BY StsParts
<1> HIDE DEF StsFrames
<1> DEFINE due == {n \in Node : Sts!HostDue(n)}
<1>r. /\ UNCHANGED <<pc, proto, sts, pollRxTs, kept, result>>
      /\ UNCHANGED <<mode, status, txTs, rxTs, txBuf, rxBuf>>
      /\ \A n \in due : lag[n] < MaxLag
      /\ \A n \in Node : /\ mode[n] = "tx" => left[n] > 0 /\ left'[n] = left[n] - 1
                         /\ clock'[n] = (clock[n] + 1) % TSMOD
                         /\ lag'[n] = IF n \in due THEN lag[n] + 1 ELSE 0
                         /\ nap'[n] = IF nap[n] > 0 THEN nap[n] - 1 ELSE 0
      /\ \A m \in air : m.left > 0
      /\ air' = {Nearer(m) : m \in air}
  BY StsTicks DEF HostTick, LinkTick, CountsDown
<1>i. /\ clock["R"] \in Int /\ clock["I"] \in Int /\ rxTs["R"] \in Int /\ rxTs["I"] \in Int
      /\ Pause \in Nat /\ left["I"] \in Nat /\ left["R"] \in Nat /\ lag["R"] \in Nat
      /\ nap["I"] \in Nat /\ txTs["I"] \in Int /\ txTs["R"] \in Int /\ pollRxTs \in Int
      /\ Sent("I") \in Int /\ Sent("R") \in Int /\ Offset \in Int /\ Turn \in Int
      /\ FLIGHT \in Nat /\ RNG_DELAY \in Nat /\ TSMOD \in Nat \ {0} /\ Reply \in Nat
      /\ POLL_RX_TO_RESP_TX_DLY \in Nat /\ TX_ANT_DLY \in Nat
  BY <1>t, StsTimes, StsNumbers
<1>j. /\ clock'["R"] \in Int /\ clock'["I"] \in Int /\ Pause' \in Nat /\ lag'["R"] \in Nat
      /\ Sent("R")' \in Int /\ Sent("I")' \in Int /\ Turn' \in Int /\ Offset' \in Int
  <2>1. \A t : t % TSMOD \in Int \/ t \notin Int
    BY <1>i
  <2>2. clock'["R"] \in Int /\ clock'["I"] \in Int
    BY <1>t, <1>i, <1>r, <2>1
  <2>3. left' \in [Node -> Nat] /\ nap' \in [Node -> Nat] /\ lag' \in [Node -> 0 .. MaxLag]
    BY DEF StsTypes, LinkTypeOK, HostTypeOK
  <2>4. Pause' \in Nat
    <3>1. left'["I"] \in Nat /\ nap'["I"] \in Nat
      BY <1>t, <2>3
    <3> QED BY <1>i, <3>1 DEF Pause
  <2>5. lag'["R"] \in Nat
    BY <1>t, <2>3, StsNumbers
  <2>6. Sent("R")' \in Int /\ Sent("I")' \in Int
    <3>1. left'["I"] \in Nat /\ left'["R"] \in Nat /\ txTs' = txTs
      BY <1>t, <1>r, <2>3
    <3> QED BY <1>i, <2>2, <3>1 DEF Sent
  <2>7. Turn' = Turn
    BY <1>r DEF Turn
  <2> QED BY <1>i, <2>2, <2>4, <2>5, <2>6, <2>7 DEF Offset
<1>d. Sts!DistanceIsTrue'
  BY <1>t, <1>r DEF Sts!DistanceIsTrue
(* Times that are counted down go on to be the same times.                 *)
<1>s. ASSUME NEW n \in Node, NEW u \in Int PROVE SameLo(clock'[n] + (u - 1), clock[n] + u)
  <2>1. PICK c \in Int : c = clock[n]
    BY <1>i DEF Node
  <2> DEFINE b == (c + 1) % TSMOD
  <2>2. (c + u) - 0 = c + u /\ c + u \in Int
    OBVIOUS
  <2>3. SameLo((c + u) - 0, c + u)
    BY <2>2, SameLoEquivalence
  <2>4. SameLo((b + (u - 1)) - 0, c + u)
    BY <2>2, <2>3, SameLoTick
  <2>5. b \in Int /\ clock'[n] = b
    BY <1>i, <1>r, <2>1
  <2> HIDE DEF b
  <2>6. (b + (u - 1)) - 0 = b + (u - 1)
    BY <2>5
  <2> QED BY <2>1, <2>4, <2>5, <2>6
<1>1. SameLo(Offset', Offset)
  <2>1. PICK a \in Int : a = clock'["I"]
    BY <1>j
  <2>2. PICK b \in Int : b = clock["I"]
    BY <1>i
  <2>3. PICK c \in Int : c = clock'["R"]
    BY <1>j
  <2>4. PICK d \in Int : d = clock["R"]
    BY <1>i
  <2>5. SameLo(a + (0 - 1), b + 0) /\ SameLo(c + (0 - 1), d + 0)
    BY <1>t, <1>s, <2>1, <2>2, <2>3, <2>4
  <2>6. /\ a + (0 - 1) \in Int /\ b + 0 \in Int /\ c + (0 - 1) \in Int /\ d + 0 \in Int
        /\ a - c \in Int /\ b - d \in Int
        /\ (a - c) - (b - d) = ((a + (0 - 1)) - (b + 0)) - ((c + (0 - 1)) - (d + 0))
    OBVIOUS
  <2>7. SameLo(a - c, b - d)
    BY <2>5, <2>6, SameLoBalance
  <2> QED BY <2>1, <2>2, <2>3, <2>4, <2>7 DEF Offset
<1>2. SameLo(Sent("I")', Sent("I")) /\ SameLo(Sent("R")', Sent("R"))
  <2>1. ASSUME NEW n \in Node, Sent(n) \in Int PROVE SameLo(Sent(n)', Sent(n))
    <3>1. CASE mode[n] = "tx"
      <4>1. SameLo(clock'[n] + (left[n] - 1), clock[n] + left[n])
        BY <1>i, <1>s DEF Node
      <4> QED BY <1>r, <3>1, <4>1 DEF Sent
    <3>2. CASE mode[n] # "tx"
      <4>1. Sent(n)' = Sent(n)
        BY <1>r, <3>2 DEF Sent
      <4> QED BY <2>1, <4>1, SameLoEquivalence
    <3> QED BY <3>1, <3>2
  <2> QED BY <1>t, <1>i, <2>1
<1>3. ASSUME NEW d \in Int, NEW e \in Int, SameLo(e, d)
      PROVE  /\ PollArrives(d) => PollArrives(e)'
             /\ \A data : RespSays(data, d) => RespSays(data, e)'
             /\ \A data : FinalSays(data, d) => FinalSays(data, e)'
             /\ Turn' = Turn /\ Told' = Told
  BY <1>t, <1>r, <1>1, <1>2, <1>3, StsCarried
<1>4. Turn' = Turn /\ Told' = Told
  BY <1>r DEF Turn, Told
<1>5. Pause' >= Pause - 1
  BY <1>t, <1>r, <1>i, <1>j DEF Pause
<1>6. ASSUME NEW t \in Int, OverBefore(t) PROVE OverBefore(t - 1)'
  <2>1. t + 2 * POLL_RX_TO_RESP_TX_DLY + TX_ANT_DLY + FLIGHT < Pause
    BY <1>6 DEF OverBefore
  <2>2. (t - 1) + 2 * POLL_RX_TO_RESP_TX_DLY + TX_ANT_DLY + FLIGHT < Pause'
    BY <1>i, <1>j, <1>5, <2>1
  <2> QED BY <2>2 DEF OverBefore
<1>7. \A m \in Coming' : \E o \in Coming :
        /\ m.to = o.to /\ m.frame = o.frame /\ m.left = o.left - 1 /\ o.left \in Nat
        /\ m = Nearer(o)
  <2> SUFFICES ASSUME NEW m \in Coming'
               PROVE  \E o \in Coming : m = Nearer(o) /\ o.left \in Nat
    BY DEF Nearer
  <2>1. CASE m \in air'
    <3>1. PICK o \in air : m = Nearer(o)
      BY <1>r, <2>1
    <3>2. o \in Coming
      BY DEF Coming
    <3> QED BY <1>t, <3>1, <3>2, StsTimes
  <2>2. CASE m \notin air'
    <3>1. PICK i \in Node : mode'[i] = "tx"
            /\ m = [to |-> Peer(i), left |-> left'[i] + FLIGHT, frame |-> txBuf'[i]]
      BY <2>2 DEF Coming
    <3> DEFINE o == [to |-> Peer(i), left |-> left[i] + FLIGHT, frame |-> txBuf[i]]
    <3>2. o \in Coming
      BY <1>r, <3>1 DEF Coming
    <3>3. left'[i] + FLIGHT = o.left - 1
      <4>1. left[i] \in Nat /\ left'[i] = left[i] - 1
        BY <1>i, <1>r, <3>1 DEF Node
      <4> QED BY <1>i, <4>1
    <3>4. m = Nearer(o)
      BY <1>r, <3>1, <3>3 DEF Nearer
    <3> HIDE DEF o
    <3> QED BY <1>t, <3>2, <3>4, StsTimes
  <2> QED BY <2>1, <2>2
<1>8. ComingFits'
  <2>1. ASSUME NEW m \in Coming'
        PROVE  /\ m.left < Pause'
               /\ m.frame.kind \in IF m.to = "R" THEN {"poll", "final"} ELSE {"resp", "report"}
               /\ m.frame.kind = "poll" => OverBefore(m.left)' /\ PollArrives(clock["R"] + m.left)'
               /\ m.frame.kind = "resp" => RespSays(m.frame.data, clock["I"] + m.left)'
               /\ m.frame.kind = "final" => FinalSays(m.frame.data, clock["R"] + m.left)'
               /\ m.frame.kind = "report" => m.frame.data = Told'
    <3>1. PICK o \in Coming :
            m.to = o.to /\ m.frame = o.frame /\ m.left = o.left - 1 /\ o.left \in Nat
      BY <1>7
    <3>2. /\ o.left < Pause
          /\ o.frame.kind \in IF o.to = "R" THEN {"poll", "final"} ELSE {"resp", "report"}
          /\ o.frame.kind = "poll"   => OverBefore(o.left) /\ PollArrives(clock["R"] + o.left)
          /\ o.frame.kind = "resp"   => RespSays(o.frame.data, clock["I"] + o.left)
          /\ o.frame.kind = "final"  => FinalSays(o.frame.data, clock["R"] + o.left)
          /\ o.frame.kind = "report" => o.frame.data = Told
      BY <1>t DEF ComingFits
    <3>3. m.left < Pause'
      BY <1>i, <1>j, <1>5, <3>1, <3>2
    <3>4. PICK u \in Int : u = o.left /\ u - 1 = m.left
      BY <3>1
    <3>a. PICK ri \in Int : ri = clock["I"] + u
      BY <1>i
    <3>b. PICK rr \in Int : rr = clock["R"] + u
      BY <1>i
    <3>c. PICK ei \in Int : ei = clock'["I"] + (u - 1)
      BY <1>j
    <3>d. PICK er \in Int : er = clock'["R"] + (u - 1)
      BY <1>j
    <3>5. /\ ri = clock["I"] + u /\ rr = clock["R"] + u
          /\ ei = clock'["I"] + (u - 1) /\ er = clock'["R"] + (u - 1)
      BY <3>a, <3>b, <3>c, <3>d
    <3>6. SameLo(ei, ri) /\ SameLo(er, rr)
      BY <1>t, <1>s, <3>5
    <3>7. m.frame.kind = "poll" => OverBefore(m.left)'
      <4>1. OverBefore(u) => OverBefore(u - 1)'
        BY <1>6
      <4> QED BY <3>1, <3>2, <3>4, <4>1 DEF OverBefore
    <3>8. m.frame.kind = "poll" => PollArrives(clock["R"] + m.left)'
      <4>1. PollArrives(rr) => PollArrives(er)'
        BY <1>3, <3>6
      <4> QED BY <3>1, <3>2, <3>4, <3>5, <4>1 DEF PollArrives
    <3>9. m.frame.kind = "resp" => RespSays(m.frame.data, clock["I"] + m.left)'
      <4>1. PICK data : data = o.frame.data
        OBVIOUS
      <4>2. RespSays(data, ri) => RespSays(data, ei)'
        BY <1>3, <3>6
      <4> QED BY <3>1, <3>2, <3>4, <3>5, <4>1, <4>2 DEF RespSays
    <3>10. m.frame.kind = "final" => FinalSays(m.frame.data, clock["R"] + m.left)'
      <4>1. PICK data : data = o.frame.data
        OBVIOUS
      <4>2. FinalSays(data, rr) => FinalSays(data, er)'
        BY <1>3, <3>6
      <4> QED BY <3>1, <3>2, <3>4, <3>5, <4>1, <4>2 DEF FinalSays
    <3> QED BY <1>4, <3>1, <3>2, <3>3, <3>7, <3>8, <3>9, <3>10
  <2> QED BY <2>1 DEF ComingFits
(* What a host notices, and what it does not.                              *)
<1>9. /\ GotAPoll' = GotAPoll /\ GotAResp' = GotAResp /\ GotAFinal' = GotAFinal
      /\ GotAReport' = GotAReport /\ Reporting' = Reporting
  <2>1. \A n, k : HasIt(n, k)' = HasIt(n, k)
    BY <1>r DEF HasIt
  <2> QED BY <1>r, <2>1 DEF GotAPoll, GotAResp, GotAFinal, GotAReport, Reporting
<1>10. /\ GotAPoll => lag'["R"] = lag["R"] + 1
       /\ Reporting => lag'["R"] = IF mode["R"] = "tx" THEN 0 ELSE lag["R"] + 1
       /\ pc["R"] = "listen" /\ mode["R"] # "idle" => lag'["R"] = 0
  <2> USE DEF Sts!HostDue, Sts!Noticed, Sts!Awaited, Sts!Awake, Sts!Rested, Sts!TxPoints,
              Sts!DataPoints, Sts!RespPoints, Sts!RxMask
  <2>1. GotAPoll => Sts!HostDue("R")
    BY DEF GotAPoll, HasIt
  <2>2. Reporting => (Sts!HostDue("R") <=> mode["R"] # "tx")
    BY <1>t DEF Reporting, StsPhases, AskingPoll, Sending
  <2>3. pc["R"] = "listen" /\ mode["R"] # "idle" => ~Sts!HostDue("R")
    BY <1>t DEF StsPhases, Hearing, RxWait, NoRxFlag, RxMask
  <2> QED BY <1>t, <1>r, <2>1, <2>2, <2>3
<1>11. PollFits'
  <2> SUFFICES ASSUME GotAPoll PROVE PollFits'
    BY <1>9 DEF PollFits
  <2>1. PICK l \in Nat, r \in Int : l = lag["R"] /\ r = rxTs["R"]
    BY <1>i
  <2>2. lag'["R"] = l + 1 /\ rxTs'["R"] = r
    BY <1>r, <1>10, <2>1
  <2>3. clock'["R"] = (r + (l + 1)) % TSMOD
    <3>1. PICK c : c = clock["R"]
      OBVIOUS
    <3>2. c = (r + l) % TSMOD
      BY <1>t, <2>1, <3>1 DEF PollFits
    <3>3. (c + 1) % TSMOD = (r + (l + 1)) % TSMOD
      BY <3>2, CountedOn
    <3> QED BY <1>t, <1>r, <3>1, <3>3
  <2>4. ASSUME Timely' PROVE OverBefore(0 - (l + 1))' /\ PollArrives(r)'
    <3>1. Timely
      BY <1>i, <2>1, <2>2, <2>4 DEF Timely
    <3>2. OverBefore(0 - l) /\ PollArrives(r)
      BY <1>t, <2>1, <3>1 DEF PollFits
    <3>3. OverBefore((0 - l) - 1)' /\ (0 - l) - 1 = 0 - (l + 1)
      BY <1>6, <3>2
    <3>4. PollArrives(r)'
      BY <1>3, <3>2, SameLoEquivalence
    <3> QED BY <3>3, <3>4 DEF OverBefore
  <2> QED BY <2>2, <2>3, <2>4 DEF PollFits, OverBefore, PollArrives
<1>12. ReportingFits'
  <2> SUFFICES ASSUME Reporting PROVE ReportingFits'
    BY <1>9 DEF ReportingFits
  <2>1. PICK l \in Nat :
          /\ clock["R"] = (pollRxTs + l) % TSMOD
          /\ l + (IF mode["R"] = "tx" THEN left["R"] ELSE 0) <= Reply + lag["R"]
          /\ l <= 2 * POLL_RX_TO_RESP_TX_DLY =>
               OverBefore(0 - l) /\ \A m \in Coming : m.frame.kind # "poll"
    BY <1>t DEF ReportingFits
  <2>2. clock'["R"] = (pollRxTs + (l + 1)) % TSMOD
    <3>1. PICK c, r \in Int : c = clock["R"] /\ r = pollRxTs
      BY <1>i
    <3>2. (c + 1) % TSMOD = (r + (l + 1)) % TSMOD
      BY <2>1, <3>1, CountedOn
    <3> QED BY <1>t, <1>r, <3>1, <3>2
  <2>3. (l + 1) + (IF mode["R"] = "tx" THEN left'["R"] ELSE 0) <= Reply + lag'["R"]
    <3>1. CASE mode["R"] = "tx"
      <4>1. lag["R"] = 0 /\ lag'["R"] = 0 /\ left'["R"] = left["R"] - 1
        BY <1>t, <1>r, <1>10, <3>1 DEF StsRoles
      <4> QED BY <1>i, <2>1, <3>1, <4>1
    <3>2. CASE mode["R"] # "tx"
      <4>1. lag'["R"] = lag["R"] + 1
        BY <1>10, <3>2
      <4> QED BY <1>i, <2>1, <3>2, <4>1
    <3> QED BY <3>1, <3>2
  <2>4. ASSUME l + 1 <= 2 * POLL_RX_TO_RESP_TX_DLY
        PROVE  OverBefore(0 - (l + 1))' /\ \A m \in Coming' : m.frame.kind # "poll"
    <3>1. OverBefore(0 - l) /\ \A m \in Coming : m.frame.kind # "poll"
      BY <1>i, <2>1, <2>4
    <3>2. OverBefore((0 - l) - 1)' /\ (0 - l) - 1 = 0 - (l + 1)
      BY <1>6, <3>1
    <3> QED BY <1>7, <3>1, <3>2 DEF OverBefore
  <2>5. l + 1 \in Nat /\ mode' = mode /\ pollRxTs' = pollRxTs
    BY <1>r
  <2> QED BY <2>2, <2>3, <2>4, <2>5 DEF ReportingFits
<1>13. RespFits' /\ ReportFits' /\ FinalFits'
  <2>a. PICK i, r \in Int : i = rxTs["I"] /\ r = rxTs["R"]
    BY <1>i
  <2>b. PICK di : di = rxBuf["I"].data
    OBVIOUS
  <2>c. PICK dr : dr = rxBuf["R"].data
    OBVIOUS
  <2>1. i = rxTs["I"] /\ r = rxTs["R"] /\ di = rxBuf["I"].data /\ dr = rxBuf["R"].data
    BY <2>a, <2>b, <2>c
  <2>2. rxTs'["I"] = i /\ rxTs'["R"] = r /\ rxBuf'["I"].data = di /\ rxBuf'["R"].data = dr
    BY <1>r, <2>1
  <2>3. SameLo(i, i) /\ SameLo(r, r)
    BY SameLoEquivalence
  <2>4. RespSays(di, i) => RespSays(di, i)'
    BY <1>3, <2>3
  <2>5. FinalSays(dr, r) => FinalSays(dr, r)'
    BY <1>3, <2>3
  <2>6. RespFits'
    BY <1>t, <1>9, <2>1, <2>2, <2>4 DEF RespFits, RespSays
  <2>7. FinalFits'
    BY <1>t, <1>9, <2>1, <2>2, <2>5 DEF FinalFits, FinalSays
  <2>8. ReportFits'
    BY <1>t, <1>r, <1>4, <1>9 DEF ReportFits
  <2> QED BY <2>6, <2>7, <2>8
<1>14. KeptFits' /\ SentFits'
  <2>1. KeptFits'
    BY <1>t, <1>r, <1>4 DEF KeptFits
  <2>2. SentFits'
    <3> SUFFICES ASSUME pc["R"] \in {"waitPoll", "waitFinal"}, proto = "ds"
                 PROVE  SameLo(Sent("R")', pollRxTs' + Turn')
      BY <1>r DEF SentFits
    <3>1. SameLo(Sent("R"), pollRxTs + Turn) /\ pollRxTs + Turn \in Int
      BY <1>t, <1>i DEF SentFits
    <3>2. SameLo(Sent("R")', pollRxTs + Turn)
      BY <1>i, <1>j, <1>2, <3>1, SameLoEquivalence
    <3> QED BY <1>r, <1>4, <3>2
  <2> QED BY <2>1, <2>2
<1>15. Apart'
  <2>1. \A m \in Coming' : \E o \in Coming : m = Nearer(o) /\ m.frame = o.frame
    BY <1>7
  <2>2. \A m, o \in Coming' : m = o \/ (proto' = "nd" /\ m.frame.kind # "poll")
    BY <1>t, <1>r, <2>1 DEF Apart
  <2>3. GotAPoll => \A m \in Coming' : m.frame.kind = "poll"
    BY <1>t, <2>1 DEF Apart
  <2>4. GotAPoll /\ Timely' => Coming' = {}
    <3> SUFFICES ASSUME GotAPoll, Timely' PROVE Coming' = {}
      OBVIOUS
    <3>1. lag'["R"] = lag["R"] + 1
      BY <1>10
    <3>2. Timely
      BY <1>i, <3>1 DEF Timely
    <3>3. Coming = {}
      BY <1>t, <3>2 DEF Apart
    <3> QED BY <2>1, <3>3
  <2>5. GotAPoll \/ (\E m \in Coming' : m.frame.kind = "poll")
          => ~GotAResp /\ pc["I"] # "waitReport"
    BY <1>t, <2>1 DEF Apart
  <2>6. GotAResp /\ proto = "ds" => Coming' = {}
    <3>1. GotAResp /\ proto = "ds" => Coming = {}
      BY <1>t DEF Apart
    <3> QED BY <2>1, <3>1
  <2> QED BY <1>r, <1>9, <2>2, <2>3, <2>4, <2>5, <2>6 DEF Apart
<1>16. StsRoles'
  BY <1>t, <1>r, <1>9, <1>10 DEF StsRoles
<1> QED BY <1>d, <1>8, <1>11, <1>12, <1>13, <1>14, <1>15, <1>16 DEF StsExchange

LEMMA StsStart == Init /\ app = "sts" => StsTypes /\ StsExchange /\ Sts!DistanceIsTrue
  <1> SUFFICES ASSUME Sts!Init PROVE StsTypes /\ StsExchange /\ Sts!DistanceIsTrue
    BY DEF Init
  <1>1. /\ pc = [n \in Node |-> "sleep"] /\ mode = [n \in Node |-> "idle"] /\ air = {}
        /\ rxBuf = [n \in Node |-> NoFrame] /\ txBuf = [n \in Node |-> NoFrame]
        /\ proto \in {"ds", "ss", "nd"} /\ sts = [n \in Node |-> 0] /\ pollRxTs = 0
        /\ result = <<>>
    BY DEF Sts!Init, Sts!LinkInit, Sts!HostInit, Sts!Node, Node, Sts!NoFrame, NoFrame,
           Sts!Frame, Frame, Sts!Protos
  <1>2. StsTypes
    <2> USE DEF Sts!Init, Sts!LinkInit, Sts!HostInit, Sts!Node, Node
    <2> HIDE DEF StsFrames
    <2>1. /\ NoFrame \in StsFrames /\ 0 \in Timestamps /\ Starts \subseteq Timestamps
          /\ MaxFaults \in Nat
      <3>1. 0 \in Timestamps
        BY StsNumbers DEF Timestamps
      <3> QED BY <3>1, StsCarries, PolledAssumption, LinkAssumption
              DEF PolledAssumption, Sts!StsAssumption, Timestamps, Sts!Timestamps
    <2>2. POLL_TX_TO_RESP_RX_DLY \in Nat /\ RESP_TX_TO_FINAL_RX_DLY \in Nat /\ RESP_RX_TIMEOUT \in Nat
      BY PolledAssumption DEF PolledAssumption, Sts!StsAssumption
    <2>3. LinkTypeOK(StsFrames)
      BY <1>1, <2>1, <2>2 DEF LinkTypeOK, Modes
    <2>4. HostTypeOK(StsFrames)
      <3>1. buf = [n \in Node |-> NoFrame]
        BY DEF Sts!NoFrame, NoFrame, Sts!Frame, Frame
      <3> QED BY <1>1, <2>1, <3>1, StsNumbers DEF HostTypeOK, Points
    <2> QED BY <1>1, <2>1, <2>3, <2>4 DEF StsTypes
  <1>3. Coming = {}
    BY <1>1 DEF Coming, Node
  <1>4. StsExchange
    BY <1>1, <1>3
       DEF StsExchange, StsRoles, Apart, ComingFits, PollFits, RespFits, FinalFits, ReportFits,
           KeptFits, SentFits, ReportingFits, GotAPoll, GotAResp, GotAFinal, GotAReport, Reporting,
           HasIt, Node, NoFrame, Frame
  <1> QED BY <1>1, <1>2, <1>4 DEF Sts!DistanceIsTrue

LEMMA StsAlways ==
  ASSUME StsSwift
  PROVE  Spec => [](app = "sts" => Sts!DistanceIsTrue)
  <1> DEFINE Now == StsTypes /\ StsExchange /\ Sts!DistanceIsTrue
             Inv == app = "sts" => Now
  <1>1. Init => Inv
    BY StsStart
  <1>2. Phases /\ Inv /\ [Next]_vars => Inv'
    <2> SUFFICES ASSUME Phases, Inv, [Next]_vars, app' = "sts" PROVE Now'
      OBVIOUS
    <2>1. app = "sts" /\ Now /\ StsInv /\ StsRoles
      BY DEF Next, Runs, vars, Phases, StsInv, StsExchange
    <2>2. CASE Sts!Next
      <3>1. StsTypes'
        BY <2>1, <2>2, StsTypesStep
      <3> QED BY <2>1, <2>2, <3>1, StsInitiatorActs, StsResponderActs, StsRadioActs,
                 StsTickActs DEF Sts!Next
    <2>3. CASE UNCHANGED <<hostVars, stsVars>>
      <3>1. /\ UNCHANGED linkVars /\ UNCHANGED <<pc, nap, lag, buf>>
            /\ UNCHANGED <<proto, sts, pollRxTs, kept, result>>
        BY <2>3 DEF hostVars, pollVars, stsVars
      <3> HIDE DEF StsFrames
      <3>2. StsTypes'
        BY <2>1, <3>1 DEF linkVars, chipVars, StsTypes, LinkTypeOK, HostTypeOK
      <3>3. /\ Coming' = Coming /\ Pause' = Pause /\ Sent("I")' = Sent("I")
            /\ Sent("R")' = Sent("R") /\ Offset' = Offset /\ Turn' = Turn /\ Told' = Told
        BY <3>1 DEF linkVars, chipVars, Coming, Pause, Sent, Offset, Turn, Told
      <3>4. /\ GotAPoll' = GotAPoll /\ GotAResp' = GotAResp /\ GotAFinal' = GotAFinal
            /\ GotAReport' = GotAReport /\ Timely' = Timely /\ Reporting' = Reporting
        BY <3>1 DEF linkVars, chipVars, GotAPoll, GotAResp, GotAFinal, GotAReport, Timely,
                    Reporting, HasIt
      <3>5. /\ UNCHANGED <<clock, mode, left, status, txTs, rxTs, txBuf, rxBuf, air>>
            /\ UNCHANGED <<pc, nap, lag, proto, sts, pollRxTs, kept, result>>
        BY <3>1 DEF linkVars, chipVars
      <3>6. StsRoles' /\ Apart'
        BY <2>1, <3>3, <3>4, <3>5 DEF StsExchange, StsRoles, Apart
      <3>7. ComingFits'
        BY <2>1, <3>3, <3>5
           DEF StsExchange, ComingFits, OverBefore, PollArrives, RespSays, FinalSays
      <3>8. PollFits' /\ ReportingFits'
        BY <2>1, <3>3, <3>4, <3>5 DEF StsExchange, PollFits, ReportingFits, OverBefore, PollArrives
      <3>9. RespFits' /\ FinalFits' /\ ReportFits' /\ KeptFits' /\ SentFits'
        BY <2>1, <3>3, <3>4, <3>5
           DEF StsExchange, RespFits, FinalFits, ReportFits, KeptFits, SentFits, RespSays,
               FinalSays, PollArrives
      <3> QED BY <2>1, <3>2, <3>5, <3>6, <3>7, <3>8, <3>9 DEF StsExchange, Sts!DistanceIsTrue
    <2> QED BY <2>1, <2>2, <2>3 DEF Next, Runs, vars
  <1>3. Inv => (app = "sts" => Sts!DistanceIsTrue)
    OBVIOUS
  <1> QED BY <1>1, <1>2, <1>3, PhasesAlways, PTL DEF Spec

(* Ranging with STS and with encrypted frames: no node ever reports a time *)
(* of flight, or its double, that is not the true one, whatever the clocks *)
(* show, however late the hosts are, and whatever is lost or corrupted.    *)
THEOREM DistanceAlwaysTrue ==
  ASSUME RoundTripFits, StsSwift
  PROVE  Spec => []DistanceIsTrue
  <1>1. Spec => [](app = "sts" => Sts!DistanceIsTrue)
    BY StsAlways
  <1>2. Spec => [](app = "aes" => Aes!DistanceIsTrue)
    BY AesAlways, PTL
  <1>3. (app = "sts" => Sts!DistanceIsTrue) /\ (app = "aes" => Aes!DistanceIsTrue)
          => DistanceIsTrue
    BY DEF DistanceIsTrue
  <1> QED BY <1>1, <1>2, <1>3, PTL
=============================================================================
