--------------------------- MODULE PsiScanProofs ---------------------------
(* What one scan of a frequency promises, for any multiplexes, any length of *)
(* the SDT and any modulus of the continuity counter, as long as fewer       *)
(* packets are missed in a row than the counter can tell: the filter is left *)
(* empty, the SDT parsed was sent as one section, and the list that is       *)
(* returned holds the services that can be played.                           *)
EXTENDS PsiScan, TLAPS, SequenceTheorems

-----------------------------------------------------------------------------
(* The filter *)

\* Only the SDT and the PAT are loaded while they are read, nothing between scans and
\* while services are dropped.
FilterInv ==
  /\ phase = "psi" => filter \subseteq {SdtPid, PatPid}
  /\ phase \in {"idle", "filter"} => filter = {}

LEMMA NextFilterInv == FilterInv /\ [Next]_vars => FilterInv'
<1> SUFFICES ASSUME FilterInv, [Next]_vars
             PROVE  FilterInv'
  OBVIOUS
<1> USE DEF FilterInv, psiVars, psiRest
<1>1. CASE Start
  BY <1>1 DEF Start
<1>2. CASE NoSignal
  BY <1>2 DEF NoSignal
<1>3. CASE PsiTimeout
  BY <1>3 DEF PsiTimeout, PsiFails, Fail
<1>4. CASE PsiSkip
  BY <1>4 DEF PsiSkip
<1>5. CASE PatPacket
  BY <1>5 DEF PatPacket, PsiRead
<1>6. CASE PatCrcError
  BY <1>6 DEF PatCrcError, PsiRead, PsiFails, Fail
<1>7. CASE NoPacket
  BY <1>7 DEF NoPacket
<1>8. ASSUME NEW lost \in 0..MaxLoss, NEW table \in {"actual", "other"},
             SdtPacket(lost, table)
      PROVE  FilterInv'
  BY <1>8 DEF SdtPacket, PsiRead
<1>9. CASE PsiParse
  BY <1>9 DEF PsiParse
<1>10. CASE PsiParseFails
  BY <1>10 DEF PsiParseFails, PsiFails, Fail
<1>11. CASE PmtAbandon
  BY <1>11 DEF PmtAbandon, Fail
<1>12. CASE PmtBegin
  BY <1>12 DEF PmtBegin
<1>13. CASE PmtDone
  BY <1>13 DEF PmtDone
<1>14. CASE PmtSection
  BY <1>14 DEF PmtSection
<1>15. CASE PmtTimeout
  BY <1>15 DEF PmtTimeout
<1>16. CASE KeepOrDrop
  BY <1>16 DEF KeepOrDrop
<1>17. CASE Return
  BY <1>17 DEF Return
<1>18. CASE PmtCrcError \/ PmtRefused
  BY <1>18 DEF PmtCrcError, PmtRefused, vars
<1>19. CASE UNCHANGED vars
  BY <1>19 DEF vars
<1> QED
  BY <1>1, <1>2, <1>3, <1>4, <1>5, <1>6, <1>7, <1>8, <1>9, <1>10, <1>11, <1>12,
     <1>13, <1>14, <1>15, <1>16, <1>17, <1>18, <1>19
  DEF Next, Step

\* When no scan runs no PID of one is left in the filter, whichever of its exits the
\* last one took: find_pmt_for_services leaves PIDs behind on every timeout, and each
\* way out of it and of get_data_from_network frees what it loaded.
THEOREM FilterAlwaysClean == Spec => []FilterClean
<1>1. Init => FilterInv
  BY DEF Init, FilterInv
<1>2. FilterInv => FilterClean
  BY DEF FilterInv, FilterClean
<1> QED
  BY <1>1, <1>2, NextFilterInv, PTL DEF Spec

-----------------------------------------------------------------------------
(* Remainders *)

\* What "%" and "\div" mean.
LEMMA Quotient ==
  ASSUME NEW b \in Nat \ {0}, NEW a \in Int
  PROVE  /\ a % b \in 0..b-1
         /\ a \div b \in Int
         /\ a = b * (a \div b) + (a % b)
OBVIOUS

\* Quotient and remainder are determined by their equation and the range of the remainder.
LEMMA Unique ==
  ASSUME NEW b \in Nat \ {0}, NEW q1 \in Int, NEW q2 \in Int, NEW r1 \in 0..b-1, NEW r2 \in 0..b-1,
         b*q1+r1 = b*q2+r2
  PROVE r1 = r2 /\ q1 = q2
<1>1. CASE q1 >= q2 + 1
 <2>1. b*q1 >= b*q2 + b
   BY <1>1
 <2> QED BY <2>1
<1>2. CASE q2 >= q1 + 1
 <2>1. b*q2 >= b*q1 + b
   BY <1>2
 <2> QED BY <2>1
<1> QED BY <1>1, <1>2

LEMMA Remainder ==
  ASSUME NEW b \in Nat \ {0}, NEW q \in Int, NEW r \in 0..b-1, NEW a \in Int, a = b*q+r
  PROVE a % b = r
<1> DEFINE q1 == a \div b  r1 == a % b
<1>1. /\ r1 \in 0..b-1 /\ q1 \in Int /\ a = b * q1 + r1
 BY Quotient
<1> HIDE DEF q1, r1
<1>2. r1 = r
  BY <1>1, Unique
<1> QED BY <1>2 DEF r1

\* Equal remainders stay equal when the same number is added.
LEMMA Shift ==
  ASSUME NEW b \in Nat \ {0}, NEW x \in Int, NEW y \in Int, NEW c \in Int, x % b = y % b
  PROVE (x + c) % b = (y + c) % b
<1> DEFINE k == (x \div b) - (y \div b)
<1>1. k \in Int /\ x = y + b * k
  BY Quotient
<1> DEFINE q == (y + c) \div b  r == (y + c) % b
<1>2. r \in 0..b-1 /\ q \in Int /\ y + c = b * q + r
  BY Quotient
<1> HIDE DEF k, q, r
<1>3. x + c = b * (q + k) + r
  BY <1>1, <1>2
<1>4. x + c \in Int /\ q + k \in Int
  BY <1>1, <1>2
<1>5. \A a \in Int, n \in Int : a = b * n + r => a % b = r
  BY <1>2, Remainder
<1>6. (x + c) % b = r
  BY <1>3, <1>4, <1>5, Zenon
<1> QED
  BY <1>6 DEF r

\* The remainder by a multiple of b does not change the remainder by b.
LEMMA Nested ==
  ASSUME NEW b \in Nat \ {0}, NEW m \in Nat, NEW n \in Nat \ {0}, n = m * b, NEW x \in Int
  PROVE  (x % n) % b = x % b
<1> DEFINE q == x \div n  r == x % n
<1>1. r \in 0..n-1 /\ q \in Int /\ x = n * q + r
  BY Quotient, Zenon
<1> HIDE DEF q, r
<1> DEFINE q2 == r \div b  r2 == r % b  Q == m * q + q2
<1>2. q2 \in Int /\ r2 \in 0..b-1 /\ r = b * q2 + r2
  BY <1>1, Quotient
<1> HIDE DEF q2, r2
<1>3. n * q = b * (m * q)
  BY <1>1
<1>4. x = b * Q + r2 /\ Q \in Int
  BY <1>1, <1>2, <1>3
<1> HIDE DEF Q
<1>5. x % b = r2
  BY <1>2, <1>4, Remainder
<1> QED BY <1>5 DEF r, r2

\* x % b by another name: with "%" itself in sight the solver looks for quotients.
Rem(x, b) == x % b

LEMMA RemShift ==
  ASSUME NEW b \in Nat \ {0}, NEW x \in Int, NEW y \in Int, NEW c \in Int,
         Rem(x, b) = Rem(y, b)
  PROVE  Rem(x + c, b) = Rem(y + c, b)
BY Shift, Zenon DEF Rem

LEMMA RemNested ==
  ASSUME NEW b \in Nat \ {0}, NEW m \in Nat, NEW n \in Nat \ {0}, n = m * b, NEW x \in Int
  PROVE  Rem(Rem(x, n), b) = Rem(x, b)
BY Nested, Zenon DEF Rem

LEMMA RemRange ==
  ASSUME NEW b \in Nat \ {0}, NEW x \in Int
  PROVE  Rem(x, b) \in 0..b - 1
BY Quotient, Zenon DEF Rem

LEMMA RemSmall ==
  ASSUME NEW b \in Nat \ {0}, NEW x \in 0..b - 1
  PROVE  Rem(x, b) = x
<1>1. 0 \in Int /\ x \in Int /\ x = b * 0 + x
  OBVIOUS
<1>2. \A a \in Int, q \in Int : a = b * q + x => a % b = x
  BY Remainder
<1>3. x % b = x
  BY <1>1, <1>2, Zenon
<1> QED
  BY <1>3 DEF Rem

\* Two numbers less than the divisor apart have the same remainder only when they are
\* the same.
LEMMA RemNoGap ==
  ASSUME NEW b \in Nat \ {0}, NEW x \in Int, NEW d \in 0..b - 1,
         Rem(x + d, b) = Rem(x, b)
  PROVE  d = 0
<1>1. x + d \in Int /\ -x \in Int
  OBVIOUS
<1>2. Rem((x + d) + (-x), b) = Rem(x + (-x), b)
  BY <1>1, RemShift
<1>3. (x + d) + (-x) = d /\ x + (-x) = 0 /\ 0 \in 0..b - 1
  OBVIOUS
<1>4. Rem(d, b) = d /\ Rem(0, b) = 0
  BY <1>3, RemSmall
<1> QED
  BY <1>2, <1>3, <1>4

-----------------------------------------------------------------------------
(* The reader of the SDT *)

\* The first k packets of a section.
FirstParts(k) == [i \in 1..k |-> i - 1]

LEMMA PartsLength ==
  ASSUME NEW k \in Nat
  PROVE  FirstParts(k) \in Seq(Int) /\ Len(FirstParts(k)) = k
BY DEF FirstParts

\* The next packet of a section appended to those before it.
LEMMA PartsGrow ==
  ASSUME NEW k \in Nat
  PROVE  /\ FirstParts(0) = << >> /\ FirstParts(1) = <<0>>
         /\ Append(FirstParts(k), k) = FirstParts(k + 1)
<1>1. FirstParts(0) = << >> /\ FirstParts(1) = <<0>>
  BY DEF FirstParts
<1>2. /\ FirstParts(k) \in Seq(Int) /\ FirstParts(k + 1) \in Seq(Int)
      /\ Len(FirstParts(k)) = k /\ Len(FirstParts(k + 1)) = k + 1
  BY PartsLength
<1>3. /\ Append(FirstParts(k), k) \in Seq(Int)
      /\ Len(Append(FirstParts(k), k)) = k + 1
      /\ \A i \in 1..k : Append(FirstParts(k), k)[i] = FirstParts(k)[i]
      /\ Append(FirstParts(k), k)[k + 1] = k
  BY <1>2, AppendProperties
<1>4. \A i \in 1..k + 1 : Append(FirstParts(k), k)[i] = FirstParts(k + 1)[i]
  BY <1>3 DEF FirstParts
<1>5. Append(FirstParts(k), k) = FirstParts(k + 1)
  BY <1>2, <1>3, <1>4, SeqEqual
<1> QED
  BY <1>1, <1>5

Cycle == SdtLen * CcMod

LEMMA CyclePositive ==
  CcMod \in Nat \ {0} /\ SdtLen \in Nat \ {0} /\ Cycle \in Nat \ {0}
<1>1. CcMod \in Nat \ {0} /\ SdtLen \in Nat \ {0}
  BY LossAssumption
<1> QED
  BY <1>1 DEF Cycle

\* A position on the air, counted modulo a cycle, has the counter and the place in its
\* section that it has uncounted.
LEMMA RemOfCycle ==
  ASSUME NEW b \in {CcMod, SdtLen}, NEW x \in Int
  PROVE  Rem(Rem(x, Cycle), b) = Rem(x, b)
<1>1. Cycle = SdtLen * CcMod /\ Cycle = CcMod * SdtLen
  BY CyclePositive DEF Cycle
<1>2. CASE b = CcMod
  BY <1>1, <1>2, CyclePositive, RemNested
<1>3. CASE b = SdtLen
  BY <1>1, <1>3, CyclePositive, RemNested
<1> QED
  BY <1>2, <1>3

\* The position after d more packets and the one that is read now agrees with what is
\* counted, whether or not the reader is the one that gets it.
LEMMA PositionShifts ==
  ASSUME NEW b \in Nat \ {0}, b \in {CcMod, SdtLen},
         NEW pos \in Int, NEW d \in Int, NEW x \in Int, Rem(x, b) = Rem(pos, b)
  PROVE  Rem(x + d + 1, b) = Rem(Rem(Rem(pos + d, Cycle) + 1, Cycle), b)
<1> DEFINE y == x + d  z == pos + d  n == Rem(z, Cycle)
<1>1. b \in Nat \ {0} /\ y \in Int /\ z \in Int /\ n \in Int
  BY CyclePositive, RemRange
<1>2. Rem(y, b) = Rem(z, b)
  BY RemShift
<1>3. Rem(n, b) = Rem(z, b)
  BY <1>1, RemOfCycle
<1> HIDE DEF y, z, n
<1>4. Rem(y + 1, b) = Rem(n + 1, b)
  BY <1>1, <1>2, <1>3, RemShift
<1>5. Rem(Rem(n + 1, Cycle), b) = Rem(n + 1, b)
  BY <1>1, RemOfCycle
<1> QED
  BY <1>4, <1>5 DEF y, z, n

\* A packet with the counter that was expected is the next one on the air, and none was
\* missed.
LEMMA ExpectedIsNext ==
  ASSUME NEW pos \in 0..Cycle - 1, NEW lost \in Nat, NEW miss \in Nat, miss + lost <= MaxLoss,
         NEW e \in Int, Rem(e + miss, CcMod) = Rem(pos, CcMod),
         e = Rem(Rem(pos + lost, Cycle), CcMod)
  PROVE  lost = 0 /\ miss = 0 /\ Rem(pos + lost, Cycle) = pos
<1>1. pos \in Int /\ pos + lost \in Int /\ miss \in Int
  BY CyclePositive
<1>2. e = Rem(pos + lost, CcMod) /\ e \in 0..CcMod - 1
  BY <1>1, CyclePositive, RemOfCycle, RemRange
<1>3. Rem(e, CcMod) = Rem(pos + lost, CcMod)
  BY <1>2, CyclePositive, RemSmall
<1>4. Rem(e + miss, CcMod) = Rem((pos + lost) + miss, CcMod)
  <2>1. CcMod \in Nat \ {0}
    BY CyclePositive
  <2>2. \A x, y, c \in Int : Rem(x, CcMod) = Rem(y, CcMod) => Rem(x + c, CcMod) = Rem(y + c, CcMod)
    BY <2>1, RemShift
  <2> QED
    BY <1>1, <1>3, <2>2
<1>5. (pos + lost) + miss = pos + (lost + miss) /\ lost + miss \in 0..CcMod - 1
  BY <1>1, LossAssumption
<1>6. lost + miss = 0
  BY <1>1, <1>4, <1>5, CyclePositive, RemNoGap
<1>7. Rem(pos, Cycle) = pos
  BY CyclePositive, RemSmall
<1> QED
  BY <1>1, <1>6, <1>7

\* What the reader has to agree with the air about, with Rem for "%".
ReaderInv ==
  /\ air \in [pos : 0..Cycle - 1, table : {"actual", "other"}, missed : 0..MaxLoss]
  /\ sdt.expect \in 0..None
  /\ \E k \in 0..SdtLen : sdt.parts = FirstParts(k)
  /\ find_sdt => sdt.parts = FirstParts(SdtLen)
  /\ ~find_sdt => Len(sdt.parts) < SdtLen
  /\ sdt.expect = None => sdt.parts = << >>
  /\ ~find_sdt /\ sdt.expect # None => Rem(sdt.expect + air.missed, CcMod) = Rem(air.pos, CcMod)
  /\ ~find_sdt /\ sdt.parts # << >> =>
       Rem(Len(sdt.parts) + air.missed, SdtLen) = Rem(air.pos, SdtLen)

\* What the reader holds after packet n is nothing, or what a section starts with up to
\* that packet.
LEMMA GatheredParts ==
  ASSUME ReaderInv, ~find_sdt, NEW lost \in Nat, air.missed + lost <= MaxLoss,
         NEW n, n = Rem(air.pos + lost, Cycle)
  PROVE  Gathered(n) = << >> \/ Gathered(n) = FirstParts(Rem(n, SdtLen) + 1)
<1> DEFINE p == Rem(n, SdtLen)
<1>1. /\ air.pos \in 0..Cycle - 1 /\ air.pos \in Int /\ air.missed \in Nat
      /\ air.pos + lost \in Int
  BY CyclePositive DEF ReaderInv
<1>2. n \in Int /\ p \in 0..SdtLen - 1
  BY <1>1, CyclePositive, RemRange
<1>3. PICK k \in 0..SdtLen : sdt.parts = FirstParts(k)
  BY DEF ReaderInv
<1>4. k \in Nat /\ k < SdtLen /\ Len(sdt.parts) = k
  BY <1>3, CyclePositive, PartsLength DEF ReaderInv
<1>5. /\ FirstParts(0) = << >> /\ FirstParts(1) = <<0>>
      /\ Append(FirstParts(k), k) = FirstParts(k + 1)
  BY <1>4, PartsGrow
<1>6. CASE sdt.expect \notin {None, Rem(n, CcMod)}
  BY <1>6, Zenon DEF Gathered, Rem
<1>7. CASE p = 0 /\ sdt.expect \in {None, Rem(n, CcMod)}
  <2>1. Gathered(n) = <<0>>
    BY <1>7, Zenon DEF Gathered, Rem, Part
  <2> QED
    BY <1>5, <1>7, <2>1
<1>8. CASE p # 0 /\ sdt.parts = << >>
  BY <1>8, Zenon DEF Gathered, Rem, Part
<1>9. CASE p # 0 /\ sdt.parts # << >> /\ sdt.expect \in {None, Rem(n, CcMod)}
  <2>1. Gathered(n) = Append(sdt.parts, p)
    BY <1>9, Zenon DEF Gathered, Rem, Part
  <2>2. sdt.expect # None /\ sdt.expect = Rem(n, CcMod) /\ sdt.expect \in Int
    BY <1>9, CyclePositive DEF ReaderInv, None
  <2>3. Rem(sdt.expect + air.missed, CcMod) = Rem(air.pos, CcMod)
    BY <2>2 DEF ReaderInv
  <2>4. air.missed = 0 /\ n = air.pos
    BY <1>1, <2>2, <2>3, ExpectedIsNext
  <2>5. Rem(k + air.missed, SdtLen) = Rem(air.pos, SdtLen)
    BY <1>4, <1>9 DEF ReaderInv
  <2>6. Rem(k, SdtLen) = k
    BY <1>4, CyclePositive, RemSmall
  <2>7. p = k
    BY <1>4, <2>4, <2>5, <2>6
  <2> QED
    BY <1>3, <1>5, <2>1, <2>7
<1> QED
  BY <1>6, <1>7, <1>8, <1>9

\* A packet of the SDT, expected or not, the first of a section or the last.
LEMMA SdtPacketReaderInv ==
  ASSUME ReaderInv, NEW lost \in 0..MaxLoss, NEW table \in {"actual", "other"},
         SdtPacket(lost, table)
  PROVE  ReaderInv'
<1> DEFINE n == Rem(air.pos + lost, Cycle)
           next == Rem(n + 1, Cycle)
<1>1. /\ lost \in Nat /\ air.missed \in Nat /\ air.pos \in Int /\ air.pos + lost \in Int
      /\ None = CcMod
  BY CyclePositive, LossAssumption DEF ReaderInv, None
<1>2. n \in 0..Cycle - 1 /\ n \in Int /\ n + 1 \in Int
  BY <1>1, CyclePositive, RemRange
<1>3. next \in 0..Cycle - 1
  BY <1>2, CyclePositive, RemRange
<1>4. CASE turn = "pat"
  <2>1. /\ air' = [pos |-> next, table |-> table, missed |-> air.missed + lost + 1]
        /\ air.missed + lost + 1 <= MaxLoss
        /\ UNCHANGED <<sdt, find_sdt>>
    BY <1>4 DEF SdtPacket, Rem, Cycle
  <2> HIDE DEF n, next
  <2>2. air' \in [pos : 0..Cycle - 1, table : {"actual", "other"}, missed : 0..MaxLoss]
    BY <1>1, <1>3, <2>1, LossAssumption
  <2>3. ASSUME ~find_sdt, sdt.expect # None
        PROVE  Rem(sdt.expect + (air.missed + lost + 1), CcMod) = Rem(next, CcMod)
    <3>1. Rem(sdt.expect + air.missed, CcMod) = Rem(air.pos, CcMod) /\ sdt.expect \in Nat
      BY <2>3, <1>1, CyclePositive DEF ReaderInv
    <3> DEFINE x == sdt.expect + air.missed
    <3>2. x \in Int /\ CcMod \in Nat \ {0} /\ Rem(x, CcMod) = Rem(air.pos, CcMod)
      BY <1>1, <3>1, CyclePositive
    <3>3. sdt.expect + (air.missed + lost + 1) = x + lost + 1
      BY <1>1, <3>1
    <3> HIDE DEF x
    <3>4. Rem(x + lost + 1, CcMod) = Rem(next, CcMod)
      BY <1>1, <3>2, PositionShifts DEF n, next
    <3> QED
      BY <3>3, <3>4
  <2>4. ASSUME ~find_sdt, sdt.parts # << >>
        PROVE  Rem(Len(sdt.parts) + (air.missed + lost + 1), SdtLen) = Rem(next, SdtLen)
    <3>1. /\ Rem(Len(sdt.parts) + air.missed, SdtLen) = Rem(air.pos, SdtLen)
          /\ Len(sdt.parts) \in Nat
      BY <2>4, CyclePositive, PartsLength DEF ReaderInv
    <3> DEFINE x == Len(sdt.parts) + air.missed
    <3>2. x \in Int /\ SdtLen \in Nat \ {0} /\ Rem(x, SdtLen) = Rem(air.pos, SdtLen)
      BY <1>1, <3>1, CyclePositive
    <3>3. Len(sdt.parts) + (air.missed + lost + 1) = x + lost + 1
      BY <1>1, <3>1
    <3> HIDE DEF x
    <3>4. Rem(x + lost + 1, SdtLen) = Rem(next, SdtLen)
      BY <1>1, <3>2, PositionShifts DEF n, next
    <3> QED
      BY <3>3, <3>4
  <2>5. /\ air'.pos = next /\ air'.missed = air.missed + lost + 1
        /\ sdt' = sdt /\ find_sdt' = find_sdt
    BY <2>1
  <2> QED
    BY <2>2, <2>3, <2>4, <2>5 DEF ReaderInv
<1>5. CASE turn # "pat"
  <2> DEFINE p == Rem(n, SdtLen)
             E == IF sdt.expect \in {None, Rem(n, CcMod)} THEN Rem(n + 1, CcMod) ELSE None
  <2>1. /\ ~find_sdt
        /\ air' = [pos |-> next, table |-> table, missed |-> 0]
        /\ air.missed + lost <= MaxLoss
        /\ sdt' = [expect |-> E, parts |-> Gathered(n), table |-> table]
        /\ find_sdt' = (Len(Gathered(n)) = SdtLen)
    BY <1>1, <1>5 DEF SdtPacket, PsiRead, Called, Expected, Rem, Cycle
  <2>2. /\ air' \in [pos : 0..Cycle - 1, table : {"actual", "other"}, missed : 0..MaxLoss]
        /\ air'.pos = next /\ air'.missed = 0
    BY <1>3, <2>1, LossAssumption
  <2>3. p \in 0..SdtLen - 1
    BY <1>2, CyclePositive, RemRange
  <2>4. Gathered(n) = << >> \/ Gathered(n) = FirstParts(p + 1)
    BY <1>1, <2>1, GatheredParts
  <2>5. Len(FirstParts(p + 1)) = p + 1 /\ FirstParts(0) = << >>
    <3>1. p + 1 \in Nat /\ 0 \in Nat
      BY <2>3, CyclePositive
    <3> HIDE DEF p
    <3> QED
      BY <3>1, PartsLength, PartsGrow
  <2>6. E = None \/ (E \in 0..CcMod - 1 /\ E = Rem(n + 1, CcMod) /\ Rem(E, CcMod) = E)
    BY <1>2, CyclePositive, RemRange, RemSmall
  <2>7. Rem(next, CcMod) = Rem(n + 1, CcMod) /\ Rem(next, SdtLen) = Rem(n + 1, SdtLen)
    BY <1>2, RemOfCycle
  <2>8. Rem(p + 1, SdtLen) = Rem(n + 1, SdtLen)
    <3>1. Rem(p, SdtLen) = Rem(n, SdtLen)
      BY <2>3, CyclePositive, RemSmall
    <3> HIDE DEF n, p
    <3> QED
      BY <1>2, <2>3, <3>1, CyclePositive, RemShift
  <2>9. sdt'.expect = E /\ sdt'.parts = Gathered(n)
    BY <2>1
  <2>10. Gathered(n) = << >> => Len(Gathered(n)) = 0 /\ Gathered(n) = FirstParts(0)
    BY <2>5
  <2> HIDE DEF n, next, p, E
  <2>11. /\ \E k \in 0..SdtLen : sdt'.parts = FirstParts(k)
         /\ find_sdt' => sdt'.parts = FirstParts(SdtLen)
         /\ ~find_sdt' => Len(sdt'.parts) < SdtLen
    <3>a. /\ find_sdt' => Len(Gathered(n)) = SdtLen
          /\ ~find_sdt' => Len(Gathered(n)) # SdtLen
      BY <2>1, Zenon
    <3>1. CASE Gathered(n) = << >>
      BY <3>1, <3>a, <2>9, <2>10, CyclePositive
    <3>2. CASE Gathered(n) = FirstParts(p + 1)
      <4>1. Len(Gathered(n)) = p + 1 /\ p + 1 \in 0..SdtLen
        BY <3>2, <2>3, <2>5, CyclePositive
      <4> QED
        BY <3>2, <3>a, <4>1, <2>9, CyclePositive
    <3> QED
      BY <2>4, <3>1, <3>2
  <2>12. sdt'.expect \in 0..None
    BY <1>1, <2>6, <2>9, CyclePositive
  <2>13. sdt'.expect = None => sdt'.parts = << >>
    <3>1. ASSUME E = None PROVE Gathered(n) = << >>
      <4>1. Rem(n + 1, CcMod) # None
        <5> DEFINE r == Rem(n + 1, CcMod)
        <5>1. r \in 0..CcMod - 1
          BY <1>2, CyclePositive, RemRange
        <5> HIDE DEF r
        <5>2. r # None
          BY <1>1, <5>1, CyclePositive
        <5> QED
          BY <5>2 DEF r
      <4>2. sdt.expect \notin {None, Rem(n, CcMod)}
        BY <3>1, <4>1 DEF E
      <4> QED
        BY <4>2, Zenon DEF Gathered, Rem
    <3> QED
      BY <2>9, <3>1
  <2>14. sdt'.expect # None => Rem(sdt'.expect + 0, CcMod) = Rem(next, CcMod)
    BY <2>6, <2>7, <2>9, CyclePositive
  <2>15. sdt'.parts # << >> => Rem(Len(sdt'.parts) + 0, SdtLen) = Rem(next, SdtLen)
    BY <2>3, <2>4, <2>5, <2>7, <2>8, <2>9
  <2> QED
    BY <2>2, <2>11, <2>12, <2>13, <2>14, <2>15 DEF ReaderInv
<1> QED
  BY <1>4, <1>5

LEMMA NextReaderInv == ReaderInv /\ [Next]_vars => ReaderInv'
<1> SUFFICES ASSUME ReaderInv, [Next]_vars
             PROVE  ReaderInv'
  OBVIOUS
<1>a. ASSUME UNCHANGED <<air, sdt, find_sdt>> PROVE ReaderInv'
  BY <1>a DEF ReaderInv
<1>1. CASE Start
  <2>1. /\ air' = [air EXCEPT !.missed = 0] /\ find_sdt' = FALSE
        /\ sdt'.expect = None /\ sdt'.parts = << >>
    BY <1>1 DEF Start, Fresh
  <2>2. air' \in [pos : 0..Cycle - 1, table : {"actual", "other"}, missed : 0..MaxLoss]
    BY <2>1, LossAssumption DEF ReaderInv
  <2>3. << >> = FirstParts(0) /\ Len(<< >>) = 0
    BY PartsGrow
  <2> QED
    BY <2>1, <2>2, <2>3, CyclePositive DEF ReaderInv, None
<1>2. CASE NoSignal
  BY <1>2, <1>a DEF NoSignal, psiVars
<1>3. CASE PsiTimeout
  BY <1>3, <1>a DEF PsiTimeout, PsiFails, Fail, psiVars
<1>4. CASE PsiSkip
  BY <1>4, <1>a DEF PsiSkip, psiRest
<1>5. CASE PatPacket
  BY <1>5, <1>a DEF PatPacket, psiRest
<1>6. CASE PatCrcError
  BY <1>6, <1>a DEF PatCrcError, PsiFails, Fail, psiVars, psiRest
<1>7. CASE NoPacket
  BY <1>7, <1>a DEF NoPacket, psiRest
<1>8. ASSUME NEW lost \in 0..MaxLoss, NEW table \in {"actual", "other"},
             SdtPacket(lost, table)
      PROVE  ReaderInv'
  BY <1>8, SdtPacketReaderInv
<1>9. CASE PsiParse
  BY <1>9, <1>a DEF PsiParse, psiVars
<1>10. CASE PsiParseFails
  BY <1>10, <1>a DEF PsiParseFails, PsiFails, Fail, psiVars
<1>11. CASE PmtAbandon
  BY <1>11, <1>a DEF PmtAbandon, Fail, psiVars
<1>12. CASE PmtBegin
  BY <1>12, <1>a DEF PmtBegin, psiVars
<1>13. CASE PmtDone
  BY <1>13, <1>a DEF PmtDone, psiVars
<1>14. CASE PmtSection
  BY <1>14, <1>a DEF PmtSection, psiVars
<1>15. CASE PmtTimeout
  BY <1>15, <1>a DEF PmtTimeout, psiVars
<1>16. CASE KeepOrDrop
  BY <1>16, <1>a DEF KeepOrDrop, psiVars
<1>17. CASE Return
  BY <1>17, <1>a DEF Return, psiVars
<1>18. CASE PmtCrcError \/ PmtRefused
  BY <1>18, <1>a DEF PmtCrcError, PmtRefused, vars
<1>19. CASE UNCHANGED vars
  BY <1>19, <1>a DEF vars
<1> QED
  BY <1>1, <1>2, <1>3, <1>4, <1>5, <1>6, <1>7, <1>8, <1>9, <1>10, <1>11, <1>12,
     <1>13, <1>14, <1>15, <1>16, <1>17, <1>18, <1>19
  DEF Next, Step

LEMMA InitReaderInv == Init => ReaderInv
<1> SUFFICES ASSUME Init PROVE ReaderInv
  OBVIOUS
<1>1. /\ air = [pos |-> 0, table |-> "actual", missed |-> 0] /\ find_sdt = FALSE
    /\ sdt.expect = None /\ sdt.parts = << >>
  BY DEF Init, Fresh
<1>2. air \in [pos : 0..Cycle - 1, table : {"actual", "other"}, missed : 0..MaxLoss]
  BY <1>1, LossAssumption, CyclePositive
<1>3. << >> = FirstParts(0) /\ Len(<< >>) = 0
  BY PartsGrow
<1> QED
  BY <1>1, <1>2, <1>3, CyclePositive DEF ReaderInv, None

\* The section parsed as the SDT was sent as one section, though the reader of the PAT
\* takes packets from the same stream and others are lost: a packet with the counter
\* expected is the next one sent, and after any other the reader starts again.
THEOREM SdtAlwaysWhole == Spec => []SdtWhole
<1>1. ReaderInv => SdtWhole
  BY DEF ReaderInv, SdtWhole, FirstParts
<1> QED
  BY InitReaderInv, <1>1, NextReaderInv, PTL DEF Spec

-----------------------------------------------------------------------------
(* The list of services *)

Entries ==
  [id : Services, pmt : PmtPids \cup {PatPid}, pids : Seq({"audio", "video"}),
   scan_error : BOOLEAN]

Plays(e) == Audio(e) /\ Video(e)
PlaysFully(s) == Alone(s) /\ {"audio", "video"} \subseteq Range(mux.streams[s])

\* Service s is in the list with the streams of its PMT, or so that it can be played.
HasStreams(l, s) ==
  \E k \in DOMAIN l : l[k].id = s /\ Range(mux.streams[s]) \subseteq Range(l[k].pids)
IsKept(l, s) == \E k \in DOMAIN l : l[k].id = s /\ Plays(l[k])
AllKept(l, lost) == \A s \in Range(mux.sdt) \ lost : PlaysFully(s) => IsKept(l, s)
PlaysFrom(l, from, to) == \A i \in from..to : Plays(l[i])

ListType ==
  /\ mux \in Muxes /\ list \in Seq(Entries) /\ j \in 0..Len(list)
  /\ phase = "psi" => j = 0
  /\ phase = "section" => j < Len(list)

\* While the PMTs are read the list is the SDT's, and the services passed have the
\* streams of theirs but for the one whose PMT did not come: that is the last one
\* passed.
ReadInv ==
  \/ list = << >>
  \/ /\ Len(list) = Len(mux.sdt)
     /\ \A i \in DOMAIN list :
          list[i].id = mux.sdt[i] /\ list[i].pmt = mux.pmt[mux.sdt[i]]
     /\ \A i \in DOMAIN list : list[i].scan_error => got_error /\ i = j
     /\ \A i \in 1..j :
          ~list[i].scan_error /\ Alone(list[i].id) => HasStreams(list, list[i].id)

\* In the loop that follows, nothing that can be played is missing as long as the
\* service that failed, the last of the SDT, is in the list, and one more behind that.
KeptInv ==
  /\ PlaysFrom(list, 2, j)
  /\ ~got_error => AllKept(list, {}) /\ \A i \in DOMAIN list : ~list[i].scan_error
  /\ got_error =>
       \/ /\ AllKept(list, {Last(mux.sdt)})
          /\ \A i \in DOMAIN list :
               list[i].scan_error => i = Len(list) /\ list[i].id = Last(mux.sdt)
       \/ /\ \E s \in Services : AllKept(list, {Last(mux.sdt), s})
          /\ \A i \in DOMAIN list : ~list[i].scan_error

ListInv ==
  /\ phase \in {"psi", "section"} => ~got_error
  /\ phase \in {"pmt", "section"} => ReadInv
  /\ phase = "filter" => KeptInv
  /\ phase # "idle" => result = NoList
  /\ result # NoList => result = list

\* The list without one service: what was behind it moves up by one.
LEMMA Removed ==
  ASSUME NEW S, NEW l \in Seq(S), NEW n \in 0..Len(l) - 1
  PROVE  /\ Without(l, n) \in Seq(S) /\ Len(Without(l, n)) = Len(l) - 1
         /\ \A k \in 1..Len(l) - 1 :
              Without(l, n)[k] = IF k <= n THEN l[k] ELSE l[k + 1]
<1> DEFINE a == SubSeq(l, 1, (n + 1) - 1)  b == SubSeq(l, n + 1 + 1, Len(l))
<1>1. Len(l) \in Nat /\ n \in Nat /\ n + 1 <= Len(l) /\ \A i \in 1..Len(l) : l[i] \in S
  BY LenProperties, ElementOfSeq
<1>2. /\ a \in Seq(S) /\ Len(a) = n /\ \A i \in 1..n : a[i] = l[i]
  <2> DEFINE m == (n + 1) - 1
  <2>1. 1 \in Int /\ m \in Int /\ m = n /\ \A i \in 1..m : l[i] \in S
    BY <1>1
  <2> HIDE DEF m
  <2>2. /\ a \in Seq(S) /\ Len(a) = (IF 1 <= m THEN m - 1 + 1 ELSE 0)
        /\ \A i \in 1..m - 1 + 1 : a[i] = l[1 + i - 1]
    BY <2>1, SubSeqProperties DEF m
  <2> QED
    BY <1>1, <2>2
<1>3. /\ b \in Seq(S) /\ Len(b) = Len(l) - n - 1 /\ \A i \in 1..Len(l) - n - 1 : b[i] = l[n + 1 + i]
  <2> DEFINE m == n + 1 + 1
  <2>1. m \in Int /\ Len(l) \in Int /\ m = n + 2 /\ \A i \in m..Len(l) : l[i] \in S
    BY <1>1
  <2> HIDE DEF m
  <2>2. /\ b \in Seq(S) /\ Len(b) = (IF m <= Len(l) THEN Len(l) - m + 1 ELSE 0)
        /\ \A i \in 1..Len(l) - m + 1 : b[i] = l[m + i - 1]
    BY <2>1, SubSeqProperties DEF m
  <2> QED
    BY <1>1, <2>2
<1>4. Without(l, n) = a \o b
  <2>1. n < Len(l)
    BY <1>1
  <2>2. Without(l, n) = RemoveAt(l, n + 1)
    BY <2>1, Zenon DEF Without
  <2> QED
    BY <2>2, Zenon DEF RemoveAt, a, b
<1> HIDE DEF a, b
<1>5. /\ a \o b \in Seq(S) /\ Len(a \o b) = Len(l) - 1
      /\ \A i \in 1..Len(l) - 1 : (a \o b)[i] = IF i <= n THEN a[i] ELSE b[i - n]
  <2>1. /\ a \o b \in Seq(S) /\ Len(a \o b) = Len(a) + Len(b)
        /\ \A i \in 1..Len(a) + Len(b) : (a \o b)[i] = IF i <= Len(a) THEN a[i] ELSE b[i - Len(a)]
    BY <1>2, <1>3, ConcatProperties
  <2>2. Len(a) = n /\ Len(a) + Len(b) = Len(l) - 1
    BY <1>1, <1>2, <1>3
  <2> QED
    BY <2>1, <2>2
<1>6. ASSUME NEW k \in 1..Len(l) - 1
      PROVE  (a \o b)[k] = IF k <= n THEN l[k] ELSE l[k + 1]
  BY <1>1, <1>2, <1>3, <1>5
<1> QED
  BY <1>4, <1>5, <1>6

\* A service is still kept when another, or one that cannot be played, is removed.
LEMMA KeptWithout ==
  ASSUME NEW l \in Seq(Entries), NEW n \in 0..Len(l) - 1, NEW s, IsKept(l, s),
         ~Plays(l[n + 1]) \/ l[n + 1].id # s
  PROVE  IsKept(Without(l, n), s)
<1> DEFINE once == Without(l, n)
<1>1. /\ once \in Seq(Entries) /\ Len(once) = Len(l) - 1
      /\ \A k \in 1..Len(l) - 1 : once[k] = IF k <= n THEN l[k] ELSE l[k + 1]
  BY Removed
<1> HIDE DEF once
<1>2. /\ DOMAIN once = 1..Len(l) - 1 /\ DOMAIN l = 1..Len(l) /\ Len(l) \in Nat
      /\ n \in Nat
  BY <1>1, LenProperties
<1>3. PICK k \in DOMAIN l : l[k].id = s /\ Plays(l[k])
  BY DEF IsKept
<1>4. k # n + 1
  BY <1>3
<1>5. CASE k <= n
  <2>1. k \in DOMAIN once /\ once[k] = l[k]
    BY <1>1, <1>2, <1>3, <1>5
  <2> QED
    BY <1>3, <2>1 DEF IsKept, once
<1>6. CASE k > n + 1
  <2>1. k - 1 \in DOMAIN once /\ once[k - 1] = l[k]
    BY <1>1, <1>2, <1>3, <1>6
  <2> QED
    BY <1>3, <2>1 DEF IsKept, once
<1> QED
  BY <1>2, <1>4, <1>5, <1>6

LEMMA MinOfTwo ==
  ASSUME NEW x \in Int, NEW y \in Int
  PROVE  Min({x, y}) = IF x <= y THEN x ELSE y
BY DEF Min

\* The streams of a PMT are added to one entry, and nothing else changes.
LEMMA StreamsAdded ==
  ASSUME ListType, NEW i \in DOMAIN list, NEW s \in Services, WithStreams(i, s)
  PROVE  /\ list' \in Seq(Entries) /\ Len(list') = Len(list) /\ DOMAIN list' = DOMAIN list
         /\ \A k \in DOMAIN list :
              /\ list'[k].id = list[k].id /\ list'[k].pmt = list[k].pmt
              /\ list'[k].scan_error = list[k].scan_error
              /\ Range(list[k].pids) \subseteq Range(list'[k].pids)
         /\ Range(mux.streams[s]) \subseteq Range(list'[i].pids)
<1> DEFINE more == list[i].pids \o mux.streams[s]
           e == [list[i] EXCEPT !.pids = more]
<1>1. /\ DOMAIN list = 1..Len(list) /\ list[i] \in Entries
      /\ \A k \in DOMAIN list : list[k] \in Entries
  BY LenProperties, ElementOfSeq DEF ListType
<1>2. /\ list[i].pids \in Seq({"audio", "video"})
      /\ mux.streams[s] \in Seq({"audio", "video"})
  BY <1>1, MuxAssumption DEF Entries, ListType
<1>3. /\ more \in Seq({"audio", "video"})
      /\ Range(more) = Range(list[i].pids) \cup Range(mux.streams[s])
  BY <1>2, ConcatProperties, RangeConcatenation
<1>4. list' = [list EXCEPT ![i] = e]
  BY DEF WithStreams
<1> HIDE DEF more
<1>5. /\ e \in Entries /\ e.id = list[i].id /\ e.pmt = list[i].pmt
      /\ e.scan_error = list[i].scan_error /\ e.pids = more
  BY <1>1, <1>3 DEF Entries
<1> HIDE DEF e
<1>6. /\ list' \in Seq(Entries) /\ Len(list') = Len(list)
      /\ \A k \in 1..Len(list) : list'[k] = IF k = i THEN e ELSE list[k]
  BY <1>1, <1>4, <1>5, ExceptSeq DEF ListType
<1>7. DOMAIN list' = DOMAIN list
  BY <1>1, <1>6, LenProperties
<1> QED
  BY <1>1, <1>3, <1>5, <1>6, <1>7

\* The list made from the SDT and the PAT.
LEMMA ParsedList ==
  ASSUME ListType, mux.sdt \in Seq(Services)
  PROVE  LET l == [i \in DOMAIN mux.sdt |->
                    [Entry(mux.sdt[i]) EXCEPT !.pmt = mux.pmt[mux.sdt[i]]]]
         IN  /\ l \in Seq(Entries) /\ Len(l) = Len(mux.sdt) /\ DOMAIN l = DOMAIN mux.sdt
             /\ \A i \in DOMAIN l : /\ l[i].id = mux.sdt[i] /\ ~l[i].scan_error
                                     /\ l[i].pmt = mux.pmt[mux.sdt[i]]
<1> DEFINE e(i) == [Entry(mux.sdt[i]) EXCEPT !.pmt = mux.pmt[mux.sdt[i]]]
           l == [i \in DOMAIN mux.sdt |-> e(i)]
<1>1. /\ DOMAIN mux.sdt = 1..Len(mux.sdt) /\ Len(mux.sdt) \in Nat
      /\ \A i \in DOMAIN mux.sdt : mux.sdt[i] \in Services
  BY LenProperties, ElementOfSeq
<1>2. mux.pmt \in [Services -> PmtPids \cup {PatPid}]
  BY MuxAssumption DEF ListType
<1>3. ASSUME NEW i \in DOMAIN mux.sdt
      PROVE  /\ e(i) \in Entries /\ e(i).id = mux.sdt[i] /\ ~e(i).scan_error
             /\ e(i).pmt = mux.pmt[mux.sdt[i]]
  <2> DEFINE f == Entry(mux.sdt[i])
  <2>1. f \in Entries /\ f.id = mux.sdt[i] /\ ~f.scan_error
    BY <1>1 DEF Entry, Entries
  <2> HIDE DEF f
  <2>2. e(i) = [f EXCEPT !.pmt = mux.pmt[mux.sdt[i]]]
    BY DEF f
  <2> HIDE DEF e
  <2> QED
    BY <1>1, <1>2, <2>1, <2>2 DEF Entries
<1> HIDE DEF e
<1>4. l \in [1..Len(mux.sdt) -> Entries]
  BY <1>1, <1>3
<1>5. l \in Seq(Entries) /\ Len(l) = Len(mux.sdt) /\ DOMAIN l = DOMAIN mux.sdt
  BY <1>1, <1>4
<1> QED
  BY <1>3, <1>5 DEF e

\* Nothing is claimed of an empty list.
LEMMA StartOver ==
  ASSUME mux' \in Muxes, list' = << >>, j' = 0, result' = NoList,
         phase' \in {"idle", "psi"}, phase' = "psi" => ~got_error'
  PROVE  ListType' /\ ListInv'
BY DEF ListType, ListInv

LEMMA ListUntouched ==
  ASSUME ListType, ListInv, UNCHANGED <<mux, phase, list, j, got_error, result>>
  PROVE  ListType' /\ ListInv'
<1>1. ReadInv' <=> ReadInv
  BY DEF ReadInv, HasStreams, Alone
<1>2. KeptInv' <=> KeptInv
  BY DEF KeptInv, AllKept, PlaysFrom, PlaysFully, Alone
<1>3. ListType'
  BY DEF ListType
<1> QED
  BY <1>1, <1>2, <1>3 DEF ListInv

LEMMA PsiParseList ==
  ASSUME ListType, ListInv, PsiParse
  PROVE  ListType' /\ ListInv'
<1>1. mux.sdt \in Seq(Services)
  BY MuxAssumption DEF ListType
<1>2. /\ mux' = mux /\ phase = "psi" /\ phase' = "pmt" /\ j' = 0 /\ result' = NoList
      /\ ~got_error'
  BY DEF PsiParse, psiVars, ListType, ListInv
<1>3. \/ list' = << >>
      \/ /\ list' \in Seq(Entries) /\ Len(list') = Len(mux.sdt)
         /\ \A i \in DOMAIN list' : /\ list'[i].id = mux.sdt[i] /\ ~list'[i].scan_error
                                    /\ list'[i].pmt = mux.pmt[mux.sdt[i]]
  BY <1>1, ParsedList DEF PsiParse
<1>4. list' \in Seq(Entries) /\ Len(list') \in Nat
      /\ \A i \in DOMAIN list' : ~list'[i].scan_error
  <2>1. CASE list' = << >>
    BY <2>1
  <2>2. CASE list' # << >>
    BY <1>3, <2>2, LenProperties
  <2> QED
    BY <2>1, <2>2
<1>5. ListType'
  BY <1>2, <1>4 DEF ListType
<1>6. ReadInv'
  BY <1>2, <1>3, <1>4 DEF ReadInv
<1> QED
  BY <1>2, <1>5, <1>6 DEF ListInv

LEMMA PmtSectionList ==
  ASSUME ListType, ListInv, PmtSection
  PROVE  ListType' /\ ListInv'
<1>1. /\ mux' = mux /\ phase = "section" /\ phase' = "pmt" /\ j' = j + 1
      /\ result' = NoList /\ ~got_error /\ ~got_error' /\ ReadInv
      /\ j < Len(list) /\ j \in Nat /\ Len(list) \in Nat /\ DOMAIN list = 1..Len(list)
  BY LenProperties DEF PmtSection, psiVars, ListType, ListInv
<1>2. list # << >> /\ j + 1 \in DOMAIN list
  BY <1>1
<1>3. /\ Len(list) = Len(mux.sdt)
      /\ \A i \in DOMAIN list : list[i].id = mux.sdt[i] /\ list[i].pmt = mux.pmt[mux.sdt[i]]
      /\ \A i \in DOMAIN list : ~list[i].scan_error
      /\ \A i \in 1..j : Alone(list[i].id) => HasStreams(list, list[i].id)
  BY <1>1, <1>2 DEF ReadInv
<1> DEFINE Grown ==
             /\ list' \in Seq(Entries) /\ Len(list') = Len(list) /\ DOMAIN list' = DOMAIN list
             /\ \A k \in DOMAIN list :
                  /\ list'[k].id = list[k].id /\ list'[k].pmt = list[k].pmt
                  /\ list'[k].scan_error = list[k].scan_error
                  /\ Range(list[k].pids) \subseteq Range(list'[k].pids)
<1>4. Grown /\ (Alone(list[j + 1].id) => HasStreams(list', list[j + 1].id))
  <2>1. CASE list[j + 1].pmt = PatPid /\ UNCHANGED list
    BY <1>2, <1>3, <2>1 DEF Alone, ListType
  <2>2. ASSUME NEW s \in Services, mux.pmt[s] = list[j + 1].pmt, mux.pmt[s] # PatPid,
               \A i \in DOMAIN list : list[i].id # s, UNCHANGED list
        PROVE  Grown /\ (Alone(list[j + 1].id) => HasStreams(list', list[j + 1].id))
    BY <1>2, <1>3, <2>2 DEF Alone, ListType
  <2>3. ASSUME NEW s \in Services, mux.pmt[s] = list[j + 1].pmt, mux.pmt[s] # PatPid,
               NEW i \in DOMAIN list, list[i].id = s, WithStreams(i, s)
        PROVE  Grown /\ (Alone(list[j + 1].id) => HasStreams(list', list[j + 1].id))
    <3>1. Grown /\ Range(mux.streams[s]) \subseteq Range(list'[i].pids)
      BY <2>3, StreamsAdded
    <3>2. Alone(list[j + 1].id) => s = list[j + 1].id
      BY <1>2, <1>3, <2>3 DEF Alone
    <3> QED
      BY <1>1, <2>3, <3>1, <3>2 DEF HasStreams
  <2> QED
    BY <2>1, <2>2, <2>3 DEF PmtSection, PmtParsed
<1>5. ASSUME NEW s, HasStreams(list, s) PROVE HasStreams(list', s)
  BY <1>1, <1>4, <1>5 DEF HasStreams
<1>6. ListType'
  BY <1>1, <1>4 DEF ListType
<1>7. ASSUME NEW i \in 1..j + 1, Alone(list[i].id)
      PROVE  HasStreams(list', list[i].id)
  <2>1. CASE i = j + 1
    BY <1>4, <1>7, <2>1
  <2>2. CASE i \in 1..j
    BY <1>3, <1>5, <1>7, <2>2
  <2> QED
    BY <1>1, <2>1, <2>2
<1>8. \A i \in 1..j + 1 : i \in DOMAIN list /\ list'[i].id = list[i].id
  BY <1>1, <1>4
<1>9. \A i \in 1..j + 1 : Alone(list'[i].id) => HasStreams(list', list'[i].id)
  BY <1>7, <1>8
<1>10. \A i \in DOMAIN list' : ~list'[i].scan_error
  BY <1>3, <1>4
<1> HIDE DEF Grown
<1>11. \A i \in 1..j' : Alone(list[i].id)' => HasStreams(list, list[i].id)'
  BY <1>1, <1>9 DEF Alone, HasStreams
<1>12. /\ Len(list') = Len(mux'.sdt)
       /\ \A i \in DOMAIN list' :
            list'[i].id = mux'.sdt[i] /\ list'[i].pmt = mux'.pmt[mux'.sdt[i]]
  BY <1>1, <1>3, <1>4 DEF Grown
<1>13. ReadInv'
  BY <1>10, <1>11, <1>12 DEF ReadInv
<1> QED
  BY <1>1, <1>6, <1>13 DEF ListInv

LEMMA PmtTimeoutList ==
  ASSUME ListType, ListInv, PmtTimeout
  PROVE  ListType' /\ ListInv'
<1>1. /\ mux' = mux /\ phase = "section" /\ phase' = "pmt" /\ j' = j + 1
      /\ result' = NoList /\ ~got_error /\ got_error' = TRUE /\ ReadInv
      /\ j < Len(list) /\ j \in Nat /\ Len(list) \in Nat /\ DOMAIN list = 1..Len(list)
  BY LenProperties DEF PmtTimeout, psiVars, ListType, ListInv
<1>2. /\ Len(list) = Len(mux.sdt) /\ j + 1 \in DOMAIN list
      /\ \A i \in DOMAIN list : list[i].id = mux.sdt[i] /\ list[i].pmt = mux.pmt[mux.sdt[i]]
      /\ \A i \in DOMAIN list : ~list[i].scan_error
      /\ \A i \in 1..j : Alone(list[i].id) => HasStreams(list, list[i].id)
  BY <1>1 DEF ReadInv
<1> DEFINE e == [list[j + 1] EXCEPT !.scan_error = TRUE]
<1>3. list[j + 1] \in Entries
  BY <1>1, <1>2, ElementOfSeq DEF ListType
<1>4. e \in Entries /\ e.id = list[j + 1].id /\ e.pmt = list[j + 1].pmt
      /\ e.pids = list[j + 1].pids /\ e.scan_error
  BY <1>3 DEF Entries
<1>5. list' = [list EXCEPT ![j + 1] = e]
  BY DEF PmtTimeout
<1> HIDE DEF e
<1>6. /\ list' \in Seq(Entries) /\ Len(list') = Len(list) /\ DOMAIN list' = DOMAIN list
      /\ \A k \in DOMAIN list : list'[k] = IF k = j + 1 THEN e ELSE list[k]
  BY <1>1, <1>2, <1>4, <1>5, ExceptSeq, LenProperties DEF ListType
<1>7. ListType'
  BY <1>1, <1>6 DEF ListType
<1>8. \A k \in DOMAIN list :
        /\ list'[k].id = list[k].id /\ list'[k].pmt = list[k].pmt
        /\ list'[k].pids = list[k].pids /\ (list'[k].scan_error => k = j + 1)
  BY <1>2, <1>4, <1>6
<1>9. \A s : HasStreams(list, s) => HasStreams(list', s)
  BY <1>1, <1>6, <1>8 DEF HasStreams
<1>10. ASSUME NEW i \in 1..j', ~list'[i].scan_error, Alone(list[i].id)'
       PROVE  HasStreams(list, list[i].id)'
  <2>1. i \in 1..j /\ i \in DOMAIN list
    BY <1>1, <1>4, <1>6, <1>10
  <2>2. Alone(list[i].id)
    BY <1>1, <1>8, <1>10, <2>1 DEF Alone
  <2>3. HasStreams(list', list'[i].id)
    BY <1>2, <1>8, <1>9, <2>1, <2>2
  <2> QED
    BY <1>1, <2>3 DEF HasStreams
<1>11. ReadInv'
  BY <1>1, <1>2, <1>6, <1>8, <1>10 DEF ReadInv
<1> QED
  BY <1>1, <1>7, <1>11 DEF ListInv

LEMMA PmtDoneList ==
  ASSUME ListType, ListInv, PmtDone
  PROVE  ListType' /\ ListInv'
<1>1. /\ mux' = mux /\ phase = "pmt" /\ list' = list /\ j' = 0 /\ result' = NoList
      /\ got_error' = got_error /\ phase' \in {"idle", "filter"} /\ ReadInv
      /\ phase' = "filter" => list # << >>
  BY DEF PmtDone, psiVars, ListType, ListInv
<1>2. j = Len(list) /\ Len(list) \in Nat /\ DOMAIN list = 1..Len(list)
  BY LenProperties DEF PmtDone, ListType
<1>3. ListType'
  BY <1>1, <1>2 DEF ListType
<1>4. CASE phase' = "idle"
  BY <1>1, <1>3, <1>4 DEF ListInv
<1>5. CASE phase' = "filter"
  <2>1. /\ Len(list) = Len(mux.sdt) /\ \A i \in DOMAIN list : list[i].id = mux.sdt[i]
        /\ \A i \in DOMAIN list : list[i].scan_error => got_error /\ i = Len(list)
        /\ \A i \in DOMAIN list :
             ~list[i].scan_error /\ Alone(list[i].id) => HasStreams(list, list[i].id)
    BY <1>1, <1>2, <1>5 DEF ReadInv
  <2>2. /\ mux.sdt \in Seq(Services) /\ DOMAIN mux.sdt = DOMAIN list
        /\ \A i \in DOMAIN list : i = Len(list) => list[i].id = Last(mux.sdt)
    <3>1. mux.sdt \in Seq(Services)
      BY MuxAssumption DEF ListType
    <3> QED
      BY <1>2, <2>1, <3>1, LenProperties DEF Last
  <2>3. ASSUME NEW i \in DOMAIN list, ~list[i].scan_error, PlaysFully(mux.sdt[i])
        PROVE  IsKept(list, mux.sdt[i])
    <3>1. PICK k \in DOMAIN list :
            /\ list[k].id = mux.sdt[i]
            /\ Range(mux.streams[mux.sdt[i]]) \subseteq Range(list[k].pids)
      BY <2>1, <2>3 DEF PlaysFully, HasStreams
    <3>2. "audio" \in Range(list[k].pids) /\ "video" \in Range(list[k].pids)
      BY <2>3, <3>1 DEF PlaysFully
    <3>3. Plays(list[k])
      BY <3>2 DEF Plays, Audio, Video, Range
    <3> QED
      BY <3>1, <3>3 DEF IsKept
  <2>4. ~got_error => AllKept(list, {})
    <3> SUFFICES ASSUME ~got_error, NEW s \in Range(mux.sdt), PlaysFully(s)
                 PROVE  IsKept(list, s)
      BY DEF AllKept
    <3>1. PICK i \in DOMAIN mux.sdt : mux.sdt[i] = s
      BY DEF Range
    <3> QED
      BY <2>1, <2>2, <2>3, <3>1
  <2>5. AllKept(list, {Last(mux.sdt)})
    <3> SUFFICES ASSUME NEW s \in Range(mux.sdt), s # Last(mux.sdt), PlaysFully(s)
                 PROVE  IsKept(list, s)
      BY DEF AllKept
    <3>1. PICK i \in DOMAIN mux.sdt : mux.sdt[i] = s
      BY DEF Range
    <3>2. i \in DOMAIN list /\ ~list[i].scan_error
      BY <2>1, <2>2, <3>1
    <3> QED
      BY <2>3, <3>1, <3>2
  <2>6. PlaysFrom(list', 2, j')
    BY <1>1 DEF PlaysFrom
  <2>7. \A lost : AllKept(list, lost) => AllKept(list, lost)'
    BY <1>1 DEF AllKept, PlaysFully, Alone
  <2>8. ~got_error' => AllKept(list, {})' /\ \A i \in DOMAIN list' : ~list'[i].scan_error
    BY <1>1, <2>1, <2>4, <2>7
  <2>9. got_error' =>
          /\ AllKept(list, {Last(mux.sdt)})'
          /\ \A i \in DOMAIN list' :
               list'[i].scan_error => i = Len(list') /\ list'[i].id = Last(mux'.sdt)
    BY <1>1, <2>1, <2>2, <2>5, <2>7
  <2>10. KeptInv'
    BY <2>6, <2>8, <2>9 DEF KeptInv, AllKept, PlaysFully, Alone
  <2> QED
    BY <1>1, <1>3, <1>5, <2>10 DEF ListInv
<1> QED
  BY <1>1, <1>4, <1>5

LEMMA KeepOrDropList ==
  ASSUME ListType, ListInv, KeepOrDrop
  PROVE  ListType' /\ ListInv'
<1>1. /\ mux' = mux /\ phase = "filter" /\ phase' = "filter" /\ result' = NoList
      /\ got_error' = got_error /\ j < Len(list) /\ j \in Nat /\ Len(list) \in Nat
      /\ list \in Seq(Entries) /\ DOMAIN list = 1..Len(list) /\ j \in 0..Len(list) - 1
      /\ j + 1 \in DOMAIN list /\ KeptInv
  <2>1. mux' = mux /\ phase = "filter" /\ phase' = "filter" /\ got_error' = got_error /\ j < Len(list)
    BY DEF KeepOrDrop, psiVars
  <2>2. result' = NoList
    BY <2>1 DEF KeepOrDrop, psiVars, ListInv
  <2>3. KeptInv
    BY <2>1 DEF ListInv
  <2>4. list \in Seq(Entries) /\ j \in 0..Len(list)
    BY DEF ListType
  <2>5. Len(list) \in Nat /\ DOMAIN list = 1..Len(list)
    BY <2>4, LenProperties
  <2>6. j \in Nat /\ j \in 0..Len(list) - 1 /\ j + 1 \in 1..Len(list)
    BY <2>1, <2>4, <2>5
  <2> QED
    BY <2>1, <2>2, <2>3, <2>4, <2>5, <2>6
<1> DEFINE once == Without(list, j)
<1>2. /\ once \in Seq(Entries) /\ Len(once) = Len(list) - 1 /\ Len(once) \in Nat
      /\ DOMAIN once = 1..Len(list) - 1
      /\ \A k \in 1..Len(list) - 1 : once[k] = IF k <= j THEN list[k] ELSE list[k + 1]
  <2>1. /\ once \in Seq(Entries) /\ Len(once) = Len(list) - 1
        /\ \A k \in 1..Len(list) - 1 : once[k] = IF k <= j THEN list[k] ELSE list[k + 1]
    BY <1>1, Removed
  <2> HIDE DEF once
  <2>2. DOMAIN once = 1..Len(once) /\ Len(once) \in Nat
    BY <2>1, LenProperties
  <2> QED
    BY <2>1, <2>2
<1>3. ASSUME NEW s, ~Plays(list[j + 1]) \/ list[j + 1].id # s, IsKept(list, s)
      PROVE  IsKept(once, s)
  BY <1>1, <1>3, KeptWithout
<1> HIDE DEF once
<1>4. \A k \in DOMAIN once : \E i \in DOMAIN list :
        once[k] = list[i] /\ i # j + 1 /\ i \in {k, k + 1}
  <2> SUFFICES ASSUME NEW k \in DOMAIN once
               PROVE  \E i \in DOMAIN list :
                        once[k] = list[i] /\ i # j + 1 /\ i \in {k, k + 1}
    OBVIOUS
  <2>1. CASE k <= j
    BY <1>1, <1>2, <2>1
  <2>2. CASE ~(k <= j)
    <3>1. k + 1 \in DOMAIN list /\ k + 1 # j + 1 /\ once[k] = list[k + 1]
      BY <1>1, <1>2, <2>2
    <3> QED
      BY <3>1
  <2> QED
    BY <2>1, <2>2
<1>5. ASSUME NEW l \in Seq(Entries), j' = Min({AfterRemoval, Len(l)})
      PROVE  j' \in 0..Len(l) /\ PlaysFrom(l, 2, j')
  <2>1. Len(l) \in Nat /\ 1 \in Int /\ Len(l) \in Int
    BY LenProperties
  <2>2. j' = IF 1 <= Len(l) THEN 1 ELSE Len(l)
    BY <1>5, <2>1, MinOfTwo DEF AfterRemoval
  <2> QED
    BY <2>1, <2>2 DEF PlaysFrom
<1>6. \A l, lost : AllKept(l, lost)' <=> AllKept(l, lost)
  BY <1>1 DEF AllKept, PlaysFully, Alone
<1>7. CASE list[j + 1].scan_error
  <2>1. list' \in {once, Without(once, 0)} /\ j' = Min({AfterRemoval, Len(list')})
    BY <1>7, Zenon DEF KeepOrDrop, once
  <2>2. \A k \in DOMAIN once : ~once[k].scan_error
    BY <1>1, <1>2, <1>4, <1>7 DEF KeptInv
  <2>3. got_error /\ AllKept(list, {Last(mux.sdt)}) /\ list[j + 1].id = Last(mux.sdt)
    BY <1>1, <1>7 DEF KeptInv
  <2>4. AllKept(once, {Last(mux.sdt)})
    BY <1>3, <2>3 DEF AllKept
  <2>5. CASE list' = once
    <3>1. j' \in 0..Len(list') /\ PlaysFrom(list', 2, j')
      BY <1>2, <1>5, <2>1, <2>5
    <3>2. AllKept(list, {Last(mux.sdt)})'
      BY <1>1, <2>4, <2>5 DEF AllKept, PlaysFully, Alone
    <3>3. KeptInv'
      BY <1>1, <2>2, <2>3, <2>5, <3>1, <3>2 DEF KeptInv, PlaysFrom
    <3> QED
      BY <1>1, <1>2, <2>5, <3>1, <3>3 DEF ListInv, ListType
  <2>6. CASE Len(once) = 0
    <3>1. ~(0 < Len(once))
      BY <2>6
    <3>2. Without(once, 0) = once
      BY <3>1, Zenon DEF Without
    <3> QED
      BY <2>1, <2>5, <3>2
  <2>7. CASE list' = Without(once, 0) /\ Len(once) # 0
    <3> DEFINE twice == Without(once, 0)
    <3>1. 0 \in 0..Len(once) - 1 /\ 1 \in DOMAIN once /\ once[1] \in Entries
      BY <1>2, <2>7, ElementOfSeq
    <3>2. /\ twice \in Seq(Entries) /\ Len(twice) = Len(once) - 1
          /\ \A k \in 1..Len(once) - 1 : twice[k] = IF k <= 0 THEN once[k] ELSE once[k + 1]
      BY <1>2, <3>1, Removed
    <3>3. ASSUME NEW s, once[1].id # s, IsKept(once, s)
          PROVE  IsKept(twice, s)
      <4>1. once[0 + 1].id # s
        BY <3>3
      <4> QED
        BY <1>2, <3>1, <3>3, <4>1, KeptWithout
    <3> HIDE DEF twice
    <3>4. once[1].id \in Services
      BY <3>1 DEF Entries
    <3>5. AllKept(twice, {Last(mux.sdt), once[1].id})
      BY <2>4, <3>3 DEF AllKept
    <3>6. list' = twice
      BY <2>7 DEF twice
    <3>7. j' \in 0..Len(list') /\ PlaysFrom(list', 2, j')
      BY <1>5, <2>1, <3>2, <3>6
    <3>8. \E s \in Services : AllKept(list, {Last(mux.sdt), s})'
      BY <1>1, <3>4, <3>5, <3>6 DEF AllKept, PlaysFully, Alone
    <3>9. \A k \in DOMAIN list' : ~list'[k].scan_error
      <4>1. DOMAIN twice = 1..Len(once) - 1
        BY <3>2, LenProperties
      <4> QED
        BY <1>2, <2>2, <3>2, <3>6, <4>1
    <3>10. KeptInv'
      BY <1>1, <2>3, <3>7, <3>8, <3>9 DEF KeptInv, PlaysFrom
    <3> QED
      BY <1>1, <3>2, <3>6, <3>7, <3>10 DEF ListInv, ListType
  <2> QED
    BY <2>1, <2>5, <2>6, <2>7
<1>8. CASE ~list[j + 1].scan_error /\ Plays(list[j + 1])
  <2>1. list' = list /\ j' = j + 1
    BY <1>8 DEF KeepOrDrop, Plays
  <2>2. PlaysFrom(list', 2, j')
    BY <1>1, <1>8, <2>1 DEF PlaysFrom, KeptInv
  <2>3. KeptInv'
    BY <1>1, <2>1, <2>2 DEF KeptInv, AllKept, PlaysFully, Alone, PlaysFrom
  <2>4. ListType'
    BY <1>1, <2>1 DEF ListType
  <2> QED
    BY <1>1, <2>3, <2>4 DEF ListInv
<1>9. CASE ~list[j + 1].scan_error /\ ~Plays(list[j + 1])
  <2>1. list' = once /\ j' = Min({AfterRemoval, Len(once)})
    BY <1>9 DEF KeepOrDrop, Plays, once
  <2>2. j' \in 0..Len(list') /\ PlaysFrom(list', 2, j')
    BY <1>2, <1>5, <2>1
  <2>3. \A lost : AllKept(list, lost) => AllKept(once, lost)
    BY <1>3, <1>9 DEF AllKept
  <2>4. \A lost : AllKept(list, lost) => AllKept(list, lost)'
    BY <1>1, <2>1, <2>3 DEF AllKept, PlaysFully, Alone
  <2>5. (\A i \in DOMAIN list : ~list[i].scan_error)
          => (\A i \in DOMAIN list' : ~list'[i].scan_error)
    BY <1>4, <2>1
  <2>6. (\A i \in DOMAIN list :
           list[i].scan_error => i = Len(list) /\ list[i].id = Last(mux.sdt))
          => (\A i \in DOMAIN list' :
                list'[i].scan_error => i = Len(list') /\ list'[i].id = Last(mux.sdt))
    BY <1>1, <1>2, <1>4, <2>1
  <2>7. KeptInv'
    BY <1>1, <2>2, <2>4, <2>5, <2>6 DEF KeptInv, PlaysFrom
  <2> QED
    BY <1>1, <1>2, <2>1, <2>2, <2>7 DEF ListInv, ListType
<1> QED
  BY <1>7, <1>8, <1>9

LEMMA ReturnList ==
  ASSUME ListType, ListInv, Return
  PROVE  ListType' /\ ListInv'
<1>1. /\ mux' = mux /\ phase = "filter" /\ phase' = "idle" /\ list' = list /\ j' = j
      /\ result' # NoList => result' = list
  BY DEF Return, psiVars
<1> QED
  BY <1>1 DEF ListInv, ListType

LEMMA PmtBeginList ==
  ASSUME ListType, ListInv, PmtBegin
  PROVE  ListType' /\ ListInv'
<1>1. /\ UNCHANGED <<mux, list, j, got_error, result>> /\ phase = "pmt" /\ phase' = "section"
      /\ j < Len(list) /\ ~got_error
  BY DEF PmtBegin, psiVars
<1>2. ReadInv'
  BY <1>1 DEF ListInv, ReadInv, HasStreams, Alone
<1>3. ListType'
  BY <1>1 DEF ListType
<1> QED
  BY <1>1, <1>2, <1>3 DEF ListInv

LEMMA NextListInv == ListType /\ ListInv /\ [Next]_vars => ListType' /\ ListInv'
<1> SUFFICES ASSUME ListType, ListInv, [Next]_vars
             PROVE  ListType' /\ ListInv'
  OBVIOUS
<1>a. ASSUME Fail({}) \/ PsiFails, UNCHANGED mux PROVE ListType' /\ ListInv'
  BY <1>a, StartOver DEF PsiFails, Fail, ListType
<1>1. CASE Start
  BY <1>1, StartOver DEF Start
<1>2. CASE NoSignal
  BY <1>2, StartOver DEF NoSignal, psiVars, ListType
<1>3. CASE PsiTimeout
  BY <1>3, <1>a DEF PsiTimeout, PsiFails, psiVars
<1>4. CASE PsiSkip
  BY <1>4, ListUntouched DEF psiRest, PsiSkip
<1>5. CASE PatPacket
  BY <1>5, ListUntouched DEF psiRest, PatPacket
<1>6. CASE PatCrcError
  <2>1. CASE PsiFails
    BY <1>a, <2>1 DEF PsiFails, psiVars
  <2>2. CASE UNCHANGED psiRest
    BY <2>2, ListUntouched DEF psiRest
  <2> QED
    BY <1>6, <2>1, <2>2 DEF PatCrcError
<1>7. CASE NoPacket
  BY <1>7, ListUntouched DEF psiRest, NoPacket
<1>8. ASSUME NEW lost \in 0..MaxLoss, NEW table \in {"actual", "other"},
             SdtPacket(lost, table)
      PROVE  ListType' /\ ListInv'
  BY <1>8, ListUntouched DEF SdtPacket, psiRest
<1>9. CASE PsiParse
  BY <1>9, PsiParseList
<1>10. CASE PsiParseFails
  BY <1>10, <1>a DEF PsiParseFails, PsiFails, psiVars
<1>11. CASE PmtAbandon
  BY <1>11, StartOver DEF PmtAbandon, Fail, psiVars, ListType
<1>12. CASE PmtBegin
  BY <1>12, PmtBeginList
<1>13. CASE PmtDone
  BY <1>13, PmtDoneList
<1>14. CASE PmtSection
  BY <1>14, PmtSectionList
<1>15. CASE PmtTimeout
  BY <1>15, PmtTimeoutList
<1>16. CASE KeepOrDrop
  BY <1>16, KeepOrDropList
<1>17. CASE Return
  BY <1>17, ReturnList
<1>18. CASE PmtCrcError \/ PmtRefused
  BY <1>18, ListUntouched DEF PmtCrcError, PmtRefused, vars
<1>19. CASE UNCHANGED vars
  BY <1>19, ListUntouched DEF vars
<1> QED
  BY <1>1, <1>2, <1>3, <1>4, <1>5, <1>6, <1>7, <1>8, <1>9, <1>10, <1>11, <1>12,
     <1>13, <1>14, <1>15, <1>16, <1>17, <1>18, <1>19
  DEF Next, Step

\* When the loop of DTV_Scan ends, the list has every service with a PMT of its own
\* that carries audio and video, if every PMT came; if the last did not, its service
\* is missing and at most one other.  All its services but the first have both,
\* whatever was removed: after each removal the loop looks at the rest again.
THEOREM ListAlwaysPlayable == Spec => []PlayableList
<1>1. Init => ListType /\ ListInv
  BY DEF Init, ListType, ListInv
<1>2. ListType /\ ListInv => PlayableList
  <2> SUFFICES ASSUME ListType, ListInv, LoopOver
               PROVE  PlayableList
    BY DEF PlayableList, PlayableKept, RestPlayable
  <2>1. KeptInv /\ j = Len(list)
    BY LenProperties DEF ListInv, ListType, LoopOver
  <2>2. ASSUME NEW lost, AllKept(list, lost)
        PROVE  Missing \subseteq lost
    BY <2>2 DEF Missing, AllKept, PlaysFully, IsKept
  <2>3. ~got_error => Missing = {}
    BY <2>1, <2>2 DEF KeptInv
  <2>4. got_error => \A s, t \in Missing \ {Last(mux.sdt)} : s = t
    BY <2>1, <2>2 DEF KeptInv
  <2>5. RestPlayable
    BY <2>1 DEF RestPlayable, KeptInv, PlaysFrom, Plays
  <2> QED
    BY <2>3, <2>4, <2>5 DEF PlayableList, PlayableKept
<1> QED
  BY <1>1, <1>2, NextListInv, PTL DEF Spec

-----------------------------------------------------------------------------
(* Types *)

\* The part of the type invariant that the invariants above do not give.
RestType ==
  /\ phase \in Phases /\ is_scanning \in BOOLEAN
  /\ filter \subseteq PmtPids \cup {PatPid, SdtPid}
  /\ turn \in {"pat", "sdt"} /\ find_pat \in BOOLEAN /\ find_sdt \in BOOLEAN
  /\ retry \in 0..3 /\ sdt.table \in {"actual", "other"} /\ got_error \in BOOLEAN

LEMMA NextRestType == ListType /\ RestType /\ [Next]_vars => RestType'
<1> SUFFICES ASSUME ListType, RestType, [Next]_vars
             PROVE  RestType'
  OBVIOUS
<1> USE DEF RestType, Phases, psiVars, psiRest
<1>1. CASE Start
  <2>1. sdt'.table = "actual"
    BY <1>1 DEF Start, Fresh
  <2>2. /\ phase' = "psi" /\ is_scanning' = TRUE /\ filter' = {SdtPid, PatPid}
        /\ turn' = "pat" /\ find_pat' = FALSE /\ find_sdt' = FALSE /\ retry' = 3
        /\ got_error' = FALSE
    BY <1>1 DEF Start
  <2>3. /\ phase' \in Phases /\ filter' \subseteq PmtPids \cup {PatPid, SdtPid}
        /\ turn' \in {"pat", "sdt"} /\ retry' \in 0..3
    BY <2>2
  <2>4. /\ is_scanning' \in BOOLEAN /\ find_pat' \in BOOLEAN /\ find_sdt' \in BOOLEAN
        /\ got_error' \in BOOLEAN
    BY <2>2, Zenon
  <2> QED
    BY <2>1, <2>3, <2>4
<1>2. CASE NoSignal
  BY <1>2 DEF NoSignal
<1>3. CASE PsiTimeout
  BY <1>3 DEF PsiTimeout, PsiFails, Fail
<1>4. CASE PsiSkip
  BY <1>4 DEF PsiSkip, OtherTurn
<1>5. CASE PatPacket
  BY <1>5 DEF PatPacket, OtherTurn, PsiRead
<1>6. CASE PatCrcError
  <2>1. CASE retry = 0
    BY <1>6, <2>1 DEF PatCrcError, PsiFails, Fail, PsiRead
  <2>2. CASE retry # 0
    <3>1. /\ retry' = retry - 1 /\ turn' = OtherTurn
          /\ UNCHANGED <<filter, find_pat, find_sdt, air, sdt, psiRest>>
      BY <1>6, <2>2 DEF PatCrcError
    <3>2. retry' \in 0..3 /\ turn' \in {"pat", "sdt"}
      BY <2>2, <3>1 DEF OtherTurn
    <3> QED
      BY <3>1, <3>2
  <2> QED
    BY <2>1, <2>2
<1>7. CASE NoPacket
  BY <1>7 DEF NoPacket, OtherTurn, PsiRead
<1>8. ASSUME NEW lost \in 0..MaxLoss, NEW table \in {"actual", "other"},
             SdtPacket(lost, table)
      PROVE  RestType'
  <2>1. UNCHANGED sdt \/ sdt'.table = table
    BY <1>8 DEF SdtPacket
  <2>2. UNCHANGED find_sdt \/ find_sdt' \in BOOLEAN
    BY <1>8, Zenon DEF SdtPacket
  <2>3. /\ UNCHANGED <<find_pat, retry, psiRest>> /\ filter' \subseteq filter
        /\ turn' \in {"pat", "sdt"}
    BY <1>8 DEF SdtPacket, OtherTurn
  <2> QED
    BY <2>1, <2>2, <2>3
<1>9. CASE PsiParse
  BY <1>9 DEF PsiParse
<1>10. CASE PsiParseFails
  BY <1>10 DEF PsiParseFails, PsiFails, Fail
<1>11. CASE PmtAbandon
  BY <1>11 DEF PmtAbandon, Fail
<1>12. CASE PmtBegin
  <2>1. j + 1 \in 1..Len(list)
    BY <1>12, LenProperties DEF PmtBegin, ListType
  <2>2. list[j + 1] \in Entries
    BY <2>1, ElementOfSeq DEF ListType
  <2> QED
    BY <1>12, <2>2 DEF PmtBegin, Entries
<1>13. CASE PmtDone
  BY <1>13 DEF PmtDone
<1>14. CASE PmtSection
  BY <1>14 DEF PmtSection
<1>15. CASE PmtTimeout
  BY <1>15 DEF PmtTimeout
<1>16. CASE KeepOrDrop
  BY <1>16 DEF KeepOrDrop
<1>17. CASE Return
  BY <1>17 DEF Return
<1>18. CASE PmtCrcError \/ PmtRefused
  BY <1>18 DEF PmtCrcError, PmtRefused, vars
<1>19. CASE UNCHANGED vars
  BY <1>19 DEF vars
<1> QED
  BY <1>1, <1>2, <1>3, <1>4, <1>5, <1>6, <1>7, <1>8, <1>9, <1>10, <1>11, <1>12,
     <1>13, <1>14, <1>15, <1>16, <1>17, <1>18, <1>19
  DEF Next, Step

\* Every variable stays in its domain: no PID but those of the tables is ever loaded,
\* the retries of the PAT do not become negative, the index of the loops is one of the
\* list or its end, and what a scan returned is its list or NULL.
THEOREM TypeCorrect == Spec => []TypeOK
<1>1. Init => RestType /\ ReaderInv /\ ListType /\ ListInv
  <2> SUFFICES ASSUME Init
               PROVE  RestType /\ ReaderInv /\ ListType /\ ListInv
    OBVIOUS
  <2>1. sdt.table = "actual"
    BY DEF Init, Fresh
  <2>2. RestType
    <3>1. /\ phase \in Phases /\ filter \subseteq PmtPids \cup {PatPid, SdtPid}
          /\ turn \in {"pat", "sdt"} /\ retry \in 0..3
      BY DEF Init, Phases
    <3>2. /\ is_scanning \in BOOLEAN /\ find_pat \in BOOLEAN /\ find_sdt \in BOOLEAN
          /\ got_error \in BOOLEAN
      BY Zenon DEF Init
    <3> QED
      BY <2>1, <3>1, <3>2 DEF RestType
  <2>3. ListType /\ ListInv
    BY DEF Init, ListType, ListInv
  <2> QED
    BY <2>2, <2>3, InitReaderInv
<1>2. RestType /\ ReaderInv /\ ListType /\ ListInv => TypeOK
  <2> SUFFICES ASSUME RestType, ReaderInv, ListType, ListInv
               PROVE  TypeOK
    OBVIOUS
  <2>1. PICK k \in 0..SdtLen : sdt.parts = FirstParts(k)
    BY DEF ReaderInv
  <2>2. sdt.parts \in [1..k -> 0..SdtLen - 1]
    BY <2>1, LossAssumption DEF FirstParts
  <2>3. sdt.parts \in BoundedSeq(0..SdtLen - 1, SdtLen)
    BY <2>2 DEF BoundedSeq, SeqOf
  <2>4. \A i \in DOMAIN list : list[i].id \in Services
    <3> SUFFICES ASSUME NEW i \in DOMAIN list
                 PROVE  list[i].id \in Services
      OBVIOUS
    <3>1. list[i] \in Entries
      BY LenProperties, ElementOfSeq DEF ListType
    <3> QED
      BY <3>1 DEF Entries
  <2>5. air \in [pos : 0..(SdtLen * CcMod) - 1, table : {"actual", "other"}, missed : 0..MaxLoss]
    BY DEF ReaderInv, Cycle
  <2>6. sdt.expect \in 0..None /\ (result = NoList \/ result = list)
    BY DEF ReaderInv, ListInv
  <2> QED
    BY <2>3, <2>4, <2>5, <2>6 DEF TypeOK, RestType, ListType
<1> QED
  BY <1>1, <1>2, NextRestType, NextReaderInv, NextListInv, PTL DEF Spec
=============================================================================
