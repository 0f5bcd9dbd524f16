------------------------------ MODULE ScanProofs ------------------------------
(***************************************************************************)
(* The two scans of a value.  validate_host: its positions stay in the     *)
(* value, the port within 16 bits, and it accepts and hands back exactly   *)
(* what is a host.  The charset of a content type: the one found is the    *)
(* first there is.  Both for values of any length short of the address     *)
(* space.                                                                  *)
(***************************************************************************)
EXTENDS ValidateHost, ContentType, SequenceTheorems, WellFoundedInduction, TLAPS

\* What the comparisons with a position less one find is a position, even where
\* the subtraction wraps around.
LEMMA NameLenInValue ==
    ASSUME TypeOK PROVE NameLen \in 0 .. Len(host)
  BY DEF NameLen, TrailingDot, TypeOK

\* The test before the multiplication keeps the port within 16 bits.
LEMMA PortFits ==
    ASSUME NEW n \in 0 .. MaxPort, NEW digit \in Nat, digit <= 9, ~TooBig(digit), n = port
    PROVE  n * 10 + digit \in 0 .. MaxPort
  <1>1. n \in Nat /\ n <= 65535
    BY SMT DEF MaxPort
  <1>2. n < 6553 \/ (n = 6553 /\ digit <= 5)
    BY <1>1, SMT DEF TooBig
  <1>3. n * 10 + digit \in Nat
    BY <1>1, SMT
  <1>4. n * 10 + digit <= 65535
    <2>1. CASE n < 6553
      BY <1>1, <2>1, SMT
    <2>2. CASE n = 6553 /\ digit <= 5
      BY <2>2, SMT
    <2> QED
      BY <1>2, <2>1, <2>2
  <1> DEFINE q == n * 10 + digit
  <1>5. q \in Nat /\ q <= MaxPort
    BY <1>3, <1>4 DEF MaxPort
  <1> HIDE DEF q
  <1>6. q \in 0 .. MaxPort
    <2>1. MaxPort \in Nat
      BY SMT DEF MaxPort
    <2> QED
      BY <1>5, <2>1, SMT
  <1> QED
    BY <1>6 DEF q

\* Zero is a port.
LEMMA ZeroFits == 0 \in 0 .. MaxPort
  BY SMT DEF MaxPort

LEMMA LoweredIsValue ==
    ASSUME NEW s \in Seq(Char) PROVE Lowered(s) \in Seq(Char)
  <1>1. \A k \in DOMAIN s : Lowered(s)[k] \in Char
    BY ClassAssumption DEF Lowered
  <1>2. Lowered(s) = [k \in 1 .. Len(s) |-> Lowered(s)[k]]
    BY DEF Lowered
  <1>3. Len(s) \in Nat /\ DOMAIN s = 1 .. Len(s)
    OBVIOUS
  <1> DEFINE low == Lowered(s)
  <1>4. low = [k \in 1 .. Len(s) |-> low[k]] /\ \A k \in 1 .. Len(s) : low[k] \in Char
    BY <1>1, <1>2, <1>3
  <1> HIDE DEF low
  <1>5. low \in [1 .. Len(s) -> Char]
    BY <1>4
  <1>6. low \in Seq(Char)
    BY <1>3, <1>5, SeqDef
  <1> QED
    BY <1>6 DEF low

LEMMA FreshValue ==
    ASSUME NEW given \in Seq(Char), Len(given) < SIZE - 1,
           NEW what \in {"idle", "scanning"}, Begin(given, what)
    PROVE  TypeOK'
  <1>1. Len(given) \in Nat
    OBVIOUS
  <1>2. /\ host' = given /\ i' = 0 /\ dot_pos' = Len(given) /\ host_len' = Len(given)
        /\ port' = 0 /\ alloc' = FALSE /\ state' = "start" /\ rc' = what
        /\ server' = << >>
    BY DEF Begin
  <1>3. i' \in 0 .. Len(host') /\ dot_pos' \in 0 .. Len(host') /\ host_len' \in 0 .. Len(host')
    BY <1>1, <1>2
  <1>4. server' \in Seq(Char)
    BY <1>2
  <1>5. port' \in 0 .. MaxPort
    BY <1>2, ZeroFits
  <1> QED
    BY <1>2, <1>3, <1>4, <1>5 DEF TypeOK

\* Steps of the scan on a character other than a dot and a digit of the port.
LEMMA ScanTypes ==
    ASSUME TypeOK,
           OpenLiteral \/ Plain \/ UpperCase \/ EndOfName \/ CloseLiteral
              \/ EndOfLiteral \/ Unexpected
    PROVE  TypeOK'
  <1>1. i \in Nat /\ i <= Len(host) /\ Len(host) \in Nat
    BY DEF TypeOK
  <1>2. CASE OpenLiteral \/ Plain \/ UpperCase \/ EndOfLiteral
    <2>1. i < Len(host) /\ i' = i + 1 /\ host' = host /\ rc' = rc /\ server' = server
      BY <1>2 DEF OpenLiteral, Plain, UpperCase, EndOfLiteral, InHost, Scanning, Advance
    <2>2. dot_pos' = dot_pos /\ host_len' = host_len /\ port' = port /\ alloc' \in {alloc, TRUE}
      BY <1>2 DEF OpenLiteral, Plain, UpperCase, EndOfLiteral
    <2>3. state' \in {"literal", "name", "port", state}
      BY <1>2 DEF OpenLiteral, Plain, UpperCase, EndOfLiteral, Entered
    <2>4. i' \in 0 .. Len(host)
      BY <1>1, <2>1
    <2> QED
      BY <2>1, <2>2, <2>3, <2>4 DEF TypeOK
  <1>3. CASE EndOfName \/ CloseLiteral
    <2>1. i < Len(host) /\ i' = i + 1 /\ host' = host /\ rc' = rc /\ server' = server
      BY <1>3 DEF EndOfName, CloseLiteral, InHost, Scanning, Advance
    <2>2. dot_pos' = dot_pos /\ host_len' \in {i, i + 1} /\ port' = port /\ alloc' = alloc
      BY <1>3 DEF EndOfName, CloseLiteral
    <2>3. state' \in {"end", "port"}
      BY <1>3 DEF EndOfName, CloseLiteral
    <2>4. i' \in 0 .. Len(host) /\ host_len' \in 0 .. Len(host)
      BY <1>1, <2>1, <2>2
    <2> QED
      BY <2>1, <2>2, <2>3, <2>4 DEF TypeOK
  <1>4. CASE Unexpected
    BY <1>4 DEF Unexpected, Decline, TypeOK
  <1> QED
    BY <1>2, <1>3, <1>4

LEMMA DotTypes ==
    ASSUME TypeOK, Dot PROVE TypeOK'
  <1>1. i \in Nat /\ Len(host) \in Nat /\ i < Len(host)
    BY DEF TypeOK, Dot, InHost, Scanning
  <1>2. i \in 0 .. Len(host) /\ i + 1 \in 0 .. Len(host)
    BY <1>1
  <1>3. CASE DoubleDot
    BY <1>3 DEF Dot, Decline, TypeOK
  <1>4. CASE ~DoubleDot
    <2>1. /\ dot_pos' = i /\ i' = i + 1 /\ state' \in {"name", state}
          /\ UNCHANGED <<host, rc, server, host_len, port, alloc>>
      BY <1>4 DEF Dot, Advance, Entered
    <2> QED
      BY <1>2, <2>1 DEF TypeOK
  <1> QED
    BY <1>3, <1>4

LEMMA PortTypes ==
    ASSUME TypeOK, PortDigit PROVE TypeOK'
  <1>1. i \in Nat /\ Len(host) \in Nat /\ i < Len(host)
    BY DEF TypeOK, PortDigit, Scanning
  <1>2. i + 1 \in 0 .. Len(host)
    BY <1>1
  <1>3. CASE TooBig(Digit[ch])
    BY <1>3 DEF PortDigit, Decline, TypeOK
  <1>4. CASE ~TooBig(Digit[ch])
    <2>1. Digit[ch] \in 0 .. 9
      BY DigitAssumption DEF PortDigit
    <2>2. Digit[ch] \in Nat /\ Digit[ch] <= 9
      BY <2>1
    <2>3. port \in 0 .. MaxPort
      BY DEF TypeOK
    <2>4. port * 10 + Digit[ch] \in 0 .. MaxPort
      BY <1>4, <2>2, <2>3, PortFits
    <2>5. /\ port' = port * 10 + Digit[ch] /\ i' = i + 1
          /\ UNCHANGED <<host, rc, server, dot_pos, host_len, alloc, state>>
      BY <1>4 DEF PortDigit, Advance
    <2>6. port' \in 0 .. MaxPort
      BY <2>4, <2>5
    <2> QED
      BY <1>2, <2>5, <2>6 DEF TypeOK
  <1> QED
    BY <1>3, <1>4

LEMMA FinishTypes ==
    ASSUME TypeOK, NEW answer \in {"ok", "declined", "error"}, NEW name \in Seq(Char),
           Finish(answer, name)
    PROVE  TypeOK'
  <1>1. NameLen \in 0 .. Len(host)
    BY NameLenInValue
  <1>2. /\ host_len' = NameLen /\ rc' = answer /\ server' = name
        /\ UNCHANGED <<host, i, dot_pos, port, alloc, state>>
    BY DEF Finish
  <1> QED
    BY <1>1, <1>2 DEF TypeOK

LEMMA StepTypes ==
    ASSUME TypeOK, [HostNext]_host_vars PROVE TypeOK'
  <1>1. CASE Call
    <2>1. PICK given \in Hosts : Begin(given, "scanning")
      BY <1>1 DEF Call
    <2>2. given \in Seq(Char) /\ Len(given) < SIZE - 1
      BY HostsAssumption
    <2> QED
      BY <2>1, <2>2, FreshValue
  <1>2. CASE Return
    <2>1. << >> \in Seq(Char) /\ Len(<< >>) < SIZE - 1
      BY SizeAssumption
    <2> QED
      BY <1>2, <2>1, FreshValue DEF Return
  <1>3. CASE Scan
    BY <1>3, ScanTypes, DotTypes, PortTypes DEF Scan
  <1>4. CASE Unclosed
    BY <1>4 DEF Unclosed, Decline, TypeOK
  <1>5. CASE NoName \/ NoMemory
    <2>1. server \in Seq(Char)
      BY DEF TypeOK
    <2> QED
      BY <1>5, <2>1, FinishTypes DEF NoName, NoMemory
  <1>6. CASE AcceptHost
    <2> DEFINE name == SubSeq(host, 1, NameLen)
    <2>1. name \in Seq(Char)
      BY NameLenInValue DEF TypeOK
    <2>2. Lowered(name) \in Seq(Char)
      BY <2>1, LoweredIsValue
    <2>3. Finish("ok", IF alloc THEN Lowered(name) ELSE name)
      BY <1>6 DEF AcceptHost
    <2>4. (IF alloc THEN Lowered(name) ELSE name) \in Seq(Char)
      BY <2>1, <2>2
    <2> HIDE DEF name
    <2> QED
      BY <2>3, <2>4, FinishTypes
  <1>7. CASE UNCHANGED host_vars
    BY <1>7 DEF host_vars, TypeOK
  <1> QED
    BY <1>1, <1>2, <1>3, <1>4, <1>5, <1>6, <1>7 DEF HostNext

\* For values of any length: every position the code keeps lies in the value, no
\* comparison with a position less one is fooled by a size_t that wrapped around
\* into copying more than the value, and no port exceeds 65535.
THEOREM PositionsInValue == HostSpec => []TypeOK
  <1>1. HostInit => TypeOK
    <2> SUFFICES ASSUME HostInit PROVE TypeOK
      OBVIOUS
    <2>1. Len(host) = 0 /\ host \in Seq(Char) /\ server \in Seq(Char)
      BY DEF HostInit
    <2>2. 0 \in 0 .. Len(host) /\ Len(host) < SIZE - 1
      BY <2>1, SizeAssumption
    <2> QED
      BY <2>1, <2>2, ZeroFits DEF HostInit, TypeOK
  <1> QED
    BY <1>1, StepTypes, PTL DEF HostSpec

-----------------------------------------------------------------------------
\* The port's number.

\* A set of numbers has a least one.
LEMMA Least ==
    ASSUME NEW S \in SUBSET Nat, S /= {}
    PROVE  \E m \in S : \A k \in S : m <= k
<1> DEFINE R == OpToRel(<, Nat)
<1>1. IsWellFoundedOn(R, Nat)
  BY NatLessThanWellFounded
<1>2. \A x, y \in Nat : x < y => <<x, y>> \in R
  BY DEF OpToRel
<1> HIDE DEF R
<1>3. PICK m \in S : \A k \in S : ~(<<k, m>> \in R)
  BY <1>1, WFMin
<1>4. \A k \in S : m <= k
  <2> SUFFICES ASSUME NEW k \in S PROVE m <= k
    OBVIOUS
  <2>1. m \in Nat /\ k \in Nat /\ ~(k < m)
    BY <1>2, <1>3
  <2> QED BY <2>1
<1> QED BY <1>4

\* The function Number computes with: what the first k digits say.
Totals(s) == CHOOSE f : f = [k \in 0 .. Len(s) |-> IF k = 0 THEN 0 ELSE 10 * f[k - 1] + Digit[s[k]]]

\* What Number makes of it.
LEMMA NumberIs == ASSUME NEW s PROVE Number(s) = Totals(s)[Len(s)]
  BY Zenon DEF Number, Totals

\* f reads the first n digits of s.
IsTotals(f, s, n) == f = [k \in 0 .. n |-> IF k = 0 THEN 0 ELSE 10 * f[k - 1] + Digit[s[k]]]

\* There is such a function for every n.
LEMMA TotalsTo ==
    ASSUME NEW s, NEW n \in Nat
    PROVE  \E f : IsTotals(f, s, n)
<1> DEFINE Bad == {k \in Nat : ~ \E f : IsTotals(f, s, k)}
<1> SUFFICES ASSUME Bad /= {} PROVE FALSE
  OBVIOUS
<1>1. PICK m \in Bad : \A k \in Bad : m <= k
  BY Least
<1>2. m \in Nat /\ ~ \E f : IsTotals(f, s, m)
  OBVIOUS
<1>3. m /= 0
  <2>1. IsTotals([k \in 0 .. 0 |-> 0], s, 0)
    BY DEF IsTotals
  <2> QED BY <1>2, <2>1
<1>4. m - 1 \in Nat /\ m - 1 \notin Bad
  BY <1>1, <1>2, <1>3
<1>5. PICK g : IsTotals(g, s, m - 1)
  BY <1>4
<1> DEFINE h == [k \in 0 .. m |-> IF k = m THEN 10 * g[m - 1] + Digit[s[m]] ELSE g[k]]
<1>6. \A k \in 0 .. m - 1 : h[k] = g[k]
  BY <1>2
<1>7. \A k \in 0 .. m : h[k] = IF k = 0 THEN 0 ELSE 10 * h[k - 1] + Digit[s[k]]
  <2> SUFFICES ASSUME NEW k \in 0 .. m
               PROVE  h[k] = IF k = 0 THEN 0 ELSE 10 * h[k - 1] + Digit[s[k]]
    OBVIOUS
  <2>1. CASE k = 0
    <3>1. k \in 0 .. m - 1 /\ g[k] = 0
      BY <1>3, <1>4, <1>5, <2>1 DEF IsTotals
    <3> QED BY <1>6, <2>1, <3>1
  <2>2. CASE k /= 0 /\ k = m
    <3>1. m - 1 \in 0 .. m - 1 /\ h[m - 1] = g[m - 1]
      BY <1>4, <1>6
    <3> QED BY <2>2, <3>1
  <2>3. CASE k /= 0 /\ k /= m
    <3>1. k \in 0 .. m - 1 /\ k - 1 \in 0 .. m - 1
      BY <1>2, <2>3
    <3>2. g[k] = 10 * g[k - 1] + Digit[s[k]]
      BY <1>5, <2>3, <3>1 DEF IsTotals
    <3> QED BY <1>6, <2>3, <3>1, <3>2
  <2> QED BY <2>1, <2>2, <2>3
<1>8. IsTotals(h, s, m)
  BY <1>7 DEF IsTotals
<1> QED BY <1>2, <1>8

\* So the recursion holds of the chosen one.
LEMMA TotalsAre ==
    ASSUME NEW s, Len(s) \in Nat
    PROVE  \A k \in 0 .. Len(s) :
              Totals(s)[k] = IF k = 0 THEN 0 ELSE 10 * Totals(s)[k - 1] + Digit[s[k]]
<1>1. \E f : IsTotals(f, s, Len(s))
  BY TotalsTo
<1>2. Totals(s) = CHOOSE f : IsTotals(f, s, Len(s))
  BY DEF IsTotals, Totals
<1>3. IsTotals(Totals(s), s, Len(s))
  BY <1>1, <1>2
<1> QED BY <1>3 DEF IsTotals

\* A digit says a number.
LEMMA DigitIsNat == ASSUME NEW c \in Digits PROVE Digit[c] \in Nat
  BY DigitAssumption

\* After each digit there is a number.
LEMMA TotalsType ==
    ASSUME NEW s, Len(s) \in Nat, \A k \in 1 .. Len(s) : s[k] \in Digits
    PROVE  \A k \in 0 .. Len(s) : Totals(s)[k] \in Nat
<1> DEFINE Bad == {k \in 0 .. Len(s) : Totals(s)[k] \notin Nat}
<1> SUFFICES ASSUME Bad /= {} PROVE FALSE
  OBVIOUS
<1>0. Bad \in SUBSET Nat
  OBVIOUS
<1>1. PICK m \in Bad : \A k \in Bad : m <= k
  BY <1>0, Least
<1>2. m \in 0 .. Len(s)
  OBVIOUS
<1>3. m /= 0
  BY <1>1, <1>2, TotalsAre
<1>4. m - 1 \in 0 .. Len(s) /\ m - 1 \notin Bad /\ m \in 1 .. Len(s)
  BY <1>0, <1>1, <1>2, <1>3
<1>5. Totals(s)[m - 1] \in Nat /\ Digit[s[m]] \in Nat
  BY <1>4, DigitIsNat
<1>6. Totals(s)[m] = 10 * Totals(s)[m - 1] + Digit[s[m]]
  BY <1>2, <1>3, TotalsAre
<1>7. Totals(s)[m] \in Nat
  BY <1>5, <1>6
<1> QED BY <1>1, <1>7

\* What the first digits say depends on them only.
LEMMA TotalsAgree ==
    ASSUME NEW s, NEW t, Len(s) \in Nat, Len(t) \in Nat, Len(s) <= Len(t),
           \A k \in 1 .. Len(s) : s[k] = t[k]
    PROVE  Totals(s)[Len(s)] = Totals(t)[Len(s)]
<1> DEFINE Bad == {k \in 0 .. Len(s) : Totals(s)[k] /= Totals(t)[k]}
<1> SUFFICES ASSUME Bad /= {} PROVE FALSE
  BY Len(s) \in 0 .. Len(s)
<1>0. Bad \in SUBSET Nat
  OBVIOUS
<1>1. PICK m \in Bad : \A k \in Bad : m <= k
  BY <1>0, Least
<1>2. m \in 0 .. Len(s) /\ m \in 0 .. Len(t)
  OBVIOUS
<1>3. /\ Totals(s)[m] = IF m = 0 THEN 0 ELSE 10 * Totals(s)[m - 1] + Digit[s[m]]
      /\ Totals(t)[m] = IF m = 0 THEN 0 ELSE 10 * Totals(t)[m - 1] + Digit[t[m]]
  BY <1>2, TotalsAre
<1>4. m /= 0
  BY <1>1, <1>3
<1>5. m - 1 \in 0 .. Len(s) /\ m - 1 \notin Bad /\ s[m] = t[m]
  BY <1>1, <1>2, <1>4
<1>6. Totals(s)[m - 1] = Totals(t)[m - 1]
  BY <1>5
<1>7. Totals(s)[m] = Totals(t)[m]
  BY <1>3, <1>4, <1>5, <1>6
<1> QED BY <1>1, <1>7

\* Digits only.
AllDigits(s) == Len(s) \in Nat /\ \A k \in 1 .. Len(s) : s[k] \in Digits

\* Digits say a number.
LEMMA NumberType ==
    ASSUME NEW s, AllDigits(s) PROVE Number(s) \in Nat
<1>1. Len(s) \in 0 .. Len(s)
  BY DEF AllDigits
<1> QED BY <1>1, NumberIs, TotalsType DEF AllDigits

\* No digits say zero.
LEMMA NumberNone ==
    ASSUME NEW s, Len(s) = 0 PROVE Number(s) = 0
<1>1. Len(s) \in Nat /\ 0 \in 0 .. Len(s)
  OBVIOUS
<1>2. Totals(s)[0] = 0
  BY <1>1, TotalsAre
<1> QED BY <1>2, NumberIs

\* t begins with s.
Begins(s, t) == Len(s) <= Len(t) /\ \A k \in 1 .. Len(s) : s[k] = t[k]

\* One digit more.
LEMMA NumberOneMore ==
    ASSUME NEW s, NEW t, AllDigits(s), AllDigits(t), Begins(s, t), Len(t) = Len(s) + 1
    PROVE  Number(t) = 10 * Number(s) + Digit[t[Len(t)]]
<1>1. Totals(s)[Len(s)] = Totals(t)[Len(s)]
  BY TotalsAgree DEF AllDigits, Begins
<1>2. Len(t) \in 0 .. Len(t) /\ Len(t) /= 0 /\ Len(t) - 1 = Len(s)
  BY DEF AllDigits
<1>3. Totals(t)[Len(t)] = 10 * Totals(t)[Len(t) - 1] + Digit[t[Len(t)]]
  BY <1>2, TotalsAre DEF AllDigits
<1> QED BY <1>1, <1>2, <1>3, NumberIs

\* Further digits say no less.
LEMMA NumberGrows ==
    ASSUME NEW s, NEW t, AllDigits(s), AllDigits(t), Begins(s, t)
    PROVE  Number(s) <= Number(t)
<1>0. Totals(s)[Len(s)] = Totals(t)[Len(s)]
  BY TotalsAgree DEF AllDigits, Begins
<1> DEFINE least == Totals(t)[Len(s)]
           Bad == {k \in Len(s) .. Len(t) : ~(least <= Totals(t)[k])}
<1>1. \A k \in 0 .. Len(t) : Totals(t)[k] \in Nat
  BY TotalsType DEF AllDigits
<1>2. Len(s) \in Nat /\ Len(t) \in Nat /\ Len(s) \in 0 .. Len(t) /\ Len(t) \in 0 .. Len(t)
  BY DEF AllDigits, Begins
<1>3. least \in Nat
  BY <1>1, <1>2
<1>4. Bad = {}
  <2> SUFFICES ASSUME Bad /= {} PROVE FALSE
    OBVIOUS
  <2>0. Bad \in SUBSET Nat
    BY <1>2
  <2>1. PICK m \in Bad : \A k \in Bad : m <= k
    BY <2>0, Least
  <2>2. m \in Len(s) .. Len(t) /\ ~(least <= Totals(t)[m])
    BY <2>1
  <2>3. m /= Len(s)
    BY <1>3, <2>2
  <2>4. m - 1 \in Len(s) .. Len(t) /\ m - 1 \notin Bad
    BY <1>2, <2>1, <2>2, <2>3
  <2>5. least <= Totals(t)[m - 1] /\ Totals(t)[m - 1] \in Nat
    BY <1>1, <1>2, <2>4
  <2>6. m \in 1 .. Len(t) /\ m \in 0 .. Len(t) /\ m /= 0
    BY <1>2, <2>2, <2>3
  <2>7. Totals(t)[m] = 10 * Totals(t)[m - 1] + Digit[t[m]]
    BY <1>2, <2>6, TotalsAre
  <2>8. Digit[t[m]] \in Nat
    BY <2>6, DigitIsNat DEF AllDigits
  <2> DEFINE v == Totals(t)[m - 1]
             d == Digit[t[m]]
  <2>9. v \in Nat /\ d \in Nat /\ Totals(t)[m] = 10 * v + d /\ least <= v
    BY <2>5, <2>7, <2>8
  <2> HIDE DEF v, d, least
  <2> QED BY <1>3, <2>2, <2>9
<1>5. least <= Totals(t)[Len(t)]
  <2>1. Len(t) \in Len(s) .. Len(t)
    BY <1>2
  <2> QED BY <1>4, <2>1
<1> QED BY <1>0, <1>5, NumberIs

\* Two readings of the same digits.
LEMMA NumberSame ==
    ASSUME NEW s, NEW t, AllDigits(s), AllDigits(t), Begins(s, t), Len(s) = Len(t)
    PROVE  Number(s) = Number(t)
<1>1. Totals(s)[Len(s)] = Totals(t)[Len(s)]
  BY TotalsAgree DEF AllDigits, Begins
<1> QED BY <1>1, NumberIs

-----------------------------------------------------------------------------
\* What a value can be read as.

\* A piece of a value.
LEMMA Cut ==
    ASSUME NEW s \in Seq(Char), NEW a \in 1 .. Len(s) + 1, NEW b \in a - 1 .. Len(s)
    PROVE  /\ SubSeq(s, a, b) \in Seq(Char)
           /\ Len(SubSeq(s, a, b)) = b - a + 1
           /\ \A j \in 1 .. b - a + 1 : SubSeq(s, a, b)[j] = s[a + j - 1]
<1>1. Len(s) \in Nat /\ a \in Int /\ b \in Int /\ \A j \in a .. b : s[j] \in Char
  OBVIOUS
<1> QED BY <1>1, SubSeqProperties

\* The classes of characters.
LEMMA Classes ==
    /\ Digits \subseteq Ordinary
    /\ Upper \subseteq Ordinary
    /\ {":", ".", "%", "[", "]"} \cap Ordinary = {}
  BY ClassAssumption DEF Ordinary

\* s begins with n characters of a name.
NameTo(s, n) == \A j \in 1 .. n : s[j] \in Ordinary \cup {".", "%"}

\* The first n characters of s have no dot behind a dot.
NoDots(s, n) == \A j \in 1 .. n - 1 : ~(s[j] = "." /\ s[j + 1] = ".")

\* s begins with n characters of an address literal that is not closed.
LiteralTo(s, n) ==
    /\ n >= 1
    /\ s[1] = "["
    /\ \A j \in 2 .. n : s[j] \in Ordinary \cup {".", ":"}

\* s begins with a literal of n characters.
WholeLiteral(s, n) == n >= 2 /\ s[n] = "]" /\ LiteralTo(s, n - 1)

\* The digits of the port behind n characters of s, up to the m-th.
Port(s, n, m) == SubSeq(s, n + 2, m)

\* Behind its first n characters s has a port, or nothing.
PortBehind(s, n) ==
    \/ n = Len(s)
    \/ /\ n < Len(s)
       /\ s[n + 1] = ":"
       /\ \A j \in n + 2 .. Len(s) : s[j] \in Digits
       /\ Number(Port(s, n, Len(s))) <= MaxPort

\* The first n characters of s can be read as its host.
Reading(s, n) ==
    /\ n \in 1 .. Len(s)
    /\ NameTo(s, n) \/ WholeLiteral(s, n)
    /\ NoDots(s, n)
    /\ PortBehind(s, n)

\* NoDoubleDot of a beginning of s.
LEMMA DotsAt ==
    ASSUME NEW s \in Seq(Char), NEW n \in 1 .. Len(s)
    PROVE  NoDoubleDot(SubSeq(s, 1, n)) <=> NoDots(s, n)
<1> DEFINE c == SubSeq(s, 1, n)
<1>1. Len(c) = n /\ \A j \in 1 .. n : c[j] = s[j]
  <2>1. Len(s) \in Nat /\ 1 \in 1 .. Len(s) + 1 /\ n \in 1 - 1 .. Len(s) /\ n - 1 + 1 = n
    OBVIOUS
  <2>2. Len(c) = n /\ \A j \in 1 .. n : c[j] = s[1 + j - 1]
    BY <2>1, Cut
  <2> QED BY <2>2
<1> HIDE DEF c
<1>2. n \in Nat
  OBVIOUS
<1>3. \A j \in 1 .. n - 1 : c[j] = s[j] /\ c[j + 1] = s[j + 1]
  BY <1>1, <1>2
<1>4. NoDoubleDot(c) <=> NoDots(s, n)
  BY <1>1, <1>3 DEF NoDoubleDot, NoDots
<1> QED BY <1>4 DEF c

\* IsName of a beginning of s.
LEMMA NameAt ==
    ASSUME NEW s \in Seq(Char), NEW n \in 1 .. Len(s)
    PROVE  IsName(SubSeq(s, 1, n)) <=> NameTo(s, n) /\ NoDots(s, n)
<1> DEFINE c == SubSeq(s, 1, n)
<1>1. c \in Seq(Char) /\ Len(c) = n /\ \A j \in 1 .. n : c[j] = s[j]
  <2>1. Len(s) \in Nat /\ 1 \in 1 .. Len(s) + 1 /\ n \in 1 - 1 .. Len(s) /\ n - 1 + 1 = n
    OBVIOUS
  <2>2. c \in Seq(Char) /\ Len(c) = n /\ \A j \in 1 .. n : c[j] = s[1 + j - 1]
    BY <2>1, Cut
  <2> QED BY <2>2
<1>2. NoDoubleDot(c) <=> NoDots(s, n)
  BY DotsAt
<1> HIDE DEF c
<1>3. DOMAIN c = 1 .. n
  BY <1>1
<1>4. IsName(c) <=> NameTo(s, n) /\ NoDots(s, n)
  BY <1>1, <1>2, <1>3 DEF IsName, NameTo
<1> QED BY <1>4 DEF c

\* IsLiteral of a beginning of s.
LEMMA LiteralAt ==
    ASSUME NEW s \in Seq(Char), NEW n \in 1 .. Len(s)
    PROVE  IsLiteral(SubSeq(s, 1, n)) <=> WholeLiteral(s, n) /\ NoDots(s, n)
<1> DEFINE c == SubSeq(s, 1, n)
<1>1. c \in Seq(Char) /\ Len(c) = n /\ \A j \in 1 .. n : c[j] = s[j]
  <2>1. Len(s) \in Nat /\ 1 \in 1 .. Len(s) + 1 /\ n \in 1 - 1 .. Len(s) /\ n - 1 + 1 = n
    OBVIOUS
  <2>2. c \in Seq(Char) /\ Len(c) = n /\ \A j \in 1 .. n : c[j] = s[1 + j - 1]
    BY <2>1, Cut
  <2> QED BY <2>2
<1>2. NoDoubleDot(c) <=> NoDots(s, n)
  BY DotsAt
<1> HIDE DEF c
<1>3. n \in Nat /\ c[1] = s[1] /\ c[n] = s[n]
  BY <1>1
<1>4. \A j \in 2 .. n - 1 : c[j] = s[j]
  BY <1>1, <1>3
<1>5. n >= 2 => n - 1 >= 1
  BY <1>3
<1>6. IsLiteral(c) <=> WholeLiteral(s, n) /\ NoDots(s, n)
  BY <1>1, <1>2, <1>3, <1>4, <1>5 DEF IsLiteral, WholeLiteral, LiteralTo
<1> QED BY <1>6 DEF c

\* The digits behind n characters and the colon.
LEMMA PortDigits ==
    ASSUME NEW s \in Seq(Char), NEW n \in 0 .. Len(s) - 1, NEW m \in n + 1 .. Len(s),
           \A j \in n + 2 .. m : s[j] \in Digits
    PROVE  /\ AllDigits(Port(s, n, m))
           /\ Len(Port(s, n, m)) = m - n - 1
           /\ \A j \in 1 .. m - n - 1 : Port(s, n, m)[j] = s[n + 1 + j]
<1>1. Len(s) \in Nat /\ n + 2 \in 1 .. Len(s) + 1 /\ m \in (n + 2) - 1 .. Len(s)
  OBVIOUS
<1>2. n \in Nat /\ m \in Nat /\ m - (n + 2) + 1 = m - n - 1 /\ m - n - 1 \in Nat
  BY <1>1
<1>3. /\ Len(Port(s, n, m)) = m - (n + 2) + 1
      /\ \A j \in 1 .. m - (n + 2) + 1 : Port(s, n, m)[j] = s[(n + 2) + j - 1]
  BY <1>1, Cut DEF Port
<1>4. \A j \in 1 .. m - n - 1 : (n + 2) + j - 1 = n + 1 + j /\ n + 1 + j \in n + 2 .. m
  BY <1>2
<1>5. \A j \in 1 .. m - n - 1 : Port(s, n, m)[j] = s[n + 1 + j]
  BY <1>2, <1>3, <1>4
<1>6. AllDigits(Port(s, n, m))
  BY <1>2, <1>3, <1>4, <1>5 DEF AllDigits
<1> QED BY <1>2, <1>3, <1>5, <1>6

\* IsPort of what is left of s.
LEMMA PortAt ==
    ASSUME NEW s \in Seq(Char), NEW n \in 1 .. Len(s)
    PROVE  IsPort(SubSeq(s, n + 1, Len(s))) <=> PortBehind(s, n)
<1> DEFINE c == SubSeq(s, n + 1, Len(s))
           m == Len(s) - n
<1>0. Len(s) \in Nat /\ n \in Nat /\ m \in Nat
  OBVIOUS
<1>1. c \in Seq(Char) /\ Len(c) = m /\ \A j \in 1 .. m : c[j] = s[n + j]
  <2>1. n + 1 \in 1 .. Len(s) + 1 /\ Len(s) \in (n + 1) - 1 .. Len(s) /\ Len(s) - (n + 1) + 1 = m
    BY <1>0
  <2>2. /\ c \in Seq(Char) /\ Len(c) = m
        /\ \A j \in 1 .. m : c[j] = s[(n + 1) + j - 1]
    BY <2>1, Cut
  <2> QED BY <1>0, <2>2
<1> HIDE DEF c
<1>2. CASE m = 0
  <2>1. c = << >> /\ n = Len(s)
    BY <1>0, <1>1, <1>2
  <2> QED BY <2>1 DEF IsPort, PortBehind, c
<1>3. CASE m /= 0
  <2>1. c /= << >> /\ n < Len(s) /\ n /= Len(s) /\ c[1] = s[n + 1] /\ 1 \in 1 .. m
    BY <1>0, <1>1, <1>3
  <2>2. (\A j \in 2 .. Len(c) : c[j] \in Digits) <=> \A j \in n + 2 .. Len(s) : s[j] \in Digits
    <3>1. ASSUME \A j \in 2 .. Len(c) : c[j] \in Digits, NEW j \in n + 2 .. Len(s)
          PROVE  s[j] \in Digits
      <4>1. j - n \in 2 .. Len(c) /\ j - n \in 1 .. m /\ n + (j - n) = j
        BY <1>0, <1>1
      <4>2. c[j - n] \in Digits /\ c[j - n] = s[n + (j - n)]
        BY <1>1, <3>1, <4>1
      <4> QED BY <4>1, <4>2
    <3>2. ASSUME \A j \in n + 2 .. Len(s) : s[j] \in Digits, NEW j \in 2 .. Len(c)
          PROVE  c[j] \in Digits
      <4>1. n + j \in n + 2 .. Len(s) /\ j \in 1 .. m
        BY <1>0, <1>1
      <4> QED BY <1>1, <3>2, <4>1
    <3> QED BY <3>1, <3>2
  <2>3. ASSUME \A j \in n + 2 .. Len(s) : s[j] \in Digits
        PROVE  Number(Tail(c)) = Number(Port(s, n, Len(s)))
    <3>1. n \in 0 .. Len(s) - 1 /\ Len(s) \in n + 1 .. Len(s)
      BY <1>0, <2>1
    <3>2. /\ AllDigits(Port(s, n, Len(s))) /\ Len(Port(s, n, Len(s))) = Len(s) - n - 1
          /\ \A j \in 1 .. Len(s) - n - 1 : Port(s, n, Len(s))[j] = s[n + 1 + j]
      BY <2>3, <3>1, PortDigits
    <3>3. Len(Tail(c)) = Len(s) - n - 1 /\ \A j \in 1 .. Len(s) - n - 1 : Tail(c)[j] = c[j + 1]
      BY <1>0, <1>1, <2>1, HeadTailProperties
    <3>4. \A j \in 1 .. Len(s) - n - 1 : c[j + 1] = s[n + 1 + j]
      <4> SUFFICES ASSUME NEW j \in 1 .. Len(s) - n - 1 PROVE c[j + 1] = s[n + 1 + j]
        OBVIOUS
      <4>1. j + 1 \in 1 .. m /\ n + (j + 1) = n + 1 + j
        BY <1>0
      <4> QED BY <1>1, <4>1
    <3>5. \A j \in 1 .. Len(s) - n - 1 : Tail(c)[j] = Port(s, n, Len(s))[j]
      BY <3>2, <3>3, <3>4
    <3>6. AllDigits(Tail(c))
      BY <3>2, <3>3, <3>5 DEF AllDigits
    <3>7. Begins(Tail(c), Port(s, n, Len(s))) /\ Len(Tail(c)) = Len(Port(s, n, Len(s)))
      BY <1>0, <3>2, <3>3, <3>5 DEF Begins
    <3> QED BY <3>2, <3>6, <3>7, NumberSame
  <2>4. IsPort(c) <=> PortBehind(s, n)
    BY <2>1, <2>2, <2>3 DEF IsPort, PortBehind
  <2> QED BY <2>4 DEF c
<1> QED BY <1>2, <1>3

\* The hosts that a value names, by the characters at its positions.
LEMMA NamedBy ==
    ASSUME NEW s \in Seq(Char)
    PROVE  Named(s) = {Undotted(SubSeq(s, 1, n)) : n \in {n \in 1 .. Len(s) : Reading(s, n)}} \ {<< >>}
<1>1. \A n \in 1 .. Len(s) :
         /\ (IsName(SubSeq(s, 1, n)) \/ IsLiteral(SubSeq(s, 1, n)))
                <=> ((NameTo(s, n) \/ WholeLiteral(s, n)) /\ NoDots(s, n))
         /\ IsPort(SubSeq(s, n + 1, Len(s))) <=> PortBehind(s, n)
  BY NameAt, LiteralAt, PortAt
<1>2. {n \in 1 .. Len(s) :
            /\ IsName(SubSeq(s, 1, n)) \/ IsLiteral(SubSeq(s, 1, n))
            /\ IsPort(SubSeq(s, n + 1, Len(s)))} = {n \in 1 .. Len(s) : Reading(s, n)}
  BY <1>1 DEF Reading
<1> QED BY <1>2, Zenon DEF Named

\* A value that does not begin with a bracket is read up to its first colon.
LEMMA NameEnds ==
    ASSUME NEW s \in Seq(Char), NEW n \in 0 .. Len(s), \A j \in 1 .. n : s[j] /= ":",
           s[1] /= "[", NEW k, Reading(s, k)
    PROVE  /\ k \in 1 .. Len(s) /\ NameTo(s, k) /\ NoDots(s, k) /\ PortBehind(s, k)
           /\ n <= k
           /\ n < Len(s) /\ s[n + 1] = ":" => k = n
<1>1. k \in 1 .. Len(s) /\ NameTo(s, k) /\ NoDots(s, k) /\ PortBehind(s, k)
  BY DEF Reading, WholeLiteral, LiteralTo
<1>2. n <= k
  <2> SUFFICES ASSUME k < n PROVE FALSE
    BY <1>1
  <2>1. k /= Len(s) /\ k + 1 \in 1 .. n
    BY <1>1
  <2> QED BY <1>1, <2>1 DEF PortBehind
<1>3. ASSUME n < Len(s), s[n + 1] = ":", k /= n PROVE FALSE
  <2>1. n + 1 \in 1 .. k
    BY <1>1, <1>2, <1>3
  <2> QED BY <1>1, <1>3, <2>1, Classes DEF NameTo
<1> QED BY <1>1, <1>2, <1>3

\* One that does, up to the first bracket that closes it.
LEMMA LiteralEnds ==
    ASSUME NEW s \in Seq(Char), NEW n \in 1 .. Len(s), \A j \in 2 .. n : s[j] /= "]",
           s[1] = "[", NEW k, Reading(s, k)
    PROVE  /\ k \in 1 .. Len(s) /\ WholeLiteral(s, k) /\ NoDots(s, k) /\ PortBehind(s, k)
           /\ n < k
           /\ n < Len(s) /\ s[n + 1] = "]" => k = n + 1
<1>1. k \in 1 .. Len(s) /\ WholeLiteral(s, k) /\ NoDots(s, k) /\ PortBehind(s, k)
  <2>1. ASSUME NameTo(s, k), k \in 1 .. Len(s) PROVE FALSE
    BY <2>1, Classes DEF NameTo
  <2> QED BY <2>1 DEF Reading
<1>2. n < k
  <2>1. k \in 2 .. k /\ s[k] = "]"
    BY <1>1 DEF WholeLiteral
  <2> QED BY <1>1, <2>1
<1>3. ASSUME n < Len(s), s[n + 1] = "]", k /= n + 1 PROVE FALSE
  <2>1. n + 1 \in 2 .. k - 1
    BY <1>1, <1>2, <1>3
  <2> QED BY <1>1, <1>3, <2>1, Classes DEF WholeLiteral, LiteralTo
<1> QED BY <1>1, <1>2, <1>3

-----------------------------------------------------------------------------
\* The scan of a host.

\* The last dot of the first n characters of s is at d, or there is none.
LastDot(s, d, n) ==
    \/ d = Len(s) /\ \A j \in 1 .. n : s[j] /= "."
    \/ d \in 0 .. n - 1 /\ s[d + 1] = "." /\ \A j \in d + 2 .. n : s[j] /= "."

Dotted(s, d, n) == NoDots(s, n) /\ LastDot(s, d, n)

\* What the scan knows when it has seen n characters of s.
Scanned(s, where, n, d, len, num, a) ==
    /\ s /= << >>
    /\ ~a => \A j \in 1 .. n : s[j] \notin Upper
    /\ where = "start" => n = 0 /\ len = Len(s) /\ d = Len(s)
    /\ where = "name" => n > 0 /\ len = Len(s) /\ NameTo(s, n) /\ Dotted(s, d, n)
    /\ where = "literal" => len = Len(s) /\ LiteralTo(s, n) /\ Dotted(s, d, n)
    /\ where = "end" => len = n /\ WholeLiteral(s, n) /\ Dotted(s, d, n)
    /\ where = "port" =>
          /\ len < n /\ s[len + 1] = ":"
          /\ NameTo(s, len) \/ WholeLiteral(s, len)
          /\ Dotted(s, d, len)
          /\ \A j \in len + 2 .. n : s[j] \in Digits
          /\ num = Number(Port(s, len, n))
    /\ where /= "port" => num = 0

Seen == rc = "scanning" => Scanned(host, state, i, dot_pos, host_len, port, alloc)

\* A position less one, and at zero the greatest size_t.
LEMMA Less1Is ==
    ASSUME NEW n \in Nat, n < SIZE - 1
    PROVE  Less1(n) = IF n = 0 THEN SIZE - 1 ELSE n - 1
<1>1. SIZE \in Nat /\ SIZE > 1
  BY SizeAssumption
<1>2. n - 1 \in Int /\ (n /= 0 => n - 1 \in 0 .. SIZE - 1)
  BY <1>1
<1> QED BY <1>1, <1>2, SMTT(30) DEF Less1

\* One character more.
LEMMA NameGrows ==
    ASSUME NEW s, NEW n \in Nat, NameTo(s, n), s[n + 1] \in Ordinary \cup {".", "%"}
    PROVE  NameTo(s, n + 1)
  BY DEF NameTo

\* The same in a literal.
LEMMA LiteralGrows ==
    ASSUME NEW s, NEW n \in Nat, LiteralTo(s, n), s[n + 1] \in Ordinary \cup {".", ":"}
    PROVE  LiteralTo(s, n + 1)
  BY DEF LiteralTo

\* A character that is no dot leaves the last dot where it is.
LEMMA DotsGrow ==
    ASSUME NEW s, NEW d, NEW n \in Nat, Dotted(s, d, n), s[n + 1] /= "."
    PROVE  Dotted(s, d, n + 1)
<1>1. NoDots(s, n + 1)
  BY DEF Dotted, NoDots
<1>2. LastDot(s, d, n + 1)
  <2>1. CASE d = Len(s) /\ \A j \in 1 .. n : s[j] /= "."
    <3>1. \A j \in 1 .. n + 1 : s[j] /= "."
      BY <2>1
    <3> QED BY <2>1, <3>1 DEF LastDot
  <2>2. CASE d \in 0 .. n - 1 /\ s[d + 1] = "." /\ \A j \in d + 2 .. n : s[j] /= "."
    <3>1. d \in 0 .. (n + 1) - 1 /\ \A j \in d + 2 .. n + 1 : s[j] /= "."
      BY <2>2
    <3> QED BY <2>2, <3>1 DEF LastDot
  <2> QED BY <2>1, <2>2 DEF Dotted, LastDot
<1> QED BY <1>1, <1>2 DEF Dotted

\* A dot is the last one.
LEMMA DotHere ==
    ASSUME NEW s, NEW n \in Nat, NoDots(s, n), s[n + 1] = ".", n = 0 \/ s[n] /= "."
    PROVE  Dotted(s, n, n + 1)
<1>1. NoDots(s, n + 1)
  BY DEF NoDots
<1>2. LastDot(s, n, n + 1)
  <2>1. n \in 0 .. (n + 1) - 1 /\ \A j \in n + 2 .. n + 1 : s[j] /= "."
    OBVIOUS
  <2> QED BY <2>1 DEF LastDot
<1> QED BY <1>1, <1>2 DEF Dotted

\* Where the scan begins there is no dot.
LEMMA NoDotYet == ASSUME NEW s PROVE Dotted(s, Len(s), 0)
  BY DEF Dotted, NoDots, LastDot

\* What the test for two dots finds.
LEMMA DoubleDotIs ==
    ASSUME TypeOK, i < Len(host), i > 0, LastDot(host, dot_pos, i)
    PROVE  DoubleDot <=> host[i] = "."
<1>1. i \in Nat /\ Len(host) \in Nat /\ dot_pos \in Nat /\ i < SIZE - 1 /\ SIZE \in Nat
  BY SizeAssumption DEF TypeOK
<1>2. Less1(i) = i - 1
  BY <1>1, Less1Is
<1>3. CASE dot_pos = Len(host) /\ \A j \in 1 .. i : host[j] /= "."
  BY <1>1, <1>2, <1>3 DEF DoubleDot
<1>4. CASE dot_pos \in 0 .. i - 1 /\ host[dot_pos + 1] = "."
           /\ \A j \in dot_pos + 2 .. i : host[j] /= "."
  BY <1>1, <1>2, <1>4 DEF DoubleDot
<1> QED BY <1>3, <1>4 DEF LastDot

\* And the one for a dot at the end.
LEMMA TrailingDotIs ==
    ASSUME TypeOK, LastDot(host, dot_pos, host_len)
    PROVE  TrailingDot <=> host_len > 0 /\ host[host_len] = "."
<1>1. /\ host_len \in Nat /\ Len(host) \in Nat /\ dot_pos \in Nat /\ SIZE \in Nat
      /\ host_len <= Len(host) /\ dot_pos <= Len(host) /\ Len(host) < SIZE - 1
  BY SizeAssumption DEF TypeOK
<1>2. Less1(host_len) = IF host_len = 0 THEN SIZE - 1 ELSE host_len - 1
  BY <1>1, Less1Is
<1>3. CASE dot_pos = Len(host) /\ \A j \in 1 .. host_len : host[j] /= "."
  BY <1>1, <1>2, <1>3 DEF TrailingDot
<1>4. CASE dot_pos \in 0 .. host_len - 1 /\ host[dot_pos + 1] = "."
           /\ \A j \in dot_pos + 2 .. host_len : host[j] /= "."
  BY <1>1, <1>2, <1>4 DEF TrailingDot
<1> QED BY <1>3, <1>4 DEF LastDot

\* The host's length in the end.
LEMMA NameLenIs ==
    ASSUME TypeOK, LastDot(host, dot_pos, host_len)
    PROVE  NameLen = IF host_len > 0 /\ host[host_len] = "." THEN host_len - 1 ELSE host_len
<1>1. host_len \in Nat /\ host_len < SIZE - 1
  BY SizeAssumption DEF TypeOK
<1>2. Less1(host_len) = IF host_len = 0 THEN SIZE - 1 ELSE host_len - 1
  BY <1>1, Less1Is
<1> QED BY <1>1, <1>2, TrailingDotIs DEF NameLen

-----------------------------------------------------------------------------
\* A character that the scan goes over is no upper-case letter, or is noted.
LEMMA UpperNoted ==
    ASSUME NEW s, NEW n \in Nat, NEW a, NEW b,
           ~a => \A j \in 1 .. n : s[j] \notin Upper, ~b => ~a /\ s[n + 1] \notin Upper
    PROVE  ~b => \A j \in 1 .. n + 1 : s[j] \notin Upper
<1> SUFFICES ASSUME ~b, NEW j \in 1 .. n + 1 PROVE s[j] \notin Upper
  OBVIOUS
<1> QED BY j \in 1 .. n \/ j = n + 1

\* Every other character that the scan goes over is no upper-case letter.
LEMMA LowerCases ==
    \A c \in Lower \cup Digits \cup Marks \cup {":", ".", "%", "[", "]"} : c \notin Upper
  BY ClassAssumption

\* What holds at the beginning of a step of the scan.
LEMMA AtScan ==
    ASSUME TypeOK, Seen, rc = "scanning", i < Len(host)
    PROVE  /\ Scanned(host, state, i, dot_pos, host_len, port, alloc)
           /\ i \in Nat /\ Len(host) \in Nat /\ host \in Seq(Char) /\ host_len \in Nat
           /\ i + 1 <= Len(host)
  BY DEF Seen, TypeOK

\* A literal begins.
LEMMA OpenSeen ==
    ASSUME TypeOK, Seen, OpenLiteral PROVE Seen'
<1>1. rc = "scanning" /\ i < Len(host) /\ state = "start" /\ host[i + 1] = "["
  BY DEF OpenLiteral, Scanning, ch
<1>2. /\ Scanned(host, state, i, dot_pos, host_len, port, alloc) /\ Len(host) \in Nat
      /\ i = 0 /\ dot_pos = Len(host) /\ host_len = Len(host) /\ port = 0 /\ host /= << >>
  BY <1>1, AtScan DEF Scanned
<1>3. /\ state' = "literal" /\ i' = 1
      /\ UNCHANGED <<host, rc, dot_pos, host_len, port, alloc>>
  BY <1>2 DEF OpenLiteral, Advance
<1>4. LiteralTo(host, 1)
  BY <1>1, <1>2 DEF LiteralTo
<1>5. Dotted(host, dot_pos, 1)
  BY <1>1, <1>2, NoDotYet, DotsGrow, 0 \in Nat, 0 + 1 = 1
<1>6. ~alloc => \A j \in 1 .. 1 : host[j] \notin Upper
  BY <1>1, <1>2, LowerCases
<1>7. Scanned(host, "literal", 1, dot_pos, host_len, port, alloc)
  BY <1>2, <1>4, <1>5, <1>6 DEF Scanned
<1> QED BY <1>3, <1>7 DEF Seen

\* A step over one character of the host.
LEMMA HostGrows ==
    ASSUME TypeOK, Seen, InHost, Advance, state' = Entered, NEW d, NEW a,
           dot_pos' = d, alloc' = a, UNCHANGED <<host_len, port>>,
           ~a => ~alloc /\ ch \notin Upper,
           ch \in Ordinary \/ ch = "." \/ (ch = "%" /\ state /= "literal")
              \/ (ch = ":" /\ state = "literal"),
           NoDots(host, i) /\ LastDot(host, dot_pos, i) => Dotted(host, d, i + 1)
    PROVE  Seen'
<1>1. rc = "scanning" /\ i < Len(host) /\ state \in {"start", "name", "literal"}
  BY DEF InHost, Scanning
<1>2. /\ Scanned(host, state, i, dot_pos, host_len, port, alloc) /\ i \in Nat
      /\ host_len = Len(host) /\ port = 0 /\ host /= << >>
      /\ ~alloc => \A j \in 1 .. i : host[j] \notin Upper
  BY <1>1, AtScan DEF Scanned
<1>3. i' = i + 1 /\ UNCHANGED <<host, rc>>
  BY DEF Advance
<1>4. ~a => \A j \in 1 .. i + 1 : host[j] \notin Upper
  BY <1>2, UpperNoted DEF ch
<1>5. NoDots(host, i) /\ LastDot(host, dot_pos, i)
  <2>1. CASE state = "start"
    <3>1. i = 0 /\ dot_pos = Len(host)
      BY <1>2, <2>1 DEF Scanned
    <3> QED BY <3>1, NoDotYet DEF Dotted
  <2>2. CASE state /= "start"
    BY <1>1, <1>2, <2>2 DEF Scanned, Dotted
  <2> QED BY <2>1, <2>2
<1>6. Dotted(host, d, i + 1)
  BY <1>5
<1>7. CASE state = "literal"
  <2>1. LiteralTo(host, i) /\ state' = "literal"
    BY <1>2, <1>7 DEF Scanned, Entered
  <2>2. LiteralTo(host, i + 1)
    BY <1>2, <1>7, <2>1, LiteralGrows DEF ch
  <2>3. Scanned(host, "literal", i + 1, d, host_len, port, a)
    BY <1>2, <1>4, <1>6, <2>2 DEF Scanned
  <2> QED BY <1>3, <2>1, <2>3 DEF Seen
<1>8. CASE state /= "literal"
  <2>1. NameTo(host, i) /\ state' = "name"
    BY <1>1, <1>2, <1>8 DEF Scanned, Entered, NameTo
  <2>2. NameTo(host, i + 1) /\ i + 1 > 0
    BY <1>2, <1>8, <2>1, NameGrows DEF ch
  <2>3. Scanned(host, "name", i + 1, d, host_len, port, a)
    BY <1>2, <1>4, <1>6, <2>2 DEF Scanned
  <2> QED BY <1>3, <2>1, <2>3 DEF Seen
<1> QED BY <1>7, <1>8

\* A character of the host that is no dot.
LEMMA PlainSeen ==
    ASSUME TypeOK, Seen, Plain \/ UpperCase PROVE Seen'
<1>1. InHost /\ Advance /\ state' = Entered /\ UNCHANGED <<dot_pos, host_len, port>>
  BY DEF Plain, UpperCase
<1>2. ch \in Ordinary \/ (ch = "%" /\ state /= "literal") \/ (ch = ":" /\ state = "literal")
  BY DEF Plain, UpperCase, Ordinary
<1>3. ch /= "."
  BY <1>2, Classes
<1>4. i \in Nat
  BY DEF TypeOK
<1>5. NoDots(host, i) /\ LastDot(host, dot_pos, i) => Dotted(host, dot_pos, i + 1)
  BY <1>3, <1>4, DotsGrow DEF ch, Dotted
<1>6. dot_pos' = dot_pos /\ UNCHANGED <<host_len, port>>
  BY <1>1
<1>7. CASE Plain
  <2>1. alloc' = alloc /\ ch \notin Upper
    BY <1>7, LowerCases DEF Plain
  <2> QED BY <1>1, <1>2, <1>5, <1>6, <2>1, HostGrows
<1>8. CASE UpperCase
  <2>1. alloc' = TRUE
    BY <1>8 DEF UpperCase
  <2> QED BY <1>1, <1>2, <1>5, <1>6, <2>1, HostGrows
<1> QED BY <1>7, <1>8

\* A dot that is not behind a dot.
LEMMA DotSeen ==
    ASSUME TypeOK, Seen, Dot, ~DoubleDot PROVE Seen'
<1>1. /\ InHost /\ Advance /\ state' = Entered /\ UNCHANGED <<host_len, port, alloc>>
      /\ dot_pos' = i /\ ch = "."
  BY DEF Dot
<1>2. i \in Nat /\ i < Len(host)
  BY <1>1 DEF TypeOK, InHost, Scanning
<1>3. NoDots(host, i) /\ LastDot(host, dot_pos, i) => Dotted(host, i, i + 1)
  <2> SUFFICES ASSUME NoDots(host, i), LastDot(host, dot_pos, i) PROVE Dotted(host, i, i + 1)
    OBVIOUS
  <2>1. i = 0 \/ host[i] /= "."
    BY <1>2, DoubleDotIs
  <2> QED BY <1>1, <1>2, <2>1, DotHere DEF ch
<1>4. ch \notin Upper
  BY <1>1, LowerCases
<1>5. UNCHANGED <<host_len, port>> /\ alloc' = alloc
  BY <1>1
<1> QED BY <1>1, <1>3, <1>4, <1>5, HostGrows

\* The host ends: behind a name, with a literal, or with the colon behind one.
LEMMA ColonSeen ==
    ASSUME TypeOK, Seen, EndOfName \/ EndOfLiteral PROVE Seen'
<1>1. rc = "scanning" /\ i < Len(host) /\ state \in {"start", "name", "end"} /\ host[i + 1] = ":"
  BY DEF EndOfName, EndOfLiteral, InHost, Scanning, ch, TypeOK
<1>2. /\ Scanned(host, state, i, dot_pos, host_len, port, alloc) /\ i \in Nat
      /\ Len(host) \in Nat /\ host \in Seq(Char)
      /\ port = 0 /\ host /= << >>
      /\ ~alloc => \A j \in 1 .. i : host[j] \notin Upper
  BY <1>1, AtScan DEF Scanned
<1>3. /\ i' = i + 1 /\ host_len' = i /\ state' = "port"
      /\ UNCHANGED <<host, rc, dot_pos, port, alloc>>
  <2>1. CASE EndOfName
    BY <2>1 DEF EndOfName, Advance
  <2>2. CASE EndOfLiteral
    <3>1. state = "end"
      BY <2>2 DEF EndOfLiteral, Scanning
    <3>2. host_len = i
      BY <1>2, <3>1 DEF Scanned
    <3> QED BY <2>2, <3>2 DEF EndOfLiteral, Advance
  <2> QED BY <2>1, <2>2
<1>4. (NameTo(host, i) \/ WholeLiteral(host, i)) /\ Dotted(host, dot_pos, i)
  <2>1. CASE state = "start"
    <3>1. i = 0 /\ dot_pos = Len(host)
      BY <1>2, <2>1 DEF Scanned
    <3> QED BY <3>1, NoDotYet DEF NameTo
  <2>2. CASE state /= "start"
    BY <1>1, <1>2, <2>2 DEF Scanned
  <2> QED BY <2>1, <2>2
<1>5. ~alloc => \A j \in 1 .. i + 1 : host[j] \notin Upper
  <2>1. host[i + 1] \notin Upper
    BY <1>1, LowerCases
  <2> QED BY <1>2, <2>1, UpperNoted
<1>6. \A j \in i + 2 .. i + 1 : host[j] \in Digits
  BY <1>2
<1>7. 0 = Number(Port(host, i, i + 1))
  <2>1. i \in 0 .. Len(host) - 1 /\ i + 1 \in i + 1 .. Len(host) /\ (i + 1) - i - 1 = 0
    BY <1>1, <1>2
  <2>2. Len(Port(host, i, i + 1)) = 0
    BY <1>2, <1>6, <2>1, PortDigits
  <2> QED BY <2>2, NumberNone
<1>8. Scanned(host, "port", i + 1, dot_pos, i, port, alloc)
  BY <1>1, <1>2, <1>4, <1>5, <1>6, <1>7 DEF Scanned
<1> QED BY <1>3, <1>8 DEF Seen

\* The bracket that closes a literal.
LEMMA CloseSeen ==
    ASSUME TypeOK, Seen, CloseLiteral PROVE Seen'
<1>1. rc = "scanning" /\ i < Len(host) /\ state = "literal" /\ host[i + 1] = "]"
  BY DEF CloseLiteral, Scanning, ch
<1>2. /\ Scanned(host, state, i, dot_pos, host_len, port, alloc) /\ i \in Nat
      /\ LiteralTo(host, i) /\ Dotted(host, dot_pos, i) /\ port = 0 /\ host /= << >>
      /\ ~alloc => \A j \in 1 .. i : host[j] \notin Upper
  BY <1>1, AtScan DEF Scanned
<1>3. /\ i' = i + 1 /\ host_len' = i + 1 /\ state' = "end"
      /\ UNCHANGED <<host, rc, dot_pos, port, alloc>>
  BY DEF CloseLiteral, Advance
<1>4. i + 1 >= 2 /\ (i + 1) - 1 = i
  BY <1>2 DEF LiteralTo
<1>5. WholeLiteral(host, i + 1)
  BY <1>1, <1>2, <1>4 DEF WholeLiteral
<1>6. Dotted(host, dot_pos, i + 1)
  BY <1>1, <1>2, DotsGrow
<1>7. ~alloc => \A j \in 1 .. i + 1 : host[j] \notin Upper
  <2>1. host[i + 1] \notin Upper
    BY <1>1, LowerCases
  <2> QED BY <1>2, <2>1, UpperNoted
<1>8. Scanned(host, "end", i + 1, dot_pos, i + 1, port, alloc)
  BY <1>2, <1>5, <1>6, <1>7 DEF Scanned
<1> QED BY <1>3, <1>8 DEF Seen

\* What holds within a port.
LEMMA InPort ==
    ASSUME TypeOK, Seen, rc = "scanning", state = "port"
    PROVE  /\ host_len \in 0 .. Len(host) - 1 /\ i \in host_len + 1 .. Len(host)
           /\ host[host_len + 1] = ":"
           /\ NameTo(host, host_len) \/ WholeLiteral(host, host_len)
           /\ Dotted(host, dot_pos, host_len)
           /\ \A j \in host_len + 2 .. i : host[j] \in Digits
           /\ port = Number(Port(host, host_len, i))
<1>1. host_len \in Nat /\ i \in Nat /\ i <= Len(host) /\ Len(host) \in Nat
  BY DEF TypeOK
<1>2. Scanned(host, state, i, dot_pos, host_len, port, alloc)
  BY DEF Seen
<1>3. host_len < i
  BY <1>2 DEF Scanned
<1> QED BY <1>1, <1>2, <1>3 DEF Scanned

\* One digit of the port more.
LEMMA PortSeen ==
    ASSUME TypeOK, Seen, PortDigit, ~TooBig(Digit[ch]) PROVE Seen'
<1>1. rc = "scanning" /\ i < Len(host) /\ state = "port" /\ host[i + 1] \in Digits
  BY DEF PortDigit, Scanning, ch
<1>2. /\ i \in Nat /\ Len(host) \in Nat /\ host \in Seq(Char) /\ host /= << >>
      /\ ~alloc => \A j \in 1 .. i : host[j] \notin Upper
  BY <1>1, AtScan DEF Scanned
<1>3. /\ host_len \in 0 .. Len(host) - 1 /\ i \in host_len + 1 .. Len(host)
      /\ host[host_len + 1] = ":"
      /\ NameTo(host, host_len) \/ WholeLiteral(host, host_len)
      /\ Dotted(host, dot_pos, host_len)
      /\ \A j \in host_len + 2 .. i : host[j] \in Digits
      /\ port = Number(Port(host, host_len, i))
  BY <1>1, InPort
<1>4. /\ i' = i + 1 /\ port' = port * 10 + Digit[host[i + 1]]
      /\ UNCHANGED <<host, rc, state, dot_pos, host_len, alloc>>
  BY DEF PortDigit, Advance, ch
<1>5. \A j \in host_len + 2 .. i + 1 : host[j] \in Digits
  BY <1>1, <1>2, <1>3
<1>6. Number(Port(host, host_len, i + 1)) = port * 10 + Digit[host[i + 1]]
  <2> DEFINE s == Port(host, host_len, i)
             t == Port(host, host_len, i + 1)
             n == i - host_len - 1
  <2>1. host_len \in Nat /\ n \in Nat /\ i + 1 \in host_len + 1 .. Len(host)
        /\ (i + 1) - host_len - 1 = n + 1 /\ host_len + 1 + (n + 1) = i + 1 /\ n + 1 \in 1 .. n + 1
    BY <1>1, <1>2, <1>3
  <2>2. AllDigits(s) /\ Len(s) = n /\ \A j \in 1 .. n : s[j] = host[host_len + 1 + j]
    BY <1>2, <1>3, PortDigits
  <2>3. AllDigits(t) /\ Len(t) = n + 1 /\ \A j \in 1 .. n + 1 : t[j] = host[host_len + 1 + j]
    BY <1>2, <1>3, <1>5, <2>1, PortDigits
  <2> HIDE DEF s, t, n
  <2>a. t[n + 1] = host[i + 1]
    BY <2>1, <2>3
  <2>b. \A j \in 1 .. n : s[j] = t[j]
    <3> SUFFICES ASSUME NEW j \in 1 .. n PROVE s[j] = t[j]
      OBVIOUS
    <3>1. j \in 1 .. n + 1
      BY <2>1
    <3> QED BY <2>2, <2>3, <3>1
  <2>4. Begins(s, t) /\ Len(t) = Len(s) + 1 /\ t[Len(t)] = host[i + 1]
    BY <2>1, <2>2, <2>3, <2>a, <2>b DEF Begins
  <2>5. Number(t) = 10 * Number(s) + Digit[t[Len(t)]]
    BY <2>2, <2>3, <2>4, NumberOneMore
  <2>6. Number(s) \in Nat /\ port = Number(s)
    BY <1>3, <2>2, NumberType DEF s
  <2>7. Digit[host[i + 1]] \in Nat
    BY <1>1, DigitIsNat
  <2>8. PICK v \in Nat : v = Number(s)
    BY <2>6
  <2>9. 10 * v = v * 10
    BY <2>8
  <2> QED BY <2>4, <2>5, <2>6, <2>8, <2>9 DEF t
<1>7. ~alloc => \A j \in 1 .. i + 1 : host[j] \notin Upper
  <2>1. host[i + 1] \notin Upper
    BY <1>1, LowerCases
  <2> QED BY <1>2, <2>1, UpperNoted
<1>8. host_len < i + 1
  BY <1>2, <1>3
<1>9. Scanned(host, "port", i + 1, dot_pos, host_len, port * 10 + Digit[host[i + 1]], alloc)
  BY <1>2, <1>3, <1>5, <1>6, <1>7, <1>8 DEF Scanned
<1> QED BY <1>1, <1>4, <1>9 DEF Seen

-----------------------------------------------------------------------------
\* Where the scan ends the value has the reading that the code gives it.

\* The state of the scan is what the scan has seen.
LEMMA SeenStep ==
    ASSUME TypeOK, Seen, [HostNext]_host_vars PROVE Seen'
<1>1. CASE Call
  <2>1. PICK given \in Hosts \ {<< >>} : Begin(given, "scanning")
    BY <1>1 DEF Call
  <2>2. given \in Seq(Char) /\ given /= << >> /\ Len(given) \in Nat
    BY HostsAssumption
  <2>3. Scanned(given, "start", 0, Len(given), Len(given), 0, FALSE)
    BY <2>2 DEF Scanned
  <2> QED BY <2>1, <2>3 DEF Begin, Seen
<1>2. CASE Return
  BY <1>2 DEF Return, Begin, Seen
<1>3. CASE Scan
  <2>1. CASE Dot
    <3>1. CASE DoubleDot
      BY <2>1, <3>1 DEF Dot, Decline, Seen
    <3> QED BY <2>1, <3>1, DotSeen
  <2>2. CASE PortDigit
    <3>1. CASE TooBig(Digit[ch])
      BY <2>2, <3>1 DEF PortDigit, Decline, Seen
    <3> QED BY <2>2, <3>1, PortSeen
  <2>3. CASE Unexpected
    BY <2>3 DEF Unexpected, Decline, Seen
  <2> QED BY <1>3, <2>1, <2>2, <2>3, OpenSeen, PlainSeen, ColonSeen, CloseSeen DEF Scan
<1>4. CASE Unclosed
  BY <1>4 DEF Unclosed, Decline, Seen
<1>5. CASE NoName \/ NoMemory \/ AcceptHost
  BY <1>5 DEF NoName, NoMemory, AcceptHost, Finish, Seen
<1>6. CASE UNCHANGED host_vars
  BY <1>6 DEF host_vars, Seen
<1> QED BY <1>1, <1>2, <1>3, <1>4, <1>5, <1>6 DEF HostNext

-----------------------------------------------------------------------------
\* What can be read of a value in which the host's end has been found.
LEMMA EndIsEnd ==
    ASSUME NEW s \in Seq(Char), NEW n \in 0 .. Len(s), NEW k, Reading(s, k),
           WholeLiteral(s, n) \/ (NameTo(s, n) /\ n < Len(s) /\ s[n + 1] = ":")
    PROVE  k = n
<1>0. n \in Nat /\ Len(s) \in Nat
  OBVIOUS
<1>1. CASE WholeLiteral(s, n)
  <2>1. s[1] = "[" /\ n - 1 \in 1 .. Len(s) /\ n - 1 < Len(s) /\ s[(n - 1) + 1] = "]"
    BY <1>0, <1>1 DEF WholeLiteral, LiteralTo
  <2>2. \A j \in 2 .. n - 1 : s[j] /= "]"
    BY <1>1, Classes DEF WholeLiteral, LiteralTo
  <2>3. k = (n - 1) + 1
    BY <2>1, <2>2, LiteralEnds
  <2> QED BY <1>0, <2>3
<1>2. CASE NameTo(s, n) /\ n < Len(s) /\ s[n + 1] = ":"
  <2>1. \A j \in 1 .. n : s[j] /= ":"
    BY <1>2, Classes DEF NameTo
  <2>2. s[1] /= "["
    <3>1. CASE n = 0
      BY <1>2, <3>1
    <3>2. CASE n /= 0
      <4>1. 1 \in 1 .. n
        BY <1>0, <3>2
      <4> QED BY <1>2, <4>1, Classes DEF NameTo
    <3> QED BY <3>1, <3>2
  <2> QED BY <1>2, <2>1, <2>2, NameEnds
<1> QED BY <1>1, <1>2

\* In a value that begins like a name or with one, a reading goes beyond what is scanned.
LEMMA NameIsScanned ==
    ASSUME TypeOK, Seen, rc = "scanning", state = "name" \/ (state = "start" /\ ch /= "["),
           NEW k, Reading(host, k)
    PROVE  /\ k \in 1 .. Len(host) /\ NameTo(host, k) /\ NoDots(host, k)
           /\ PortBehind(host, k) /\ i <= k
<1>1. /\ i \in 0 .. Len(host) /\ host \in Seq(Char)
      /\ Scanned(host, state, i, dot_pos, host_len, port, alloc)
  BY DEF TypeOK, Seen
<1>2. NameTo(host, i) /\ host[1] /= "["
  <2>1. CASE state = "name"
    <3>1. NameTo(host, i) /\ 1 \in 1 .. i
      BY <1>1, <2>1 DEF Scanned
    <3> QED BY <3>1, Classes DEF NameTo
  <2>2. CASE state = "start" /\ ch /= "["
    <3>1. i = 0
      BY <1>1, <2>2 DEF Scanned
    <3> QED BY <2>2, <3>1 DEF ch, NameTo
  <2> QED BY <2>1, <2>2
<1>3. \A j \in 1 .. i : host[j] /= ":"
  BY <1>2, Classes DEF NameTo
<1> QED BY <1>1, <1>2, <1>3, NameEnds

\* In one that begins with a bracket it does, too.
LEMMA LiteralIsScanned ==
    ASSUME TypeOK, Seen, rc = "scanning", state = "literal", NEW k, Reading(host, k)
    PROVE  /\ k \in 1 .. Len(host) /\ WholeLiteral(host, k) /\ NoDots(host, k) /\ i < k
           /\ i \in Nat /\ i >= 1
<1>1. /\ i \in 0 .. Len(host) /\ host \in Seq(Char)
      /\ Scanned(host, state, i, dot_pos, host_len, port, alloc)
  BY DEF TypeOK, Seen
<1>2. LiteralTo(host, i)
  BY <1>1 DEF Scanned
<1>3. i \in 1 .. Len(host) /\ host[1] = "["
  BY <1>1, <1>2 DEF LiteralTo
<1>4. \A j \in 2 .. i : host[j] /= "]"
  BY <1>2, Classes DEF LiteralTo
<1> QED BY <1>1, <1>3, <1>4, LiteralEnds

\* Behind a host that has ended there is one reading at most.
LEMMA EndedIsRead ==
    ASSUME TypeOK, Seen, rc = "scanning", state \in {"end", "port"}, NEW k, Reading(host, k)
    PROVE  k = host_len
<1>1. /\ host_len \in 0 .. Len(host) /\ host \in Seq(Char)
      /\ Scanned(host, state, i, dot_pos, host_len, port, alloc)
  BY DEF TypeOK, Seen
<1>2. CASE state = "end"
  <2>1. WholeLiteral(host, host_len)
    BY <1>1, <1>2 DEF Scanned
  <2> QED BY <1>1, <2>1, EndIsEnd
<1>3. CASE state = "port"
  <2>1. host_len \in 0 .. Len(host) - 1
    BY <1>3, InPort
  <2>2. host_len < Len(host)
    BY <2>1
  <2>3. WholeLiteral(host, host_len) \/ (NameTo(host, host_len) /\ host[host_len + 1] = ":")
    BY <1>3, InPort
  <2> QED BY <1>1, <2>2, <2>3, EndIsEnd
<1> QED BY <1>2, <1>3

\* A value is declined rightly if there is no reading of it.
LEMMA DeclineExact ==
    ASSUME TypeOK, Decline, \A k : ~Reading(host, k) PROVE HostExact'
<1>1. rc' = "declined" /\ host' = host /\ host \in Seq(Char)
  BY DEF Decline, TypeOK
<1>2. Named(host) = {}
  BY <1>1, NamedBy
<1> QED BY <1>1, <1>2 DEF HostExact

\* Two dots are in no reading.
LEMMA DoubleDotUnread ==
    ASSUME TypeOK, Seen, Dot, DoubleDot, NEW k PROVE ~Reading(host, k)
<1> SUFFICES ASSUME Reading(host, k) PROVE FALSE
  OBVIOUS
<1>1. /\ rc = "scanning" /\ i < Len(host) /\ host[i + 1] = "."
      /\ state = "literal" \/ state = "name" \/ (state = "start" /\ ch /= "[")
  BY DEF Dot, InHost, Scanning, ch
<1>2. /\ i \in Nat /\ Len(host) \in Nat
      /\ Scanned(host, state, i, dot_pos, host_len, port, alloc)
  BY <1>1, AtScan
<1>3. i > 0 /\ Dotted(host, dot_pos, i)
  <2>1. state /= "start"
    <3> SUFFICES ASSUME state = "start" PROVE FALSE
      OBVIOUS
    <3>1. i = 0 /\ dot_pos = Len(host) /\ Len(host) < SIZE - 1 /\ SIZE \in Nat
      BY <1>2, SizeAssumption DEF Scanned, TypeOK
    <3>2. Less1(i) = SIZE - 1
      BY <1>2, <3>1, Less1Is
    <3> QED BY <1>2, <3>1, <3>2 DEF DoubleDot
  <2> QED BY <1>1, <1>2, <2>1 DEF Scanned, LiteralTo
<1>4. host[i] = "."
  BY <1>1, <1>3, DoubleDotIs DEF Dotted
<1>5. k \in Nat /\ NoDots(host, k) /\ i < k
  <2>1. CASE state = "literal"
    BY <1>1, <2>1, LiteralIsScanned
  <2>2. CASE state = "name" \/ (state = "start" /\ ch /= "[")
    <3>1. k \in 1 .. Len(host) /\ NoDots(host, k) /\ PortBehind(host, k) /\ i <= k
      BY <1>1, <2>2, NameIsScanned
    <3>2. k /= i
      BY <1>1, <1>2, <3>1 DEF PortBehind
    <3> QED BY <1>2, <3>1, <3>2
  <2> QED BY <1>1, <2>1, <2>2
<1>6. i \in 1 .. k - 1
  BY <1>2, <1>3, <1>5
<1> QED BY <1>1, <1>4, <1>5, <1>6 DEF NoDots

\* What the test before the multiplication refuses exceeds 16 bits.
LEMMA TooBigIs ==
    ASSUME NEW d \in Nat, d <= 9, port \in Nat, TooBig(d) PROVE port * 10 + d > MaxPort
<1>1. port > 6553 \/ (port = 6553 /\ d > 5)
  BY DEF TooBig
<1>2. MaxPort = 65535
  BY DEF MaxPort
<1> QED BY <1>1, <1>2

\* Nor is a port that exceeds 16 bits, however it goes on.
LEMMA BigPortUnread ==
    ASSUME TypeOK, Seen, PortDigit, TooBig(Digit[ch]), NEW k PROVE ~Reading(host, k)
<1> SUFFICES ASSUME Reading(host, k) PROVE FALSE
  OBVIOUS
<1>1. rc = "scanning" /\ i < Len(host) /\ state = "port" /\ host[i + 1] \in Digits
  BY DEF PortDigit, Scanning, ch
<1>2. i \in Nat /\ Len(host) \in Nat /\ host \in Seq(Char)
  BY DEF TypeOK
<1>3. /\ host_len \in 0 .. Len(host) - 1 /\ i \in host_len + 1 .. Len(host)
      /\ \A j \in host_len + 2 .. i : host[j] \in Digits
      /\ port = Number(Port(host, host_len, i))
  BY <1>1, InPort
<1>4. k = host_len /\ PortBehind(host, host_len)
  BY <1>1, EndedIsRead DEF Reading
<1>5. /\ \A j \in host_len + 2 .. Len(host) : host[j] \in Digits
      /\ Number(Port(host, host_len, Len(host))) <= MaxPort
  BY <1>2, <1>3, <1>4 DEF PortBehind
<1> DEFINE s == Port(host, host_len, i)
           t == Port(host, host_len, i + 1)
           u == Port(host, host_len, Len(host))
           n == i - host_len - 1
           m == Len(host) - host_len - 1
<1>6. /\ host_len \in Nat /\ n \in Nat /\ m \in Nat /\ n + 1 <= m
      /\ i + 1 \in host_len + 1 .. Len(host) /\ Len(host) \in host_len + 1 .. Len(host)
      /\ (i + 1) - host_len - 1 = n + 1 /\ host_len + 1 + (n + 1) = i + 1
  BY <1>1, <1>2, <1>3
<1>7. AllDigits(s) /\ Len(s) = n /\ \A j \in 1 .. n : s[j] = host[host_len + 1 + j]
  BY <1>2, <1>3, PortDigits
<1>8. AllDigits(t) /\ Len(t) = n + 1 /\ \A j \in 1 .. n + 1 : t[j] = host[host_len + 1 + j]
  <2>1. \A j \in host_len + 2 .. i + 1 : host[j] \in Digits
    BY <1>2, <1>5, <1>6
  <2> QED BY <1>2, <1>3, <1>6, <2>1, PortDigits
<1>9. AllDigits(u) /\ Len(u) = m /\ \A j \in 1 .. m : u[j] = host[host_len + 1 + j]
  BY <1>2, <1>3, <1>5, <1>6, PortDigits
<1>10. Digit[host[i + 1]] \in Nat /\ Digit[host[i + 1]] <= 9
  <2>1. Digit[host[i + 1]] \in 0 .. 9
    BY <1>1, DigitAssumption
  <2> QED BY <2>1
<1>11. Number(s) \in Nat /\ port = Number(s)
  BY <1>3, <1>7, NumberType DEF s
<1>12. Number(u) <= MaxPort
  BY <1>5 DEF u
<1> HIDE DEF s, t, u, n, m
<1>13. Begins(s, t) /\ Len(t) = Len(s) + 1 /\ t[Len(t)] = host[i + 1]
  <2>1. \A j \in 1 .. n : s[j] = t[j]
    <3> SUFFICES ASSUME NEW j \in 1 .. n PROVE s[j] = t[j]
      OBVIOUS
    <3>1. j \in 1 .. n + 1
      BY <1>6
    <3> QED BY <1>7, <1>8, <3>1
  <2>2. t[n + 1] = host[i + 1]
    BY <1>6, <1>8
  <2> QED BY <1>6, <1>7, <1>8, <2>1, <2>2 DEF Begins
<1>14. Begins(t, u)
  <2>1. \A j \in 1 .. n + 1 : t[j] = u[j]
    <3> SUFFICES ASSUME NEW j \in 1 .. n + 1 PROVE t[j] = u[j]
      OBVIOUS
    <3>1. j \in 1 .. m
      BY <1>6
    <3> QED BY <1>8, <1>9, <3>1
  <2> QED BY <1>6, <1>8, <1>9, <2>1 DEF Begins
<1>15. Number(t) = 10 * Number(s) + Digit[host[i + 1]] /\ Number(t) <= Number(u)
  <2>1. Number(t) = 10 * Number(s) + Digit[t[Len(t)]]
    BY <1>7, <1>8, <1>13, NumberOneMore
  <2>2. Number(t) <= Number(u)
    BY <1>8, <1>9, <1>14, NumberGrows
  <2> QED BY <1>13, <2>1, <2>2
<1>16. port * 10 + Digit[host[i + 1]] > MaxPort
  BY <1>10, <1>11, TooBigIs DEF ch
<1>17. Number(u) \in Nat /\ Number(t) \in Nat /\ MaxPort \in Nat
  BY <1>8, <1>9, NumberType DEF MaxPort
<1> QED BY <1>10, <1>11, <1>12, <1>15, <1>16, <1>17

\* A character that is none of a host's is not in a reading.
LEMMA UnexpectedUnread ==
    ASSUME TypeOK, Seen, Unexpected, NEW k PROVE ~Reading(host, k)
<1> SUFFICES ASSUME Reading(host, k) PROVE FALSE
  OBVIOUS
<1> DEFINE other == ch \notin Upper \cup Lower \cup Digits \cup Marks \cup {".", ":", "%", "[", "]"}
<1>1. rc = "scanning" /\ i < Len(host) /\ i \in Nat /\ Len(host) \in Nat /\ host \in Seq(Char)
  BY DEF Unexpected, InHost, Scanning, TypeOK
<1>2. CASE InHost /\ state /= "literal" /\ (ch \in {"[", "]"} \/ other)
  <2>1. state = "name" \/ (state = "start" /\ ch /= "[")
    BY <1>2 DEF InHost, Scanning
  <2>2. /\ k \in 1 .. Len(host) /\ NameTo(host, k) /\ PortBehind(host, k) /\ i <= k
    BY <1>1, <2>1, NameIsScanned
  <2>3. k /= i
    BY <1>1, <1>2, <2>2 DEF PortBehind, ch
  <2>4. i + 1 \in 1 .. k
    BY <1>1, <2>2, <2>3
  <2>5. ch \in Ordinary \cup {".", "%"}
    BY <2>2, <2>4 DEF NameTo, ch
  <2> QED BY <1>2, <2>5, Classes DEF Ordinary
<1>3. CASE InHost /\ state = "literal" /\ (ch \in {"[", "%"} \/ other)
  <2>1. k \in 1 .. Len(host) /\ WholeLiteral(host, k) /\ i < k /\ i >= 1
    BY <1>1, <1>3, LiteralIsScanned
  <2>2. k /= i + 1
    BY <1>3, <2>1 DEF WholeLiteral, ch
  <2>3. i + 1 \in 2 .. k - 1
    BY <1>1, <2>1, <2>2
  <2>4. ch \in Ordinary \cup {".", ":"}
    BY <2>1, <2>3 DEF WholeLiteral, LiteralTo, ch
  <2> QED BY <1>3, <2>4, Classes DEF Ordinary
<1>4. CASE Scanning({"end"}) /\ ch /= ":"
  <2>1. state = "end"
    BY <1>4 DEF Scanning
  <2>2. k = host_len /\ host_len = i
    <3>1. k = host_len
      BY <1>1, <2>1, EndedIsRead
    <3> QED BY <1>1, <2>1, <3>1, AtScan DEF Scanned
  <2>3. PortBehind(host, i)
    BY <2>2 DEF Reading
  <2> QED BY <1>1, <1>4, <2>3 DEF PortBehind, ch
<1>5. CASE Scanning({"port"}) /\ ch \notin Digits
  <2>1. state = "port"
    BY <1>5 DEF Scanning
  <2>2. host_len \in 0 .. Len(host) - 1 /\ i \in host_len + 1 .. Len(host)
    BY <1>1, <2>1, InPort
  <2>3. k = host_len /\ PortBehind(host, host_len)
    BY <1>1, <2>1, EndedIsRead DEF Reading
  <2>4. i + 1 \in host_len + 2 .. Len(host) /\ host_len /= Len(host)
    BY <1>1, <2>2
  <2> QED BY <1>5, <2>3, <2>4 DEF PortBehind, ch
<1> QED BY <1>2, <1>3, <1>4, <1>5 DEF Unexpected

\* A literal that is not closed is none.
LEMMA UnclosedUnread ==
    ASSUME TypeOK, Seen, Unclosed, NEW k PROVE ~Reading(host, k)
<1> SUFFICES ASSUME Reading(host, k) PROVE FALSE
  OBVIOUS
<1>1. rc = "scanning" /\ i = Len(host) /\ state = "literal"
  BY DEF Unclosed, AtEnd
<1>2. k \in 1 .. Len(host) /\ i < k
  BY <1>1, LiteralIsScanned
<1> QED BY <1>1, <1>2 DEF TypeOK

-----------------------------------------------------------------------------
\* A value that was scanned to its end has one reading, if its host is not empty.
LEMMA OneReading ==
    ASSUME TypeOK, Seen, AtEnd, state /= "literal"
    PROVE  /\ \A k : Reading(host, k) <=> k = host_len /\ host_len /= 0
           /\ LastDot(host, dot_pos, host_len)
           /\ ~alloc => \A j \in 1 .. Len(host) : host[j] \notin Upper
<1>1. /\ rc = "scanning" /\ i = Len(host) /\ host \in Seq(Char) /\ Len(host) \in Nat
      /\ host_len \in 0 .. Len(host) /\ port \in 0 .. MaxPort
      /\ state \in {"start", "name", "end", "port"}
      /\ Scanned(host, state, i, dot_pos, host_len, port, alloc)
  BY DEF AtEnd, TypeOK, Seen
<1>2. state /= "start"
  BY <1>1 DEF Scanned
<1>3. ~alloc => \A j \in 1 .. Len(host) : host[j] \notin Upper
  BY <1>1 DEF Scanned
<1>4. CASE state = "name"
  <2>1. host_len = Len(host) /\ Len(host) > 0 /\ NameTo(host, host_len)
        /\ Dotted(host, dot_pos, host_len)
    BY <1>1, <1>4 DEF Scanned
  <2>2. Reading(host, host_len)
    BY <1>1, <2>1 DEF Reading, Dotted, PortBehind
  <2>3. ASSUME NEW k, Reading(host, k) PROVE k = host_len
    <3>1. k \in 1 .. Len(host) /\ i <= k
      BY <1>1, <1>4, <2>3, NameIsScanned
    <3> QED BY <1>1, <2>1, <3>1
  <2> QED BY <1>1, <1>3, <2>1, <2>2, <2>3 DEF Dotted
<1>5. CASE state = "end"
  <2>1. host_len = Len(host) /\ WholeLiteral(host, host_len) /\ Dotted(host, dot_pos, host_len)
    BY <1>1, <1>5 DEF Scanned
  <2>2. host_len /= 0 /\ Reading(host, host_len)
    BY <1>1, <2>1 DEF Reading, Dotted, PortBehind, WholeLiteral
  <2> QED BY <1>1, <1>3, <1>5, <2>1, <2>2, EndedIsRead DEF Dotted
<1>6. CASE state = "port"
  <2>1. /\ host_len \in 0 .. Len(host) - 1 /\ host[host_len + 1] = ":"
        /\ NameTo(host, host_len) \/ WholeLiteral(host, host_len)
        /\ Dotted(host, dot_pos, host_len)
        /\ \A j \in host_len + 2 .. Len(host) : host[j] \in Digits
        /\ port = Number(Port(host, host_len, Len(host)))
    BY <1>1, <1>6, InPort
  <2>2. port <= MaxPort
    BY <1>1 DEF MaxPort
  <2>3. PortBehind(host, host_len)
    BY <1>1, <2>1, <2>2 DEF PortBehind
  <2>4. host_len /= 0 => Reading(host, host_len)
    BY <1>1, <2>1, <2>3 DEF Reading, Dotted
  <2>5. ASSUME NEW k, Reading(host, k) PROVE k = host_len /\ host_len /= 0
    <3>1. k = host_len /\ k \in 1 .. Len(host)
      BY <1>1, <1>6, <2>5, EndedIsRead DEF Reading
    <3> QED BY <3>1
  <2> QED BY <1>3, <2>1, <2>4, <2>5 DEF Dotted
<1> QED BY <1>1, <1>2, <1>4, <1>5, <1>6

\* Without its last dot the host has the length that the code gives it.
LEMMA UndottedIs ==
    ASSUME TypeOK, LastDot(host, dot_pos, host_len), host_len /= 0
    PROVE  Undotted(SubSeq(host, 1, host_len)) = SubSeq(host, 1, NameLen)
<1> DEFINE c == SubSeq(host, 1, host_len)
<1>1. host \in Seq(Char) /\ Len(host) \in Nat /\ host_len \in 1 .. Len(host) /\ host_len \in Nat
  BY DEF TypeOK
<1>2. c \in Seq(Char) /\ Len(c) = host_len /\ \A j \in 1 .. host_len : c[j] = host[j]
  <2>1. 1 \in 1 .. Len(host) + 1 /\ host_len \in 1 - 1 .. Len(host) /\ host_len - 1 + 1 = host_len
    BY <1>1
  <2>2. c \in Seq(Char) /\ Len(c) = host_len /\ \A j \in 1 .. host_len : c[j] = host[1 + j - 1]
    BY <1>1, <2>1, Cut
  <2> QED BY <1>1, <2>2
<1>3. c /= << >> /\ c[Len(c)] = host[host_len]
  BY <1>1, <1>2
<1>4. NameLen = IF host[host_len] = "." THEN host_len - 1 ELSE host_len
  BY <1>1, NameLenIs
<1>5. CASE host[host_len] = "."
  <2>1. Undotted(c) = SubSeq(c, 1, host_len - 1)
    BY <1>2, <1>3, <1>5 DEF Undotted
  <2>2. SubSeq(c, 1, host_len - 1) = SubSeq(host, 1, host_len - 1)
    <3> DEFINE n == host_len - 1
    <3>1. n \in Nat /\ n <= Len(host) /\ n <= Len(c) /\ n - 1 + 1 = n
          /\ 1 \in 1 .. Len(host) + 1 /\ n \in 1 - 1 .. Len(host)
          /\ 1 \in 1 .. Len(c) + 1 /\ n \in 1 - 1 .. Len(c)
      BY <1>1, <1>2
    <3>2. /\ SubSeq(c, 1, n) \in Seq(Char) /\ Len(SubSeq(c, 1, n)) = n
          /\ \A j \in 1 .. n : SubSeq(c, 1, n)[j] = c[1 + j - 1]
      BY <1>2, <3>1, Cut
    <3>3. /\ SubSeq(host, 1, n) \in Seq(Char) /\ Len(SubSeq(host, 1, n)) = n
          /\ \A j \in 1 .. n : SubSeq(host, 1, n)[j] = host[1 + j - 1]
      BY <1>1, <3>1, Cut
    <3>4. \A j \in 1 .. n : c[1 + j - 1] = host[1 + j - 1]
      <4> SUFFICES ASSUME NEW j \in 1 .. n PROVE c[1 + j - 1] = host[1 + j - 1]
        OBVIOUS
      <4>1. 1 + j - 1 \in 1 .. host_len
        BY <1>1
      <4> QED BY <1>2, <4>1
    <3> DEFINE x == SubSeq(c, 1, n)
               y == SubSeq(host, 1, n)
    <3>5. \A j \in 1 .. n : x[j] = y[j]
      <4> SUFFICES ASSUME NEW j \in 1 .. n PROVE x[j] = y[j]
        OBVIOUS
      <4>1. x[j] = c[1 + j - 1] /\ y[j] = host[1 + j - 1]
        BY <3>2, <3>3
      <4> QED BY <3>4, <4>1
    <3>6. x \in Seq(Char) /\ y \in Seq(Char) /\ Len(x) = n /\ Len(y) = n
      BY <3>2, <3>3
    <3> HIDE DEF x, y
    <3>7. x = y
      BY <3>5, <3>6, SeqEqual
    <3> QED BY <3>7 DEF x, y
  <2> QED BY <1>4, <1>5, <2>1, <2>2
<1>6. CASE host[host_len] /= "."
  BY <1>3, <1>4, <1>6 DEF Undotted
<1> QED BY <1>5, <1>6

\* The hosts that a value scanned to its end names.
LEMMA NamedIs ==
    ASSUME TypeOK, Seen, AtEnd, state /= "literal"
    PROVE  Named(host) = IF NameLen = 0 THEN {} ELSE {SubSeq(host, 1, NameLen)}
<1>1. /\ \A k : Reading(host, k) <=> k = host_len /\ host_len /= 0
      /\ LastDot(host, dot_pos, host_len)
  BY OneReading
<1>2. host \in Seq(Char) /\ Len(host) \in Nat /\ host_len \in 0 .. Len(host)
  BY DEF TypeOK
<1>3. NameLen \in 0 .. Len(host)
  BY NameLenInValue
<1>4. CASE host_len = 0
  <2>1. {n \in 1 .. Len(host) : Reading(host, n)} = {}
    BY <1>1, <1>4
  <2>2. NameLen = 0
    BY <1>1, <1>4, NameLenIs
  <2> QED BY <1>2, <2>1, <2>2, NamedBy
<1>5. CASE host_len /= 0
  <2>1. {n \in 1 .. Len(host) : Reading(host, n)} = {host_len}
    BY <1>1, <1>2, <1>5
  <2>2. Named(host) = {Undotted(SubSeq(host, 1, host_len))} \ {<< >>}
    BY <1>2, <2>1, NamedBy
  <2>3. Named(host) = {SubSeq(host, 1, NameLen)} \ {<< >>}
    BY <1>1, <1>5, <2>2, UndottedIs
  <2>4. SubSeq(host, 1, NameLen) = << >> <=> NameLen = 0
    <3>1. 1 \in 1 .. Len(host) + 1 /\ NameLen \in 1 - 1 .. Len(host) /\ NameLen - 1 + 1 = NameLen
      BY <1>2, <1>3
    <3>2. /\ SubSeq(host, 1, NameLen) \in Seq(Char)
          /\ Len(SubSeq(host, 1, NameLen)) = NameLen
      BY <1>2, <3>1, Cut
    <3> DEFINE c == SubSeq(host, 1, NameLen)
    <3>3. PICK m \in Nat : m = NameLen
      BY <1>2, <1>3
    <3>4. c \in Seq(Char) /\ Len(c) = m
      BY <3>2, <3>3
    <3> HIDE DEF c
    <3>5. c = << >> <=> m = 0
      BY <3>4
    <3> QED BY <3>3, <3>5 DEF c
  <2> QED BY <2>3, <2>4
<1> QED BY <1>4, <1>5

\* A name without upper-case letters is its own copy.
LEMMA LoweredSame ==
    ASSUME NEW n \in 0 .. Len(host), host \in Seq(Char),
           \A j \in 1 .. Len(host) : host[j] \notin Upper
    PROVE  Lowered(SubSeq(host, 1, n)) = SubSeq(host, 1, n)
<1> DEFINE c == SubSeq(host, 1, n)
<1>1. Len(host) \in Nat /\ 1 \in 1 .. Len(host) + 1 /\ n \in 1 - 1 .. Len(host) /\ n - 1 + 1 = n
  OBVIOUS
<1>2. c \in Seq(Char) /\ Len(c) = n /\ \A j \in 1 .. n : c[j] = host[1 + j - 1]
  BY <1>1, Cut
<1> HIDE DEF c
<1>3. \A j \in DOMAIN c : c[j] \notin Upper
  <2> SUFFICES ASSUME NEW j \in DOMAIN c PROVE c[j] \notin Upper
    OBVIOUS
  <2>1. j \in 1 .. n /\ 1 + j - 1 = j /\ j \in 1 .. Len(host)
    BY <1>1, <1>2
  <2> QED BY <1>2, <2>1
<1>4. c = [j \in DOMAIN c |-> c[j]]
  BY <1>2
<1>5. Lowered(c) = c
  BY <1>3, <1>4 DEF Lowered
<1> QED BY <1>5 DEF c

\* What is accepted is the one host that the value names.
LEMMA AcceptExact ==
    ASSUME TypeOK, Seen, AcceptHost PROVE HostExact'
<1> DEFINE name == SubSeq(host, 1, NameLen)
<1>1. AtEnd /\ state /= "literal" /\ NameLen /= 0
      /\ rc' = "ok" /\ host' = host /\ server' = (IF alloc THEN Lowered(name) ELSE name)
  BY DEF AcceptHost, Finish
<1>2. Named(host) = {name}
  BY <1>1, NamedIs
<1>3. ~alloc => Lowered(name) = name
  <2>1. NameLen \in 0 .. Len(host) /\ host \in Seq(Char)
    BY NameLenInValue DEF TypeOK
  <2> QED BY <1>1, <2>1, OneReading, LoweredSame
<1>4. server' = Lowered(name)
  BY <1>1, <1>3
<1> HIDE DEF name
<1> QED BY <1>1, <1>2, <1>4 DEF HostExact

\* Every step.
LEMMA ExactStep ==
    ASSUME TypeOK, Seen, HostExact, [HostNext]_host_vars PROVE HostExact'
<1>1. CASE Call
  BY <1>1 DEF Call, Begin, HostExact
<1>2. CASE Return
  BY <1>2 DEF Return, Begin, HostExact
<1>3. CASE Scan
  <2>1. CASE OpenLiteral \/ Plain \/ UpperCase \/ EndOfName \/ CloseLiteral \/ EndOfLiteral
    <3>1. rc' = "scanning"
      BY <2>1 DEF OpenLiteral, Plain, UpperCase, EndOfName, CloseLiteral, EndOfLiteral,
                  InHost, Scanning, Advance
    <3> QED BY <3>1 DEF HostExact
  <2>2. CASE Dot
    <3>1. CASE DoubleDot
      BY <2>2, <3>1, DoubleDotUnread, DeclineExact DEF Dot
    <3>2. CASE ~DoubleDot
      BY <2>2, <3>2 DEF Dot, InHost, Scanning, Advance, HostExact
    <3> QED BY <3>1, <3>2
  <2>3. CASE PortDigit
    <3>1. CASE TooBig(Digit[ch])
      BY <2>3, <3>1, BigPortUnread, DeclineExact DEF PortDigit
    <3>2. CASE ~TooBig(Digit[ch])
      BY <2>3, <3>2 DEF PortDigit, Scanning, Advance, HostExact
    <3> QED BY <3>1, <3>2
  <2>4. CASE Unexpected
    BY <2>4, UnexpectedUnread, DeclineExact DEF Unexpected
  <2> QED BY <1>3, <2>1, <2>2, <2>3, <2>4 DEF Scan
<1>4. CASE Unclosed
  BY <1>4, UnclosedUnread, DeclineExact DEF Unclosed
<1>5. CASE NoName
  <2>1. AtEnd /\ state /= "literal" /\ NameLen = 0 /\ rc' = "declined" /\ host' = host
    BY <1>5 DEF NoName, Finish
  <2>2. Named(host) = {}
    BY <2>1, NamedIs
  <2> QED BY <2>1, <2>2 DEF HostExact
<1>6. CASE NoMemory
  BY <1>6 DEF NoMemory, Finish, HostExact
<1>7. CASE AcceptHost
  BY <1>7, AcceptExact
<1>8. CASE UNCHANGED host_vars
  BY <1>8 DEF host_vars, HostExact
<1> QED BY <1>1, <1>2, <1>3, <1>4, <1>5, <1>6, <1>7, <1>8 DEF HostNext

\* A Host of any length is accepted exactly when it is a name or an address literal
\* with an optional port of 16 bits, and what is handed back is that name alone.
THEOREM HostIsExact == HostSpec => []HostExact
<1>1. HostInit => Seen /\ HostExact
  BY DEF HostInit, Seen, HostExact
<1>2. TypeOK /\ Seen /\ HostExact /\ [HostNext]_host_vars => (Seen /\ HostExact)'
  BY SeenStep, ExactStep
<1> QED BY <1>1, <1>2, PositionsInValue, PTL DEF HostSpec

-----------------------------------------------------------------------------
\* The charset.

\* A value of a rule.
IsValue == value \in Seq(TypeChar) /\ Len(value) < TYPE_SIZE

LEMMA SpacesEnd ==
    ASSUME IsValue, NEW pos \in 0 .. end - 1
    PROVE  /\ AfterSpaces(pos) \in pos + 1 .. end
           /\ \A r \in pos + 1 .. AfterSpaces(pos) - 1 : At(r) = SPACE
           /\ AfterSpaces(pos) = end \/ At(AfterSpaces(pos)) /= SPACE
<1>1. end \in Nat
  BY DEF IsValue, end
<1> DEFINE S == {q \in pos + 1 .. end : q = end \/ At(q) /= SPACE}
<1>2. S \in SUBSET Nat /\ end \in S
  BY <1>1
<1>3. PICK m \in S : \A k \in S : m <= k
  BY <1>2, Least
<1>4. \A r \in pos + 1 .. m - 1 : At(r) = SPACE
  <2> SUFFICES ASSUME NEW r \in pos + 1 .. m - 1 PROVE At(r) = SPACE
    OBVIOUS
  <2>1. r \in pos + 1 .. end /\ r /= end /\ r < m
    BY <1>1
  <2>2. r \notin S
    BY <1>1, <1>3, <2>1
  <2> QED BY <2>1, <2>2
<1>5. \E q \in pos + 1 .. end :
         /\ \A r \in pos + 1 .. q - 1 : At(r) = SPACE
         /\ q = end \/ At(q) /= SPACE
  BY <1>4
<1> QED BY <1>5 DEF AfterSpaces

\* What stands at q is a parameter called charset, of the semicolon at s.
Opens(s, q) == At(s) = SEMICOLON /\ At(q) = NAME /\ IsSpace(s + 1, q - 1)

LEMMA ParametersOpen ==
    ASSUME NEW q
    PROVE  q \in Parameters <=> q \in 0 .. end - 1 /\ \E s \in 0 .. q - 1 : Opens(s, q)
  BY DEF Parameters, Opens

\* Of the parameters whose semicolon is in front of n none was missed.
Passed(n) == \A s \in 0 .. n - 1 : \A q \in s + 1 .. end - 1 : Opens(s, q) => BehindEmpty(q)

LEMMA PassedNone == Passed(0)
  BY DEF Passed

LEMMA PassedOne ==
    ASSUME NEW n \in Nat, Passed(n), At(n) /= SEMICOLON
    PROVE  Passed(n + 1)
<1> SUFFICES ASSUME NEW s \in 0 .. n, NEW q \in s + 1 .. end - 1, Opens(s, q)
             PROVE  BehindEmpty(q)
  BY DEF Passed
<1>1. s /= n
  BY DEF Opens
<1>2. s \in 0 .. n - 1
  BY <1>1
<1> QED BY <1>2 DEF Passed

\* The semicolon at n opens no parameter but the one behind its spaces.
LEMMA OpensNext ==
    ASSUME IsValue, NEW n \in 0 .. end - 1, At(n) = SEMICOLON, NEW q \in n + 1 .. end - 1, Opens(n, q)
    PROVE  q = AfterSpaces(n)
<1>1. end \in Nat
  BY DEF IsValue, end
<1>2. PICK a \in n + 1 .. end : a = AfterSpaces(n)
  BY SpacesEnd
<1>3. /\ \A r \in n + 1 .. a - 1 : At(r) = SPACE
      /\ a = end \/ At(a) /= SPACE
  BY <1>2, SpacesEnd
<1>4. ~(q < a)
  <2>1. q < a => q \in n + 1 .. a - 1
    BY <1>1
  <2>2. At(q) = NAME
    BY DEF Opens
  <2> QED BY <1>3, <2>1, <2>2, CharAssumption
<1>5. ~(a < q)
  <2>1. a < q => a \in n + 1 .. q - 1 /\ a /= end
    BY <1>1
  <2> QED BY <1>3, <2>1 DEF Opens, IsSpace
<1> QED BY <1>1, <1>2, <1>4, <1>5

\* Another parameter is passed over with what is in front of its second character.
LEMMA PassedParameter ==
    ASSUME IsValue, NEW n \in 0 .. end - 1, Passed(n), At(n) = SEMICOLON,
           AfterSpaces(n) /= end, At(AfterSpaces(n)) /= NAME
    PROVE  Passed(AfterSpaces(n) + 1)
<1>1. end \in Nat
  BY DEF IsValue, end
<1>2. PICK a \in n + 1 .. end : a = AfterSpaces(n)
  BY SpacesEnd
<1>3. \A r \in n + 1 .. a - 1 : At(r) = SPACE
  BY <1>2, SpacesEnd
<1> SUFFICES ASSUME NEW s \in 0 .. a, NEW q \in s + 1 .. end - 1, Opens(s, q)
             PROVE  BehindEmpty(q)
  BY <1>1, <1>2 DEF Passed
<1>4. CASE s < n
  BY <1>1, <1>4 DEF Passed
<1>5. CASE s = n
  <2>1. q = a
    BY <1>2, <1>5, OpensNext
  <2> QED BY <1>2, <2>1 DEF Opens
<1>6. CASE n < s /\ s < a
  <2>1. s \in n + 1 .. a - 1
    BY <1>1, <1>6
  <2>2. At(s) = SPACE /\ At(s) = SEMICOLON
    BY <1>3, <2>1 DEF Opens
  <2> QED BY <2>2, CharAssumption
<1>7. CASE s = a
  <2>1. n \in 0 .. q - 1 /\ s \in n + 1 .. q - 1
    BY <1>1, <1>7
  <2>2. IsSpace(n + 1, s - 1)
    BY <1>3, <1>7 DEF IsSpace
  <2> QED BY <2>1, <2>2 DEF BehindEmpty, Opens
<1> QED BY <1>1, <1>4, <1>5, <1>6, <1>7

\* At the end of the value, or of the spaces there, all are passed.
LEMMA PassedAll ==
    ASSUME IsValue, NEW n \in 0 .. end, Passed(n),
           n = end \/ (At(n) = SEMICOLON /\ AfterSpaces(n) = end)
    PROVE  \A q \in Parameters : BehindEmpty(q)
<1>1. end \in Nat
  BY DEF IsValue, end
<1> SUFFICES ASSUME NEW q \in 0 .. end - 1, NEW s \in 0 .. q - 1, Opens(s, q)
             PROVE  BehindEmpty(q)
  BY ParametersOpen
<1>2. CASE s < n
  BY <1>1, <1>2 DEF Passed
<1>3. CASE s = n
  <2>1. n \in 0 .. end - 1 /\ q \in n + 1 .. end - 1
    BY <1>1, <1>3
  <2>2. q = AfterSpaces(n)
    BY <1>3, <2>1, OpensNext DEF Opens
  <2> QED BY <1>1, <1>3, <2>2
<1>4. CASE n < s
  <2>1. n \in 0 .. end - 1 /\ AfterSpaces(n) = end /\ s \in n + 1 .. AfterSpaces(n) - 1
    BY <1>1, <1>4
  <2>2. At(s) = SPACE /\ At(s) = SEMICOLON
    BY <2>1, SpacesEnd DEF Opens
  <2> QED BY <2>2, CharAssumption
<1> QED BY <1>1, <1>2, <1>3, <1>4

\* The charset parameter at q is the one found: nothing in front of it was missed.
Text(q) == SubSeq(value, q + 2, end)
OpenAt(q) == IF Text(q) /= << >> /\ Text(q)[1] = QUOTE THEN 1 ELSE 0
CloseAt(q) == IF Len(Text(q)) > 1 /\ Text(q)[Len(Text(q))] = QUOTE THEN 1 ELSE 0

Chosen(q, tl, cs) ==
    /\ \A r \in Parameters : r < q => BehindEmpty(r)
    /\ tl < q /\ At(tl) = SEMICOLON /\ IsSpace(tl + 1, q - 1)
    /\ cs.from = q + 1 + OpenAt(q)
    /\ cs.len = Len(Text(q)) - (OpenAt(q) + CloseAt(q)) \/ Text(q) = <<QUOTE>>

LEMMA ExactByChosen ==
    CharsetExact <=> (pc = "done" =>
        \/ charset = before /\ type_len = end /\ \A q \in Parameters : BehindEmpty(q)
        \/ \E q \in Parameters : Chosen(q, type_len, charset))
  BY DEF CharsetExact, Chosen, Text, OpenAt, CloseAt

\* What is in front of the parameter behind n was passed.
LEMMA PassedFront ==
    ASSUME IsValue, NEW n \in 0 .. end - 1, Passed(n), At(n) = SEMICOLON,
           AfterSpaces(n) /= end
    PROVE  \A r \in Parameters : r < AfterSpaces(n) => BehindEmpty(r)
<1>1. end \in Nat
  BY DEF IsValue, end
<1>2. PICK a \in n + 1 .. end : a = AfterSpaces(n)
  BY SpacesEnd
<1>3. \A r \in n + 1 .. a - 1 : At(r) = SPACE
  BY <1>2, SpacesEnd
<1> SUFFICES ASSUME NEW r \in 0 .. end - 1, NEW s \in 0 .. r - 1, Opens(s, r), r < a
             PROVE  BehindEmpty(r)
  BY <1>2, ParametersOpen
<1>4. CASE s < n
  BY <1>1, <1>4 DEF Passed
<1>5. CASE n <= s
  <2>1. r \in n + 1 .. a - 1
    BY <1>1, <1>5
  <2>2. At(r) = SPACE /\ At(r) = NAME
    BY <1>3, <2>1 DEF Opens
  <2> QED BY <2>2, CharAssumption
<1> QED BY <1>1, <1>4, <1>5

\* The length without the quotes, but for a single quote.
LEMMA QuotesOff ==
    ASSUME IsValue, NEW q \in 0 .. end - 1, At(q) = NAME
    PROVE  /\ Opened(q + 1) = q + 1 + OpenAt(q)
           /\ \/ Text(q) = <<QUOTE>> /\ At(end - 2) = NAME /\ At(end - 1) = QUOTE
              \/ /\ (Closed - Opened(q + 1)) % TYPE_SIZE = Len(Text(q)) - (OpenAt(q) + CloseAt(q))
                 /\ Opened(q + 1) + (Len(Text(q)) - (OpenAt(q) + CloseAt(q))) <= end
<1>1. /\ end \in Nat /\ end < TYPE_SIZE /\ TYPE_SIZE \in Nat /\ end = Len(value)
      /\ value \in Seq(TypeChar)
  BY ValuesAssumption DEF IsValue, end
<1> DEFINE t == Text(q)  l == end - (q + 1)
<1>2. l \in Nat
  BY <1>1
<1>3. t \in Seq(TypeChar) /\ Len(t) = l /\ \A k \in 1 .. l : t[k] = At(q + k)
  BY <1>1, <1>2 DEF Text, At
<1> HIDE DEF t, l
<1>4. OpenAt(q) = IF l > 0 /\ At(q + 1) = QUOTE THEN 1 ELSE 0
  <2>1. CASE l > 0
    <3>1. t /= << >> /\ t[1] = At(q + 1)
      BY <1>2, <1>3, <2>1
    <3> QED BY <2>1, <3>1 DEF OpenAt, t
  <2>2. CASE ~(l > 0)
    <3>1. t = << >>
      BY <1>2, <1>3, <2>2
    <3> QED BY <2>2, <3>1 DEF OpenAt, t
  <2> QED BY <2>1, <2>2
<1>5. CloseAt(q) = IF l > 1 /\ At(end - 1) = QUOTE THEN 1 ELSE 0
  <2>1. CASE l > 1
    <3>1. Len(t) > 1 /\ t[Len(t)] = At(q + l)
      BY <1>2, <1>3, <2>1
    <3>2. q + l = end - 1
      BY <1>1 DEF l
    <3> QED BY <2>1, <3>1, <3>2 DEF CloseAt, t
  <2>2. CASE ~(l > 1)
    <3>1. ~(Len(t) > 1)
      BY <1>3, <2>2
    <3> QED BY <2>2, <3>1 DEF CloseAt, t
  <2> QED BY <2>1, <2>2
<1>6. Opened(q + 1) = q + 1 + OpenAt(q)
  BY <1>1, <1>4 DEF Opened, l
<1>7. CASE l < 2 /\ l > 0 /\ At(q + 1) = QUOTE
  <2>1. Len(t) = 1 /\ t[1] = QUOTE
    BY <1>2, <1>3, <1>7
  <2>2. t = <<QUOTE>>
    BY <1>3, <2>1
  <2>3. end - 2 = q /\ end - 1 = q + 1
    BY <1>1, <1>2, <1>7 DEF l
  <2> QED BY <1>6, <1>7, <2>2, <2>3 DEF t
<1>8. CASE ~(l < 2 /\ l > 0 /\ At(q + 1) = QUOTE)
  <2>1. Closed = end - CloseAt(q)
    <3>1. CASE l > 1
      BY <1>1, <1>5, <3>1 DEF Closed
    <3>2. CASE l < 2 /\ l > 0
      <4>1. end - 1 = q + 1
        BY <1>1, <1>2, <3>2 DEF l
      <4>2. At(end - 1) /= QUOTE
        BY <1>8, <3>2, <4>1
      <4> QED BY <1>1, <1>5, <4>2 DEF Closed
    <3>3. CASE ~(l > 0)
      <4>1. end - 1 = q
        BY <1>1, <1>2, <3>3 DEF l
      <4>2. At(end - 1) /= QUOTE
        BY <4>1, CharAssumption
      <4> QED BY <1>1, <1>5, <4>2 DEF Closed
    <3> QED BY <1>2, <3>1, <3>2, <3>3
  <2>2. OpenAt(q) \in 0 .. 1 /\ CloseAt(q) \in 0 .. 1 /\ OpenAt(q) + CloseAt(q) <= l
    BY <1>2, <1>4, <1>5, <1>8
  <2>3. Closed - Opened(q + 1) = l - (OpenAt(q) + CloseAt(q))
    BY <1>1, <1>6, <2>1, <2>2 DEF l
  <2> DEFINE d == l - (OpenAt(q) + CloseAt(q))
  <2>4. d \in Nat /\ d < TYPE_SIZE
    BY <1>1, <1>2, <2>2 DEF l
  <2> HIDE DEF d
  <2>5. d % TYPE_SIZE = d
    BY <1>1, <2>4
  <2>6. Opened(q + 1) + (l - (OpenAt(q) + CloseAt(q))) <= end
    BY <1>1, <1>2, <1>6, <2>2 DEF l
  <2> QED BY <1>3, <1>6, <2>3, <2>5, <2>6 DEF d, t
<1> QED BY <1>7, <1>8

\* Where the value stays, so does what is found in it.
LEMMA SpacesStay ==
    ASSUME value' = value, NEW a, NEW b
    PROVE  IsSpace(a, b)' <=> IsSpace(a, b)
  BY DEF IsSpace, At

LEMMA EmptyStays ==
    ASSUME value' = value, NEW q
    PROVE  BehindEmpty(q)' <=> BehindEmpty(q)
<1>1. \A a, b : IsSpace(a, b)' <=> IsSpace(a, b)
  BY SpacesStay
<1>2. \A k : At(k)' = At(k)
  BY DEF At
<1> QED BY <1>1, <1>2 DEF BehindEmpty

LEMMA ParametersStay == ASSUME value' = value PROVE Parameters' = Parameters
<1>1. \A a, b : IsSpace(a, b)' <=> IsSpace(a, b)
  BY SpacesStay
<1>2. end' = end /\ \A k : At(k)' = At(k)
  BY DEF At, end
<1> QED BY <1>1, <1>2 DEF Parameters

LEMMA PassedStays ==
    ASSUME value' = value, NEW n, Passed(n), p' = n
    PROVE  Passed(p)'
<1>1. end' = end
  BY DEF end
<1>2. \A s, q : Opens(s, q)' <=> Opens(s, q)
  BY SpacesStay DEF Opens, At
<1>3. \A q : BehindEmpty(q)' <=> BehindEmpty(q)
  BY EmptyStays
<1> QED BY <1>1, <1>2, <1>3 DEF Passed

LEMMA ChosenStays ==
    ASSUME value' = value, NEW q, Chosen(q, type_len', charset')
    PROVE  Chosen(q, type_len, charset)'
<1>1. Text(q)' = Text(q) /\ OpenAt(q)' = OpenAt(q) /\ CloseAt(q)' = CloseAt(q)
  BY DEF Text, OpenAt, CloseAt, end
<1>2. At(type_len)' = At(type_len') /\ (IsSpace(type_len + 1, q - 1)' <=> IsSpace(type_len' + 1, q - 1))
  BY DEF At, IsSpace
<1>3. Parameters' = Parameters /\ \A r : BehindEmpty(r)' <=> BehindEmpty(r)
  BY ParametersStay, EmptyStays
<1> QED BY <1>1, <1>2, <1>3 DEF Chosen

LEMMA ExactNext ==
    ASSUME value' = value,
           pc' = "done" =>
             \/ charset' = before' /\ type_len' = end /\ \A q \in Parameters : BehindEmpty(q)
             \/ \E q \in Parameters : Chosen(q, type_len', charset')
    PROVE  CharsetExact'
<1>1. end' = end
  BY DEF end
<1>2. Parameters' = Parameters /\ \A r : BehindEmpty(r)' <=> BehindEmpty(r)
  BY ParametersStay, EmptyStays
<1>3. \A q : Chosen(q, type_len', charset') => Chosen(q, type_len, charset)'
  BY ChosenStays
<1>4. (pc = "done" =>
        \/ charset = before /\ type_len = end /\ \A q \in Parameters : BehindEmpty(q)
        \/ \E q \in Parameters : Chosen(q, type_len, charset))'
  BY <1>1, <1>2, <1>3
<1> QED BY <1>4 DEF CharsetExact, Chosen, Text, OpenAt, CloseAt

\* What the scan knows: nothing in front of it was missed.
ScanInv ==
    /\ IsValue
    /\ p \in 0 .. end
    /\ pc \in {"idle", "scanning", "done"}
    /\ pc /= "done" => charset = before
    /\ pc = "scanning" => type_len = end /\ Passed(p)

LEMMA ScanInit == TypeInit => ScanInv /\ CharsetExact /\ CharsetInValue
<1> SUFFICES ASSUME TypeInit PROVE ScanInv /\ CharsetExact /\ CharsetInValue
  OBVIOUS
<1>1. value \in Seq(TypeChar) /\ Len(value) < TYPE_SIZE /\ Len(value) \in Nat
  BY ValuesAssumption DEF TypeInit
<1>2. pc = "idle" /\ p = 0 /\ charset = before
  BY DEF TypeInit
<1>3. ScanInv
  BY <1>1, <1>2 DEF ScanInv, IsValue, end
<1>4. CharsetExact
  BY <1>2 DEF CharsetExact
<1>5. CharsetInValue
  BY <1>2 DEF CharsetInValue, Found
<1> QED BY <1>3, <1>4, <1>5

\* The step that finds a charset.
LEMMA CharsetStep ==
    ASSUME ScanInv, Charset PROVE CharsetExact' /\ CharsetInValue'
<1>1. /\ IsValue /\ end \in Nat /\ p \in 0 .. end - 1 /\ Passed(p) /\ At(p) = SEMICOLON
      /\ AfterSpaces(p) /= end /\ At(AfterSpaces(p)) = NAME
  <2>1. IsValue /\ p \in 0 .. end /\ p /= end /\ Passed(p)
    BY DEF ScanInv, Charset, Semicolon, Looking
  <2>2. end \in Nat
    BY <2>1 DEF IsValue, end
  <2>3. At(p) = SEMICOLON /\ AfterSpaces(p) /= end /\ At(AfterSpaces(p)) = NAME
    BY DEF Charset, Semicolon
  <2> QED BY <2>1, <2>2, <2>3
<1>2. PICK q \in p + 1 .. end : q = AfterSpaces(p)
  BY <1>1, SpacesEnd
<1>3. q \in 0 .. end - 1 /\ At(q) = NAME /\ q /= end /\ p < q
  BY <1>1, <1>2
<1>4. \A r \in p + 1 .. q - 1 : At(r) = SPACE
  BY <1>1, <1>2, SpacesEnd
<1>5. q \in Parameters
  <2>1. p \in 0 .. q - 1 /\ Opens(p, q)
    BY <1>1, <1>3, <1>4 DEF Opens, IsSpace
  <2> QED BY <1>3, <2>1, ParametersOpen
<1>6. /\ value' = value /\ type_len' = p /\ pc' = "done"
      /\ charset' = [from |-> Opened(q + 1), len |-> (Closed - Opened(q + 1)) % TYPE_SIZE]
  BY <1>2 DEF Charset
<1>7. charset'.from = Opened(q + 1) /\ charset'.len = (Closed - Opened(q + 1)) % TYPE_SIZE
  BY <1>6
<1>8. /\ Opened(q + 1) = q + 1 + OpenAt(q)
      /\ \/ Text(q) = <<QUOTE>> /\ At(end - 2) = NAME /\ At(end - 1) = QUOTE
         \/ /\ charset'.len = Len(Text(q)) - (OpenAt(q) + CloseAt(q))
            /\ charset'.from + charset'.len <= end
  <2>1. /\ Opened(q + 1) = q + 1 + OpenAt(q)
        /\ \/ Text(q) = <<QUOTE>> /\ At(end - 2) = NAME /\ At(end - 1) = QUOTE
           \/ /\ (Closed - Opened(q + 1)) % TYPE_SIZE = Len(Text(q)) - (OpenAt(q) + CloseAt(q))
              /\ Opened(q + 1) + (Len(Text(q)) - (OpenAt(q) + CloseAt(q))) <= end
    BY <1>1, <1>3, QuotesOff
  <2> QED BY <1>7, <2>1
<1>9. \A r \in Parameters : r < q => BehindEmpty(r)
  BY <1>1, <1>2, PassedFront
<1>10. Chosen(q, type_len', charset')
  BY <1>1, <1>3, <1>4, <1>6, <1>7, <1>8, <1>9 DEF Chosen, IsSpace
<1>11. CharsetExact'
  BY <1>5, <1>6, <1>10, ExactNext
<1>12. CharsetInValue'
  <2>1. end' = end /\ At(end - 2)' = At(end - 2) /\ At(end - 1)' = At(end - 1)
    BY <1>6 DEF end, At
  <2>2. \/ charset'.from + charset'.len <= end
        \/ At(end - 2) = NAME /\ At(end - 1) = QUOTE
    BY <1>8
  <2> QED BY <2>1, <2>2 DEF CharsetInValue
<1> QED BY <1>11, <1>12

\* A step that ends without one.
LEMMA NoneStep ==
    ASSUME ScanInv, Over \/ NothingBehind PROVE CharsetExact' /\ CharsetInValue'
<1>1. /\ value' = value /\ charset' = charset /\ before' = before /\ type_len' = type_len
      /\ pc = "scanning" /\ charset = before
  BY DEF ScanInv, Over, NothingBehind, Semicolon, Looking
<1>2. IsValue /\ p \in 0 .. end /\ Passed(p) /\ type_len = end
  BY <1>1 DEF ScanInv
<1>3. p = end \/ (At(p) = SEMICOLON /\ AfterSpaces(p) = end)
  BY DEF Over, NothingBehind, Semicolon
<1>4. \A q \in Parameters : BehindEmpty(q)
  BY <1>2, <1>3, PassedAll
<1>5. CharsetExact'
  BY <1>1, <1>2, <1>4, ExactNext
<1>6. CharsetInValue'
  BY <1>1 DEF CharsetInValue, Found
<1> QED BY <1>5, <1>6

\* Where the scan is after a step.
LEMMA ScanStep ==
    ASSUME ScanInv, [TypeNext]_type_vars PROVE ScanInv'
<1>1. /\ IsValue /\ p \in 0 .. end /\ end \in Nat
  BY DEF ScanInv, IsValue, end
<1>2. CASE BeginScan
  <2>1. /\ value' \in Values /\ p' = 0 /\ pc' = "scanning" /\ charset' = charset
        /\ before' = before /\ type_len' = Len(value') /\ charset = before
    BY <1>2 DEF BeginScan, ScanInv
  <2>2. value' \in Seq(TypeChar) /\ Len(value') < TYPE_SIZE /\ Len(value') \in Nat
    BY <2>1, ValuesAssumption
  <2>3. Passed(p)'
    BY <2>1 DEF Passed
  <2> QED BY <2>1, <2>2, <2>3 DEF ScanInv, IsValue, end
<1>3. CASE Other
  <2>1. /\ value' = value /\ p' = p + 1 /\ pc' = pc /\ charset' = charset /\ before' = before
        /\ type_len' = type_len /\ pc = "scanning" /\ p /= end /\ At(p) /= SEMICOLON
    BY <1>3 DEF Other, Looking
  <2>2. Passed(p + 1)
    BY <1>1, <2>1, PassedOne DEF ScanInv
  <2>3. Passed(p)'
    BY <2>1, <2>2, PassedStays
  <2>4. p + 1 \in 0 .. end
    BY <1>1, <2>1
  <2> QED BY <2>1, <2>3, <2>4 DEF ScanInv, IsValue, end
<1>4. CASE OtherParameter
  <2>1. /\ value' = value /\ p' = AfterSpaces(p) + 1 /\ pc' = pc /\ charset' = charset
        /\ before' = before /\ type_len' = type_len /\ pc = "scanning" /\ p /= end
        /\ At(p) = SEMICOLON /\ AfterSpaces(p) /= end /\ At(AfterSpaces(p)) /= NAME
    BY <1>4 DEF OtherParameter, Semicolon, Looking
  <2>2. p \in 0 .. end - 1 /\ Passed(p)
    BY <1>1, <2>1 DEF ScanInv
  <2>3. Passed(AfterSpaces(p) + 1)
    BY <1>1, <2>1, <2>2, PassedParameter
  <2>4. Passed(p)'
    BY <2>1, <2>3, PassedStays
  <2>5. AfterSpaces(p) \in p + 1 .. end
    BY <1>1, <2>2, SpacesEnd
  <2>6. AfterSpaces(p) + 1 \in 0 .. end
    BY <1>1, <2>1, <2>5
  <2> QED BY <2>1, <2>4, <2>6 DEF ScanInv, IsValue, end
<1>5. CASE Over \/ NothingBehind \/ Charset
  <2>1. value' = value /\ pc' = "done"
    BY <1>5 DEF Over, NothingBehind, Charset
  <2>2. p' = p \/ p' = end
    BY <1>5 DEF Over, NothingBehind, Charset
  <2>3. p' \in 0 .. end
    BY <1>1, <2>2
  <2> QED BY <2>1, <2>3 DEF ScanInv, IsValue, end
<1>6. CASE UNCHANGED type_vars
  <2>1. /\ value' = value /\ p' = p /\ pc' = pc /\ charset' = charset
        /\ before' = before /\ type_len' = type_len
    BY <1>6 DEF type_vars
  <2>2. Passed(p) => Passed(p)'
    BY <2>1, PassedStays
  <2> QED BY <2>1, <2>2 DEF ScanInv, IsValue, end
<1> QED BY <1>2, <1>3, <1>4, <1>5, <1>6 DEF TypeNext

LEMMA CharsetNext ==
    ASSUME ScanInv, CharsetExact, CharsetInValue, [TypeNext]_type_vars
    PROVE  CharsetExact' /\ CharsetInValue'
<1>1. CASE BeginScan \/ Other \/ OtherParameter
  <2>1. pc' = "scanning"
    BY <1>1 DEF BeginScan, Other, OtherParameter, Semicolon, Looking
  <2> QED BY <2>1 DEF CharsetExact, CharsetInValue, Found
<1>2. CASE Over \/ NothingBehind
  BY <1>2, NoneStep
<1>3. CASE Charset
  BY <1>3, CharsetStep
<1>4. CASE UNCHANGED type_vars
  <2>1. /\ value' = value /\ charset' = charset /\ before' = before
        /\ type_len' = type_len /\ pc' = pc
    BY <1>4 DEF type_vars
  <2>2. CharsetExact'
    BY <2>1, ExactByChosen, ExactNext
  <2>3. CharsetInValue'
    BY <2>1 DEF CharsetInValue, Found, At, end
  <2> QED BY <2>2, <2>3
<1> QED BY <1>1, <1>2, <1>3, <1>4 DEF TypeNext

LEMMA ScanHolds == TypeSpec => [](ScanInv /\ CharsetExact /\ CharsetInValue)
<1>1. TypeInit => ScanInv /\ CharsetExact /\ CharsetInValue
  BY ScanInit
<1>2. ScanInv /\ CharsetExact /\ CharsetInValue /\ [TypeNext]_type_vars
        => (ScanInv /\ CharsetExact /\ CharsetInValue)'
  BY ScanStep, CharsetNext
<1> QED BY <1>1, <1>2, PTL DEF TypeSpec

\* The charset is what is behind the first charset parameter, up to the value's end and
\* without its quotes, for values of any length; if there is none, the one before stays.
THEOREM CharsetFound == TypeSpec => []CharsetExact
  BY ScanHolds, PTL

\* It is within the value, but behind a value that ends in charset=".
THEOREM CharsetStaysInValue == TypeSpec => []CharsetInValue
  BY ScanHolds, PTL
=============================================================================
