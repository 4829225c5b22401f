-------------------------- MODULE NTPClientProofs --------------------------
(***************************************************************************)
(* For every list of servers, number of requests, window, size of the      *)
(* bytes and number of faults: the client stays in step with its answers,  *)
(* and the offsets and dispersions it prints are right.                    *)
(*                                                                         *)
(* First the arithmetic: division, the powers of Base, and that ntp.c      *)
(* reads the bytes of a time as the time itself, less the eras before      *)
(* (TimeRead).  Then the invariant: no request is ahead of the loops       *)
(* (Numbered), without duplicates only the packet the client waits for is  *)
(* under way (InStep), what a packet is stamped with lies between the      *)
(* times of its client (Stamped), and the rows printed are the entries of  *)
(* RTT (Rows).                                                             *)
(***************************************************************************)
EXTENDS NTPClient, SeqLemmas

-----------------------------------------------------------------------------
(* Division.                                                               *)

LEMMA Division ==
  ASSUME NEW x \in Int, NEW b \in Nat \ {0}
  PROVE  /\ x \div b \in Int /\ x % b \in 0..(b - 1)
         /\ x = (x \div b) * b + (x % b)
OBVIOUS

\* A product of two positive numbers is positive, and no multiple of b but
\* zero lies within b of zero.
LEMMA Positive ==
  ASSUME NEW a \in Nat \ {0}, NEW b \in Nat \ {0}
  PROVE  a * b \in Nat \ {0}
OBVIOUS

LEMMA SmallMultiple ==
  ASSUME NEW b \in Nat \ {0}, NEW d \in Int, -b < d * b, d * b < b
  PROVE  d = 0
<1>1. ~(d >= 1)
  <2>1. SUFFICES ASSUME d >= 1 PROVE FALSE
    OBVIOUS
  <2>2. (d - 1) * b >= 0
    BY <2>1
  <2>3. d * b = (d - 1) * b + b
    OBVIOUS
  <2>4. QED
    BY <2>2, <2>3
<1>2. ~(d <= -1)
  <2>1. SUFFICES ASSUME d <= -1 PROVE FALSE
    OBVIOUS
  <2>2. (-d - 1) * b >= 0
    BY <2>1
  <2>3. d * b = -((-d - 1) * b) - b
    OBVIOUS
  <2>4. QED
    BY <2>2, <2>3
<1>3. QED
  BY <1>1, <1>2

LEMMA DivisionUnique ==
  ASSUME NEW x \in Int, NEW b \in Nat \ {0}, NEW q \in Int, NEW r \in 0..(b - 1),
         x = q * b + r
  PROVE  x \div b = q /\ x % b = r
<1> DEFINE d == q - x \div b
<1>1. /\ x \div b \in Int /\ x % b \in 0..(b - 1)
      /\ x = (x \div b) * b + (x % b)
  BY Division
<1>2. d * b = q * b - (x \div b) * b
  BY <1>1
<1>3. d \in Int /\ -b < d * b /\ d * b < b
  BY <1>1, <1>2
<1> HIDE DEF d
<1>4. d = 0
  BY <1>3, SmallMultiple
<1>5. QED
  BY <1>1, <1>4 DEF d

\* The last digits of a number are those of the digits before the last.
LEMMA TwoDigits ==
  ASSUME NEW x \in Int, NEW a \in Nat \ {0}, NEW b \in Nat \ {0}
  PROVE  /\ a * b \in Nat \ {0}
         /\ x % (a * b) = (x % a) + ((x \div a) % b) * a
<1> DEFINE q == x \div a
           r == x % a
           e == q \div b
           d == q % b
<1>1. q \in Int /\ r \in 0..(a - 1) /\ x = q * a + r
  BY Division
<1> HIDE DEF q, r
<1>2. e \in Int /\ d \in 0..(b - 1) /\ q = e * b + d
  BY <1>1, Division
<1> HIDE DEF e, d
<1>3. a * b \in Nat \ {0}
  BY Positive
<1>4. d * a + r \in 0..(a * b - 1)
  <2>1. d * a >= 0
    BY <1>2
  <2>2. (b - 1 - d) * a >= 0
    BY <1>2
  <2>3. (b - 1 - d) * a = a * b - a - d * a
    BY <1>2
  <2>4. QED
    BY <1>1, <1>2, <1>3, <2>1, <2>2, <2>3
<1>5. x = e * (a * b) + (d * a + r)
  <2>1. q * a = (e * b) * a + d * a
    BY <1>2
  <2>2. (e * b) * a = e * (a * b)
    BY <1>2
  <2>3. QED
    BY <1>1, <1>2, <2>1, <2>2
<1>6. x % (a * b) = d * a + r
  BY <1>2, <1>3, <1>4, <1>5, DivisionUnique
<1>7. QED
  BY <1>1, <1>2, <1>3, <1>6 DEF q, r, d

-----------------------------------------------------------------------------
(* Recursive functions.  A set of naturals that is not empty has a         *)
(* smallest element (SmallestNat), which serves for induction.             *)

Follows(f, n, first, factor, term) ==
  /\ f \in [0..n -> Int] /\ f[0] = first
  /\ \A k \in 1..n : f[k] = factor[k] * f[k - 1] + term[k]

LEMMA RecursionExists ==
  ASSUME NEW N \in Nat, NEW first \in Int,
         NEW factor \in [1..N -> Int], NEW term \in [1..N -> Int]
  PROVE  \E f : Follows(f, N, first, factor, term)
<1> SUFFICES ASSUME ~\E f : Follows(f, N, first, factor, term) PROVE FALSE
  OBVIOUS
<1> DEFINE Bad == {n \in 0..N : ~\E f : Follows(f, n, first, factor, term)}
<1>1. N \in Bad
  <2>1. N \in 0..N
    OBVIOUS
  <2>2. QED
    BY <2>1
<1>2. PICK n : n \in Bad /\ \A y \in Bad : n <= y
  <2>1. Bad \subseteq Nat
    OBVIOUS
  <2> HIDE DEF Bad
  <2>2. QED
    BY <1>1, <2>1, SmallestNat
<1>3. n # 0
  <2>1. Follows([k \in 0..0 |-> first], 0, first, factor, term)
    BY DEF Follows
  <2>2. QED
    BY <1>2, <2>1
<1>4. n \in 1..N /\ n - 1 \in 0..N /\ n - 1 \notin Bad
  BY <1>2, <1>3
<1>5. PICK f : Follows(f, n - 1, first, factor, term)
  BY <1>4
<1> DEFINE h == [k \in 0..n |-> IF k = n THEN factor[n] * f[n - 1] + term[n] ELSE f[k]]
<1>6. Follows(h, n, first, factor, term)
  <2>1. f[n - 1] \in Int /\ factor[n] \in Int /\ term[n] \in Int
    BY <1>4, <1>5 DEF Follows
  <2>2. factor[n] * f[n - 1] + term[n] \in Int
    BY <2>1
  <2>3. \A k \in 0..(n - 1) : f[k] \in Int
    BY <1>4, <1>5 DEF Follows
  <2>4. \A k \in 0..n : h[k] \in Int
    BY <1>4, <2>2, <2>3
  <2>5. h \in [0..n -> Int]
    BY <2>4
  <2>6. h[0] = first
    BY <1>4, <1>5 DEF Follows
  <2>7. ASSUME NEW k \in 1..n PROVE h[k] = factor[k] * h[k - 1] + term[k]
    <3>1. h[k - 1] = f[k - 1]
      BY <1>4
    <3>2. CASE k = n
      BY <1>4, <3>1, <3>2
    <3>3. CASE k # n
      <4>1. k \in 1..(n - 1) /\ h[k] = f[k]
        BY <1>4, <3>3
      <4>2. QED
        BY <1>5, <3>1, <4>1 DEF Follows
    <3>4. QED
      BY <3>2, <3>3
  <2> HIDE DEF h
  <2>8. QED
    BY <2>5, <2>6, <2>7 DEF Follows
<1>7. QED
  BY <1>2, <1>6

LEMMA Powers ==
  /\ Power[0] = 1
  /\ \A n \in 0..Width : Power[n] \in Nat \ {0}
  /\ \A n \in 1..Width : Power[n] = Power[n - 1] * Base
<1> DEFINE D(f) == [n \in 0..Width |-> IF n = 0 THEN 1 ELSE Base * f[n - 1]]
           factor == [n \in 1..Width |-> Base]
           term == [n \in 1..Width |-> 0]
<1>1. Base \in Nat \ {0} /\ Width \in Nat
  BY TimesAssumption
<1>2. PICK F : Follows(F, Width, 1, factor, term)
  <2>1. factor \in [1..Width -> Int] /\ term \in [1..Width -> Int]
    BY <1>1
  <2> HIDE DEF factor, term
  <2>2. QED
    BY <1>1, <2>1, RecursionExists
<1>3. F = D(F)
  <2>1. F \in [0..Width -> Int] /\ F[0] = 1
    BY <1>2 DEF Follows
  <2>2. ASSUME NEW n \in 1..Width PROVE F[n] = Base * F[n - 1]
    <3>1. F[n] = factor[n] * F[n - 1] + term[n]
      BY <1>2 DEF Follows
    <3>2. n - 1 \in 0..Width
      BY <1>1
    <3>3. F[n - 1] \in Int
      BY <2>1, <3>2
    <3>4. factor[n] = Base /\ term[n] = 0
      OBVIOUS
    <3> HIDE DEF factor, term
    <3>5. QED
      BY <1>1, <3>1, <3>3, <3>4
  <2>3. QED
    BY <1>1, <2>1, <2>2
<1>4. Power = CHOOSE f : f = D(f)
  BY DEF Power
<1> HIDE DEF D
<1>5. Power = D(Power)
  BY <1>3, <1>4
<1>6. /\ Power[0] = 1
      /\ \A n \in 1..Width : Power[n] = Base * Power[n - 1]
  <2>1. \A n \in 0..Width : Power[n] = IF n = 0 THEN 1 ELSE Base * Power[n - 1]
    BY <1>5 DEF D
  <2>2. 0 \in 0..Width /\ \A n \in 1..Width : n \in 0..Width /\ n # 0
    BY <1>1
  <2>3. QED
    BY <2>1, <2>2
<1> DEFINE Bad == {n \in 0..Width : Power[n] \notin Nat \ {0}}
<1>7. Bad = {}
  <2>1. SUFFICES ASSUME Bad # {} PROVE FALSE
    OBVIOUS
  <2>2. PICK n : n \in Bad /\ \A y \in Bad : n <= y
    <3>1. Bad \subseteq Nat
      OBVIOUS
    <3> HIDE DEF Bad
    <3>2. QED
      BY <2>1, <3>1, SmallestNat
  <2>3. n \in 1..Width /\ n - 1 \in 0..Width
    BY <1>1, <1>6, <2>2
  <2>4. Power[n - 1] \in Nat \ {0}
    BY <2>2, <2>3
  <2>5. Power[n] = Base * Power[n - 1]
    BY <1>6, <2>3
  <2>6. Base * Power[n - 1] \in Nat \ {0}
    BY <1>1, <2>4, Positive
  <2>7. QED
    BY <2>2, <2>5, <2>6
<1>8. \A n \in 1..Width : Power[n] = Power[n - 1] * Base
  <2>1. ASSUME NEW n \in 1..Width PROVE Power[n] = Power[n - 1] * Base
    <3>1. n - 1 \in 0..Width
      BY <1>1
    <3>2. Power[n - 1] \in Nat
      BY <1>7, <3>1
    <3>3. QED
      BY <1>1, <1>6, <3>2
  <2>2. QED
    BY <2>1
<1>9. QED
  BY <1>6, <1>7, <1>8

\* Base^(a + b) = Base^a * Base^b
LEMMA PowersAdd ==
  ASSUME NEW a \in Nat, NEW b \in Nat, a + b <= Width
  PROVE  Power[a + b] = Power[a] * Power[b]
<1> SUFFICES ASSUME Power[a + b] # Power[a] * Power[b] PROVE FALSE
  OBVIOUS
<1> DEFINE Bad == {n \in 0..b : Power[a + n] # Power[a] * Power[n]}
<1>1. Base \in Nat /\ Width \in Nat
  BY TimesAssumption
<1>2. PICK n : n \in Bad /\ \A y \in Bad : n <= y
  <2>1. Bad \subseteq Nat /\ b \in Bad
    OBVIOUS
  <2> HIDE DEF Bad
  <2>2. QED
    BY <2>1, SmallestNat
<1>3. Power[a] \in Nat
  BY <1>1, Powers
<1>4. n # 0
  <2>1. SUFFICES ASSUME n = 0 PROVE FALSE
    OBVIOUS
  <2>2. Power[a + 0] = Power[a] * Power[0]
    BY <1>3, Powers
  <2>3. QED
    BY <1>2, <2>1, <2>2
<1>5. n \in 1..Width /\ a + n \in 1..Width /\ n - 1 \in 0..Width /\ n - 1 \in 0..b
  BY <1>1, <1>2, <1>4
<1>6. Power[a + (n - 1)] = Power[a] * Power[n - 1]
  <2>1. n - 1 \notin Bad
    BY <1>2, <1>5
  <2>2. QED
    BY <1>5, <2>1
<1>7. Power[a + n] = Power[a + (n - 1)] * Base
  <2>1. Power[a + n] = Power[(a + n) - 1] * Base
    BY <1>5, Powers
  <2>2. (a + n) - 1 = a + (n - 1)
    BY <1>5
  <2>3. QED
    BY <2>1, <2>2
<1>8. Power[n] = Power[n - 1] * Base /\ Power[n - 1] \in Nat
  BY <1>5, Powers
<1>9. (Power[a] * Power[n - 1]) * Base = Power[a] * (Power[n - 1] * Base)
  BY <1>1, <1>3, <1>8
<1>10. QED
  BY <1>2, <1>6, <1>7, <1>8, <1>9

-----------------------------------------------------------------------------
(* What ntp.c reads is what the servers wrote.                             *)

LEMMA Written ==
  ASSUME NEW x \in Int, NEW w \in 0..Width
  PROVE  /\ NetworkOrder(x, w) \in Bytes /\ Len(NetworkOrder(x, w)) = w
         /\ \A k \in 1..w : NetworkOrder(x, w)[k] = (x \div Power[w - k]) % Base
<1>1. Base \in Nat \ {0} /\ Width \in Nat
  BY TimesAssumption
<1>2. ASSUME NEW k \in 1..w PROVE (x \div Power[w - k]) % Base \in 0..(Base - 1)
  <2>1. w - k \in 0..Width
    BY <1>1
  <2>2. Power[w - k] \in Nat \ {0}
    BY <2>1, Powers
  <2>3. x \div Power[w - k] \in Int
    BY <2>2, Division
  <2>4. QED
    BY <1>1, <2>3, Division
<1>3. QED
  BY <1>1, <1>2 DEF NetworkOrder, Bytes

\* The bytes as rv_memcpy leaves them, read as one number.
LEMMA ReadBytes ==
  ASSUME NEW x \in Int, NEW w \in 0..Width, NEW bytes, Len(bytes) = w,
         \A k \in 1..w : bytes[k] = (x \div Power[k - 1]) % Base
  PROVE  Unsigned(bytes) = x % Power[w]
<1> DEFINE D(f) == [n \in 0..w |-> IF n = 0 THEN 0 ELSE f[n - 1] + bytes[n] * Power[n - 1]]
           F == [n \in 0..w |-> x % Power[n]]
<1>1. Base \in Nat \ {0} /\ Width \in Nat
  BY TimesAssumption
<1>2. ASSUME NEW n \in 1..w PROVE F[n] = F[n - 1] + bytes[n] * Power[n - 1]
  <2>1. n \in 0..w /\ n - 1 \in 0..w /\ n \in 1..Width /\ n - 1 \in 0..Width
    BY <1>1
  <2>2. Power[n - 1] \in Nat \ {0} /\ Power[n] = Power[n - 1] * Base
    BY <2>1, Powers
  <2>3. x % (Power[n - 1] * Base)
          = (x % Power[n - 1]) + ((x \div Power[n - 1]) % Base) * Power[n - 1]
    <3>1. PICK a : a = Power[n - 1]
      OBVIOUS
    <3>2. x % (a * Base) = (x % a) + ((x \div a) % Base) * a
      BY <1>1, <2>2, <3>1, TwoDigits
    <3>3. QED
      BY <3>1, <3>2
  <2>4. QED
    BY <2>1, <2>2, <2>3
<1>3. F[0] = 0
  BY <1>1, Powers
<1>4. F = D(F)
  <2>1. F = [n \in 0..w |-> F[n]]
    OBVIOUS
  <2> HIDE DEF F
  <2>2. \A n \in 0..w : n = 0 \/ n \in 1..w
    BY <1>1
  <2>3. \A n \in 0..w : F[n] = IF n = 0 THEN 0 ELSE F[n - 1] + bytes[n] * Power[n - 1]
    BY <1>2, <1>3, <2>2
  <2>4. D(F) = [n \in 0..w |-> F[n]]
    BY <2>3
  <2>5. QED
    BY <2>1, <2>4
<1>5. Unsigned(bytes) = (CHOOSE f : f = D(f))[w]
  BY DEF Unsigned
<1> HIDE DEF D
<1>6. (CHOOSE f : f = D(f)) = D(CHOOSE f : f = D(f))
  BY <1>4
<1> DEFINE U == CHOOSE f : f = D(f)
<1>7. /\ U[0] = 0
      /\ \A n \in 1..w : U[n] = U[n - 1] + bytes[n] * Power[n - 1]
  <2>1. U = D(U)
    BY <1>6
  <2> HIDE DEF U
  <2>2. \A n \in 0..w : U[n] = IF n = 0 THEN 0 ELSE U[n - 1] + bytes[n] * Power[n - 1]
    BY <2>1 DEF D
  <2>3. 0 \in 0..w /\ \A n \in 1..w : n \in 0..w /\ n # 0
    BY <1>1
  <2>4. QED
    BY <2>2, <2>3
<1> HIDE DEF U
<1> DEFINE Bad == {n \in 0..w : U[n] # F[n]}
<1>8. Bad = {}
  <2>1. SUFFICES ASSUME Bad # {} PROVE FALSE
    OBVIOUS
  <2>2. PICK n : n \in Bad /\ \A y \in Bad : n <= y
    <3>1. Bad \subseteq Nat
      OBVIOUS
    <3> HIDE DEF Bad
    <3>2. QED
      BY <2>1, <3>1, SmallestNat
  <2> HIDE DEF F
  <2>3. n \in 1..w /\ n - 1 \in 0..w /\ n - 1 \notin Bad
    BY <1>1, <1>3, <1>7, <2>2
  <2>4. U[n - 1] = F[n - 1]
    BY <2>3
  <2>5. U[n] = F[n]
    BY <1>2, <1>7, <2>3, <2>4
  <2>6. QED
    BY <2>2, <2>5
<1>9. w \in 0..w
  BY <1>1
<1>10. QED
  BY <1>5, <1>8, <1>9 DEF U

LEMMA ReadField ==
  ASSUME NEW x \in Int, NEW w \in 0..Width, NEW s \in Bytes,
         NEW from \in Nat \ {0}, from + w - 1 <= Len(s),
         \A k \in 1..w : s[from + k - 1] = NetworkOrder(x, w)[k]
  PROVE  Field(s, from, w) = x % Power[w]
<1> DEFINE t == SubSeq(s, from, from + w - 1)
<1>1. w \in Nat /\ Width \in Nat
  BY TimesAssumption
<1>2. Len(t) = w /\ t \in Bytes /\ \A k \in 1..w : t[k] = s[from + k - 1]
  <2>1. \A k \in from..(from + w - 1) : s[k] \in 0..(Base - 1)
    <3>1. \A k \in 1..Len(s) : s[k] \in 0..(Base - 1)
      BY ElementOfSeq DEF Bytes
    <3>2. Len(s) \in Nat
      BY LenProperties DEF Bytes
    <3>3. QED
      BY <1>1, <3>1, <3>2
  <2>2. t \in Bytes
    BY <1>1, <2>1, SubSeqProperties DEF Bytes
  <2>3. Len(t) = w
    BY <1>1, <2>1, SubSeqProperties DEF Bytes
  <2>4. QED
    BY <1>1, <2>1, <2>2, <2>3, SubSeqProperties DEF Bytes
<1> HIDE DEF t
<1>3. /\ Len(Reverse(t)) = w
      /\ \A k \in 1..w : Reverse(t)[k] = t[w - k + 1]
  BY <1>1, <1>2 DEF Bytes, Reverse
<1>4. ASSUME NEW k \in 1..w PROVE Reverse(t)[k] = (x \div Power[k - 1]) % Base
  <2>1. w - k + 1 \in 1..w
    BY <1>1
  <2>2. Reverse(t)[k] = NetworkOrder(x, w)[w - k + 1]
    BY <1>2, <1>3, <2>1
  <2>3. NetworkOrder(x, w)[w - k + 1] = (x \div Power[w - (w - k + 1)]) % Base
    BY <2>1, Written
  <2>4. w - (w - k + 1) = k - 1
    BY <1>1
  <2>5. QED
    BY <2>2, <2>3, <2>4
<1>5. QED
  BY <1>3, <1>4, ReadBytes DEF Field, rv_memcpy, t

LEMMA TwoFields ==
  ASSUME NEW x \in Int, NEW y \in Int, NEW w \in 0..Width
  PROVE  /\ NetworkOrder(x, w) \o NetworkOrder(y, w) \in Bytes
         /\ Field(NetworkOrder(x, w) \o NetworkOrder(y, w), 1, w) = x % Power[w]
         /\ Field(NetworkOrder(x, w) \o NetworkOrder(y, w), w + 1, w) = y % Power[w]
<1>1. w \in Nat
  BY TimesAssumption
<1>2. PICK a : a = NetworkOrder(x, w)
  OBVIOUS
<1>3. PICK b : b = NetworkOrder(y, w)
  OBVIOUS
<1>4. a \in Bytes /\ Len(a) = w /\ b \in Bytes /\ Len(b) = w
  BY <1>2, <1>3, Written
<1>5. PICK s : s = a \o b
  OBVIOUS
<1>6. s \in Bytes /\ Len(s) = w + w
  BY <1>4, <1>5, ConcatProperties DEF Bytes
<1>7. \A k \in 1..w : s[k] = a[k] /\ s[w + k] = b[k]
  BY <1>1, <1>4, <1>5, ConcatProperties DEF Bytes
<1>8. Field(s, 1, w) = x % Power[w]
  <2>1. \A k \in 1..w : s[1 + k - 1] = NetworkOrder(x, w)[k]
    BY <1>1, <1>2, <1>7
  <2>2. 1 \in Nat \ {0} /\ 1 + w - 1 <= Len(s)
    BY <1>1, <1>6
  <2>3. QED
    BY <1>6, <2>1, <2>2, ReadField
<1>9. Field(s, w + 1, w) = y % Power[w]
  <2>1. \A k \in 1..w : s[(w + 1) + k - 1] = NetworkOrder(y, w)[k]
    BY <1>1, <1>3, <1>7
  <2>2. w + 1 \in Nat \ {0} /\ (w + 1) + w - 1 <= Len(s)
    BY <1>1, <1>6
  <2>3. QED
    BY <1>6, <2>1, <2>2, ReadField
<1>10. QED
  BY <1>2, <1>3, <1>5, <1>6, <1>8, <1>9

LEMMA Eras ==
  /\ Second \in Nat \ {0} /\ Era \in Nat \ {0} /\ EpochGap * Second \in Nat
<1>1. Width \in 0..Width /\ EpochGap \in Nat
  BY TimesAssumption
<1>2. Second \in Nat \ {0}
  BY <1>1, Powers DEF Second
<1>3. QED
  BY <1>1, <1>2, Positive DEF Era

\* A time is read as it was sent, less the eras before.
LEMMA TimeRead ==
  ASSUME NEW unix \in Int
  PROVE  /\ SendTime(unix) \in Bytes
         /\ ReadTime(SendTime(unix))
              = ((unix + EpochGap * Second) % Era) - EpochGap * Second
<1> DEFINE t == unix + EpochGap * Second
<1>1. PICK S : S = Second
  OBVIOUS
<1>2. S \in Nat \ {0} /\ EpochGap * Second \in Nat /\ Era = S * S /\ S = Power[Width]
  BY <1>1, Eras DEF Era, Second
<1>3. t \in Int
  BY <1>2
<1> HIDE DEF t
<1>4. t \div S \in Int /\ t % S \in 0..(S - 1)
  BY <1>2, <1>3, Division
<1>5. Width \in 0..Width
  BY TimesAssumption
<1>6. PICK s : s = NetworkOrder(t \div S, Width) \o NetworkOrder(t % S, Width)
  OBVIOUS
<1>7. /\ s \in Bytes
      /\ Field(s, 1, Width) = (t \div S) % S
      /\ Field(s, Width + 1, Width) = (t % S) % S
  <2>1. t % S \in Int
    BY <1>2, <1>4
  <2>2. QED
    BY <1>2, <1>4, <1>5, <1>6, <2>1, TwoFields
<1>8. (t % S) % S = t % S
  <2>1. PICK r : r = t % S
    OBVIOUS
  <2>2. r \in 0..(S - 1) /\ r \in Int /\ 0 \in Int /\ r = 0 * S + r
    BY <1>2, <1>4, <2>1
  <2>3. r % S = r
    BY <1>2, <2>2, DivisionUnique
  <2>4. QED
    BY <2>1, <2>3
<1>9. t % (S * S) = (t % S) + ((t \div S) % S) * S
  BY <1>2, <1>3, TwoDigits
<1>10. s = SendTime(unix)
  BY <1>1, <1>6 DEF SendTime, t
<1>11. ReadTime(s) = ((t \div S) % S) * S + (t % S) - EpochGap * Second
  BY <1>1, <1>7, <1>8 DEF ReadTime
<1>12. ReadTime(s) = (t % Era) - EpochGap * Second
  <2>1. (t \div S) % S \in Int
    BY <1>2, <1>4, Division
  <2>2. QED
    BY <1>2, <1>4, <1>9, <1>11, <2>1
<1>13. QED
  BY <1>7, <1>10, <1>12 DEF t

LEMMA TimeOfServer ==
  ASSUME NEW s \in Server, NEW t \in 1..MaxNow
  PROVE  /\ t + theta[s] \in Int
         /\ ReadTime(SendTime(t + theta[s]))
              = IF t + theta[s] + EpochGap * Second < Era
                  THEN t + theta[s] ELSE t + theta[s] - Era
<1>1. theta[s] \in Int /\ MaxNow \in Nat /\ EpochGap * Second \in Nat /\ Era \in Nat \ {0}
  BY NetAssumption, Eras
<1>2. PICK x : x = t + theta[s] + EpochGap * Second
  OBVIOUS
<1>3. x \in Nat /\ x < 2 * Era
  BY <1>1, <1>2, ErasAssumption
<1>4. ReadTime(SendTime(t + theta[s])) = (x % Era) - EpochGap * Second
  <2>1. t + theta[s] \in Int
    BY <1>1
  <2>2. QED
    BY <1>2, <2>1, TimeRead
<1>5. CASE x < Era
  <2>1. x \in 0..(Era - 1) /\ x \in Int /\ 0 \in Int /\ x = 0 * Era + x
    BY <1>1, <1>3, <1>5
  <2>2. x % Era = x
    BY <1>1, <2>1, DivisionUnique
  <2>3. QED
    BY <1>1, <1>2, <1>4, <1>5, <2>2
<1>6. CASE ~(x < Era)
  <2>1. PICK r : r = x - Era
    OBVIOUS
  <2>2. x \in Int /\ r \in 0..(Era - 1) /\ 1 \in Int /\ x = 1 * Era + r
    BY <1>1, <1>3, <1>6, <2>1
  <2>3. x % Era = r
    BY <1>1, <2>2, DivisionUnique
  <2>4. QED
    BY <1>1, <1>2, <1>4, <1>6, <2>1, <2>3
<1>7. QED
  BY <1>1, <1>5, <1>6

LEMMA ShortRead ==
  ASSUME NEW d \in 0..(Second - 1)
  PROVE  SendShort(d) \in Bytes /\ ReadShort(SendShort(d)) = d
<1>1. PICK H : H = Power[Half]
  OBVIOUS
<1>2. Half \in Nat /\ Half + Half = Width /\ Half \in 0..Width
  <2>1. Width \in Nat /\ 2 \in Nat \ {0} /\ Width % 2 = 0
    BY TimesAssumption
  <2>2. QED
    BY <2>1 DEF Half
<1>3. H \in Nat \ {0} /\ Second = H * H
  <2>1. PICK h : h = Half
    OBVIOUS
  <2>2. h \in Nat /\ h + h <= Width
    BY <1>2, <2>1, TimesAssumption
  <2>3. Power[h + h] = Power[h] * Power[h]
    BY <2>2, PowersAdd
  <2>4. QED
    BY <1>1, <1>2, <2>1, <2>3, Powers DEF Second
<1>4. d \in Int /\ d \div H \in Int /\ d % H \in 0..(H - 1) /\ d % H \in Int
  <2>1. d \in Int
    BY Eras
  <2>2. QED
    BY <1>3, <2>1, Division
<1>5. PICK s : s = NetworkOrder(d \div H, Half) \o NetworkOrder(d % H, Half)
  OBVIOUS
<1>6. /\ s \in Bytes
      /\ Field(s, 1, Half) = (d \div H) % H
      /\ Field(s, Half + 1, Half) = (d % H) % H
  BY <1>1, <1>2, <1>4, <1>5, TwoFields
<1>7. (d % H) % H = d % H
  <2>1. PICK r : r = d % H
    OBVIOUS
  <2>2. r \in 0..(H - 1) /\ r \in Int /\ 0 \in Int /\ r = 0 * H + r
    BY <1>3, <1>4, <2>1
  <2>3. r % H = r
    BY <1>3, <2>2, DivisionUnique
  <2>4. QED
    BY <2>1, <2>3
<1>8. d % (H * H) = (d % H) + ((d \div H) % H) * H
  BY <1>3, <1>4, TwoDigits
<1>9. d % (H * H) = d
  <2>1. PICK b : b = H * H
    OBVIOUS
  <2>2. b \in Nat \ {0} /\ d \in 0..(b - 1) /\ 0 \in Int /\ d = 0 * b + d
    BY <1>3, <1>4, <2>1, Eras
  <2>3. d % b = d
    BY <1>4, <2>2, DivisionUnique
  <2>4. QED
    BY <2>1, <2>3
<1>10. ReadShort(s) = ((d \div H) % H) * H + (d % H)
  BY <1>1, <1>6, <1>7 DEF ReadShort
<1>11. (d \div H) % H \in Int
  BY <1>3, <1>4, Division
<1>12. ReadShort(s) = d
  BY <1>3, <1>4, <1>8, <1>9, <1>10, <1>11
<1>13. QED
  BY <1>1, <1>5, <1>6, <1>12 DEF SendShort

-----------------------------------------------------------------------------
(* The invariant.                                                          *)

Counts == /\ now \in 1..MaxNow /\ T1 \in 0..now
          /\ lost \in Nat /\ duplicated \in Nat /\ lost + duplicated <= MaxFaults
          /\ phase \in {"send", "recv", "sleep"} => i <= Len(servers)

\* No request is ahead of the loops, and no answer ahead of its request.
Numbered ==
  /\ \A m \in packets : m.req <= This /\ (phase \in {"send", "done"} => m.req < This)
  /\ \A k \in DOMAIN taken : taken[k].req <= taken[k].asked

\* Without duplicates there is at most the one packet the client waits for.
InStep ==
  duplicated = 0 =>
    /\ phase \in {"send", "sleep", "done"} => packets = {}
    /\ phase = "recv" => \A m, n \in packets : m = n /\ m.req = This
    /\ \A k \in DOMAIN taken : Own(k)

\* The client is waiting for the answer to this one.
Asked(m) == phase = "recv" /\ m.req = This

Arrived(m, t) == m.T2 = SendTime(t + theta[m.server]) /\ (Asked(m) => T1 <= t)

Left(m, t) == /\ m.T3 = SendTime(t + theta[m.server])
              /\ m.dispersion = SendShort(root[m.server])

\* A response carries two times of its server, between the times the client
\* sent the request and now if it is for the request the client waits for.
Stamps(m) ==
  /\ m.kind = "held" => \E t \in 1..now : Arrived(m, t)
  /\ m.kind = "response" => \E t, u \in 1..now : t <= u /\ Arrived(m, t) /\ Left(m, u)
  /\ Asked(m) => m.server = servers[i]

Stamped == \A m \in packets : Stamps(m)

\* What has been printed are the round trips to this server, in the array.
Rows ==
  /\ program = "NTP" => printed = <<>>
  /\ program = "Block6" =>
       /\ Len(printed) = Len(taken)
       /\ phase \in {"send", "recv"} => Len(printed) = j
       /\ phase = "sleep" => Len(printed) = j + 1
  /\ phase = "done" => printed = <<>>
  /\ Len(printed) <= requestNumber
  /\ \A k \in DOMAIN printed : RTT[k - 1] = printed[k].RTT

IInv == /\ TypeOK /\ Counts /\ Numbered /\ InStep /\ Stamped
        /\ Rows /\ OffsetWithinDelay /\ DispersionOfServer

-----------------------------------------------------------------------------
(* What the handlers compute.                                              *)

\* Finitely many numbers have a largest and a smallest.
LEMMA Extremes ==
  ASSUME NEW a \in Int, NEW b \in Int, a <= b, NEW f, \A x \in a..b : f[x] \in Int
  PROVE  Max({f[x] : x \in a..b}) \in Int /\ Min({f[x] : x \in a..b}) \in Int
<1> DEFINE Top(c) == \E x \in a..c : \A y \in a..c : f[y] <= f[x]
           Bottom(c) == \E x \in a..c : \A y \in a..c : f[x] <= f[y]
           Bad == {n \in Nat : a + n <= b /\ ~(Top(a + n) /\ Bottom(a + n))}
<1>1. Bad = {}
  <2>1. SUFFICES ASSUME Bad # {} PROVE FALSE
    OBVIOUS
  <2>2. PICK n : n \in Bad /\ \A y \in Bad : n <= y
    <3>1. Bad \subseteq Nat
      OBVIOUS
    <3> HIDE DEF Bad
    <3>2. QED
      BY <2>1, <3>1, SmallestNat
  <2>3. n \in Nat /\ a + n <= b /\ ~(Top(a + n) /\ Bottom(a + n))
    BY <2>2
  <2>4. n # 0
    <3>1. SUFFICES ASSUME n = 0 PROVE FALSE
      OBVIOUS
    <3>2. a \in a..(a + n) /\ \A y \in a..(a + n) : y = a
      BY <2>3, <3>1
    <3>3. f[a] \in Int /\ f[a] <= f[a]
      <4>1. a \in a..b
        OBVIOUS
      <4>2. f[a] \in Int
        BY <4>1
      <4>3. QED
        BY <4>2
    <3>4. Top(a + n) /\ Bottom(a + n)
      BY <3>2, <3>3
    <3>5. QED
      BY <2>3, <3>4
  <2>5. n - 1 \in Nat /\ a + (n - 1) <= b
    BY <2>3, <2>4
  <2>6. Top(a + (n - 1)) /\ Bottom(a + (n - 1))
    <3> HIDE DEF Top, Bottom
    <3>1. n - 1 \notin Bad
      <4> HIDE DEF Bad
      <4>1. QED
        BY <2>2, <2>3, <2>5
    <3>2. QED
      BY <2>5, <3>1
  <2>7. a..(a + n) = a..(a + (n - 1)) \cup {a + n}
    BY <2>3, <2>4
  <2>8. \A y \in a..(a + n) : f[y] \in Int
    BY <2>3
  <2>9. Top(a + n)
    <3>1. PICK x \in a..(a + (n - 1)) : \A y \in a..(a + (n - 1)) : f[y] <= f[x]
      BY <2>6
    <3> HIDE DEF Bad
    <3>2. CASE f[a + n] <= f[x]
      BY <2>7, <3>1, <3>2
    <3>3. CASE ~(f[a + n] <= f[x])
      <4>1. a + n \in a..(a + n) /\ x \in a..(a + n)
        BY <2>7
      <4>2. \A y \in a..(a + n) : f[y] <= f[a + n]
        BY <2>7, <2>8, <3>1, <3>3, <4>1
      <4>3. QED
        BY <4>1, <4>2
    <3>4. QED
      BY <3>2, <3>3
  <2>10. Bottom(a + n)
    <3>1. PICK x \in a..(a + (n - 1)) : \A y \in a..(a + (n - 1)) : f[x] <= f[y]
      BY <2>6
    <3> HIDE DEF Bad
    <3>2. CASE f[x] <= f[a + n]
      BY <2>7, <3>1, <3>2
    <3>3. CASE ~(f[x] <= f[a + n])
      <4>1. a + n \in a..(a + n) /\ x \in a..(a + n)
        BY <2>7
      <4>2. \A y \in a..(a + n) : f[a + n] <= f[y]
        BY <2>7, <2>8, <3>1, <3>3, <4>1
      <4>3. QED
        BY <4>1, <4>2
    <3>4. QED
      BY <3>2, <3>3
  <2>11. QED
    BY <2>3, <2>9, <2>10
<1>2. b - a \in Nat /\ a + (b - a) = b
  OBVIOUS
<1>3. Top(b) /\ Bottom(b)
  <2>1. b - a \notin Bad
    BY <1>1
  <2> HIDE DEF Top, Bottom
  <2>2. QED
    BY <1>2, <2>1
<1> HIDE DEF Bad
<1> DEFINE S == {f[x] : x \in a..b}
<1>4. PICK M \in S : \A y \in S : M >= y
  BY <1>3
<1>5. PICK m \in S : \A y \in S : m <= y
  BY <1>3
<1>6. S \subseteq Int
  OBVIOUS
<1> HIDE DEF S, Top, Bottom
<1>7. Max(S) \in S
  BY <1>4 DEF Max
<1>8. Min(S) \in S
  BY <1>5 DEF Min
<1>9. QED
  BY <1>6, <1>7, <1>8 DEF S

LEMMA Numbers ==
  ASSUME TypeOK
  PROVE  This \in Nat /\ requestNumber \in Nat \ {0} /\ Len(servers) \in Nat
         /\ (i <= Len(servers) => servers[i] \in Server)
<1>1. servers \in Seq(Server) /\ requestNumber \in Nat \ {0}
  BY ClientAssumption
<1>2. Len(servers) \in Nat
  BY <1>1, LenProperties
<1>3. i - 1 \in Nat /\ j \in Nat
  BY <1>2 DEF TypeOK
<1>4. (i - 1) * requestNumber \in Nat
  BY <1>1, <1>3
<1>5. This \in Nat
  BY <1>3, <1>4 DEF This
<1>6. i <= Len(servers) => i \in 1..Len(servers)
  BY <1>2 DEF TypeOK
<1>7. QED
  BY <1>1, <1>2, <1>5, <1>6, ElementOfSeq

\* The requests are numbered one after the other.
LEMMA NextNumber ==
  ASSUME TypeOK, i <= Len(servers), NextRequest
  PROVE  /\ This' = This + 1
         /\ i' \in 1..(Len(servers) + 1) /\ j' \in 0..(requestNumber - 1)
         /\ (i' = i /\ j' = j + 1) \/ (i' = i + 1 /\ j' = 0)
<1>1. /\ requestNumber \in Nat \ {0} /\ Len(servers) \in Nat
      /\ i \in Nat /\ j \in 0..(requestNumber - 1) /\ i >= 1
  BY Numbers DEF TypeOK
<1>2. CASE j < requestNumber - 1
  BY <1>1, <1>2 DEF NextRequest, This
<1>3. CASE ~(j < requestNumber - 1)
  <2>1. i' = i + 1 /\ j' = 0 /\ j = requestNumber - 1
    BY <1>1, <1>3 DEF NextRequest
  <2>2. This = (i - 1) * requestNumber + (requestNumber - 1)
    BY <2>1 DEF This
  <2>3. This' = ((i + 1) - 1) * requestNumber + 0
    BY <2>1 DEF This
  <2>4. ((i + 1) - 1) * requestNumber = (i - 1) * requestNumber + requestNumber
    BY <1>1
  <2>5. (i - 1) * requestNumber \in Int
    BY <1>1
  <2>6. This' = This + 1
    BY <1>1, <2>2, <2>3, <2>4, <2>5
  <2>7. QED
    BY <1>1, <2>1, <2>6
<1>4. QED
  BY <1>2, <1>3

\* What the client finds in a response.
LEMMA ResponseRead ==
  ASSUME TypeOK, Counts, Stamped, NEW m \in packets, m.kind = "response"
  PROVE  \E t, u \in 1..now :
           /\ t <= u /\ (Asked(m) => T1 <= t /\ m.server = servers[i])
           /\ m.server \in Server /\ theta[m.server] \in Int
           /\ ReadTime(m.T2) = IF t + theta[m.server] + EpochGap * Second < Era
                                 THEN t + theta[m.server] ELSE t + theta[m.server] - Era
           /\ ReadTime(m.T3) = IF u + theta[m.server] + EpochGap * Second < Era
                                 THEN u + theta[m.server] ELSE u + theta[m.server] - Era
           /\ ReadShort(m.dispersion) = root[m.server] /\ root[m.server] \in Nat
<1>1. PICK t \in 1..now, u \in 1..now : t <= u /\ Arrived(m, t) /\ Left(m, u)
  BY DEF Stamped, Stamps
<1>2. PICK s : s = m.server
  OBVIOUS
<1>3. s \in Server /\ MaxNow \in Nat /\ now \in 1..MaxNow
  BY <1>2, NetAssumption DEF TypeOK, Packet, Counts
<1>4. theta[s] \in Int /\ root[s] \in 0..(Second - 1) /\ root[s] \in Nat
  BY <1>3, NetAssumption, Eras
<1>5. t \in 1..MaxNow /\ u \in 1..MaxNow
  BY <1>3
<1>6. ReadTime(m.T2) = IF t + theta[s] + EpochGap * Second < Era
                         THEN t + theta[s] ELSE t + theta[s] - Era
  BY <1>1, <1>2, <1>3, <1>5, TimeOfServer DEF Arrived
<1>7. ReadTime(m.T3) = IF u + theta[s] + EpochGap * Second < Era
                         THEN u + theta[s] ELSE u + theta[s] - Era
  BY <1>1, <1>2, <1>3, <1>5, TimeOfServer DEF Left
<1>8. ReadShort(m.dispersion) = root[s]
  BY <1>1, <1>2, <1>4, ShortRead DEF Left
<1>9. Asked(m) => T1 <= t /\ m.server = servers[i]
  BY <1>1 DEF Arrived, Stamped, Stamps
<1>10. QED
  BY <1>1, <1>2, <1>3, <1>4, <1>6, <1>7, <1>8, <1>9

-----------------------------------------------------------------------------
(* Types.                                                                  *)

Net(m) == Arrive(m) \/ Respond(m) \/ Lose(m) \/ Duplicate(m)

LEMMA Ports == port \in Port => port \in Nat \ {0}
BY ClientAssumption

LEMMA SendTypes ==
  ASSUME TypeOK, Counts, Send
  PROVE  TypeOK' /\ Counts'
<1>1. i <= Len(servers) /\ This \in Nat /\ servers[i] \in Server
  BY Numbers DEF Send, Counts
<1>2. now' \in 1..MaxNow /\ T1' \in 0..now'
  BY NetAssumption DEF Send, Counts, Passes, Smashed
<1>3. port' \in Port /\ port' \in Nat /\ port' # 0
  BY ClientAssumption DEF Send, TypeOK
<1>4. createNTPRequest(port') \in Packet
  <2>1. <<>> \in Bytes
    BY DEF Bytes
  <2>2. 0 \in 0..MaxFaults /\ 0 \in Nat
    BY NetAssumption
  <2> HIDE DEF Bytes
  <2>3. QED
    BY <1>1, <1>3, <2>1, <2>2 DEF createNTPRequest, Request, Packet
<1>5. packets' \subseteq Packet
  BY <1>4 DEF Send, TypeOK
<1>6. TypeOK'
  BY <1>2, <1>3, <1>5 DEF Send, TypeOK
<1>7. Counts'
  BY <1>1, <1>2 DEF Send, Counts
<1>8. QED
  BY <1>6, <1>7

LEMMA FailTypes ==
  ASSUME TypeOK, Counts, SendFails \/ ReceiveFails
  PROVE  TypeOK' /\ Counts'
BY DEF SendFails, ReceiveFails, TypeOK, Counts, netVars

LEMMA SleepTypes ==
  ASSUME TypeOK, Counts, Sleep
  PROVE  TypeOK' /\ Counts'
<1>1. i <= Len(servers) /\ Len(servers) \in Nat
  BY Numbers DEF Sleep, Counts
<1>2. i' \in 1..(Len(servers) + 1) /\ j' \in 0..(requestNumber - 1)
  BY <1>1, NextNumber DEF Sleep
<1>3. port' \in Port \cup {0} /\ taken' \in Seq([req: Nat, asked: Nat]) /\ printed' \in Seq(Line)
  <2>1. CASE i' = i
    BY <2>1 DEF Sleep, TypeOK
  <2>2. CASE i' # i
    <3>1. port' = 0 /\ taken' = <<>> /\ printed' = <<>>
      BY <2>2 DEF Sleep
    <3>2. QED
      BY <3>1
  <2>3. QED
    BY <2>1, <2>2
<1>4. TypeOK'
  BY <1>2, <1>3 DEF Sleep, TypeOK, netVars
<1>5. Counts'
  BY <1>1, <1>2 DEF Sleep, Counts, netVars
<1>6. QED
  BY <1>4, <1>5

\* The answer that is taken, and the request it is taken for.
LEMMA Taken ==
  ASSUME TypeOK, Counts, NEW m, Read(m)
  PROVE  /\ m \in packets /\ m \in Packet /\ m.kind = "response" /\ m.req \in Nat
         /\ now' \in now..MaxNow /\ now' \in 1..MaxNow /\ packets' \subseteq packets
         /\ i <= Len(servers) /\ This \in Nat
         /\ taken' \in Seq([req: Nat, asked: Nat]) /\ Len(taken') = Len(taken) + 1
         /\ \A k \in DOMAIN taken : taken'[k] = taken[k]
         /\ DOMAIN taken' = DOMAIN taken \cup {Len(taken) + 1}
         /\ taken'[Len(taken) + 1] = [req |-> m.req, asked |-> This]
<1>1. /\ m \in packets /\ m \in Packet /\ m.kind = "response" /\ m.req \in Nat
      /\ packets' \subseteq packets
  BY DEF Read, Takes, TypeOK, Packet
<1>2. now' \in now..MaxNow /\ now' \in 1..MaxNow
  BY NetAssumption DEF Read, Passes, Counts
<1>3. i <= Len(servers) /\ This \in Nat
  BY Numbers DEF Read, Counts
<1>4. taken \in Seq([req: Nat, asked: Nat])
  BY DEF TypeOK
<1>5. PICK e : e = [req |-> m.req, asked |-> This]
  OBVIOUS
<1>6. e \in [req: Nat, asked: Nat]
  BY <1>1, <1>3, <1>5
<1>7. taken' = Append(taken, e)
  BY <1>5 DEF Read
<1>8. /\ taken' \in Seq([req: Nat, asked: Nat]) /\ Len(taken') = Len(taken) + 1
      /\ \A k \in 1..Len(taken) : taken'[k] = taken[k]
      /\ taken'[Len(taken) + 1] = e
  BY <1>4, <1>6, <1>7, AppendProperties
<1>9. DOMAIN taken = 1..Len(taken) /\ DOMAIN taken' = 1..(Len(taken) + 1) /\ Len(taken) \in Nat
  BY <1>4, <1>8, LenProperties
<1>10. DOMAIN taken' = DOMAIN taken \cup {Len(taken) + 1}
  BY <1>9
<1>11. QED
  BY <1>1, <1>2, <1>3, <1>5, <1>8, <1>9, <1>10

\* And what is printed of it.
LEMMA Row ==
  ASSUME TypeOK, Counts, Stamped, NEW m, Receive(m)
  PROVE  /\ RTT' \in [0..(requestNumber - 1) -> Int]
         /\ RTT'[j] = RoundTrip(m, now')
         /\ \A k \in 0..(requestNumber - 1) : k # j => RTT'[k] = RTT[k]
         /\ printed' \in Seq(Line) /\ Len(printed') = Len(printed) + 1
         /\ DOMAIN printed' = DOMAIN printed \cup {Len(printed) + 1}
         /\ Len(printed) \in Nat /\ DOMAIN printed = 1..Len(printed)
         /\ \A k \in DOMAIN printed : printed'[k] = printed[k]
         /\ printed'[Len(printed) + 1] = Printed(m, now', RTT')
<1>1. /\ m \in packets /\ m.kind = "response" /\ now' \in Nat /\ Read(m)
  <2>1. Read(m)
    BY DEF Receive
  <2>2. m \in packets /\ m.kind = "response" /\ now' \in 1..MaxNow
    BY <2>1, Taken
  <2>3. QED
    BY <2>1, <2>2, NetAssumption
<1>2. /\ ReadTime(m.T2) \in Int /\ ReadTime(m.T3) \in Int /\ ReadShort(m.dispersion) \in Nat
  <2>1. PICK t \in 1..now, u \in 1..now :
           /\ m.server \in Server /\ theta[m.server] \in Int
           /\ ReadTime(m.T2) = IF t + theta[m.server] + EpochGap * Second < Era
                                 THEN t + theta[m.server] ELSE t + theta[m.server] - Era
           /\ ReadTime(m.T3) = IF u + theta[m.server] + EpochGap * Second < Era
                                 THEN u + theta[m.server] ELSE u + theta[m.server] - Era
           /\ ReadShort(m.dispersion) = root[m.server] /\ root[m.server] \in Nat
    BY <1>1, ResponseRead
  <2>2. Era \in Nat
    BY Eras
  <2>3. QED
    BY <2>1, <2>2
<1>3. T1 \in Nat /\ j \in 0..(requestNumber - 1) /\ requestNumber \in Nat /\ j \in Nat
  BY ClientAssumption DEF TypeOK
<1>4. RoundTrip(m, now') \in Int
  BY <1>1, <1>2, <1>3 DEF RoundTrip
<1>5. /\ RTT' \in [0..(requestNumber - 1) -> Int]
      /\ RTT'[j] = RoundTrip(m, now')
      /\ \A k \in 0..(requestNumber - 1) : k # j => RTT'[k] = RTT[k]
  <2>1. RTT' = [RTT EXCEPT ![j] = RoundTrip(m, now')]
    BY DEF Receive
  <2>2. QED
    BY <1>3, <1>4, <2>1 DEF TypeOK
<1>6. dispersion(RTT') \in Int
  <2>1. PICK r : r = RTT'
    OBVIOUS
  <2>2. Window \in Nat /\ Window > 1
    BY ClientAssumption
  <2>3. PICK b : b = j
    OBVIOUS
  <2>4. PICK a : a = IF b > Window - 2 THEN b - (Window - 1) ELSE 0
    OBVIOUS
  <2>5. a \in Int /\ b \in Int /\ 0 <= a /\ a <= b
    BY <1>3, <2>2, <2>3, <2>4
  <2>6. \A x \in a..b : r[x] \in Int
    BY <1>3, <1>5, <2>1, <2>3, <2>5
  <2>7. Max({r[x] : x \in a..b}) \in Int /\ Min({r[x] : x \in a..b}) \in Int
    BY <2>5, <2>6, Extremes
  <2>8. dispersion(r) = Max({r[x] : x \in a..b}) - Min({r[x] : x \in a..b})
    BY <2>3, <2>4 DEF dispersion
  <2>9. QED
    BY <2>1, <2>7, <2>8
<1>7. PICK e : e = Printed(m, now', RTT')
  OBVIOUS
<1>8. e \in Line
  <2>1. RTT'[j] \in Int
    BY <1>4, <1>5
  <2>2. (ReadTime(m.T2) - T1) + (ReadTime(m.T3) - now') \in Int
    BY <1>1, <1>2, <1>3
  <2>3. QED
    BY <1>2, <1>6, <1>7, <2>1, <2>2 DEF Printed, Line
<1>9. printed \in Seq(Line) /\ printed' = Append(printed, e)
  BY <1>7 DEF Receive, TypeOK
<1>10. /\ printed' \in Seq(Line) /\ Len(printed') = Len(printed) + 1
       /\ \A k \in 1..Len(printed) : printed'[k] = printed[k]
       /\ printed'[Len(printed) + 1] = e
  BY <1>8, <1>9, AppendProperties
<1>11. /\ DOMAIN printed = 1..Len(printed) /\ Len(printed) \in Nat
       /\ DOMAIN printed' = 1..(Len(printed) + 1)
  BY <1>9, <1>10, LenProperties
<1>12. DOMAIN printed' = DOMAIN printed \cup {Len(printed) + 1}
  BY <1>11
<1>13. QED
  BY <1>5, <1>7, <1>10, <1>11, <1>12

LEMMA ReceiveTypes ==
  ASSUME TypeOK, Counts, Stamped, NEW m, Receive(m)
  PROVE  TypeOK' /\ Counts'
<1>1. Read(m)
  BY DEF Receive
<1>2. /\ now' \in now..MaxNow /\ now' \in 1..MaxNow /\ packets' \subseteq packets
      /\ i <= Len(servers) /\ taken' \in Seq([req: Nat, asked: Nat])
  BY <1>1, Taken
<1>3. RTT' \in [0..(requestNumber - 1) -> Int] /\ printed' \in Seq(Line)
  BY Row
<1>4. TypeOK'
  BY <1>2, <1>3 DEF Receive, Read, TypeOK
<1>5. Counts'
  BY <1>2 DEF Receive, Counts
<1>6. QED
  BY <1>4, <1>5

LEMMA ReceiveFirstTypes ==
  ASSUME TypeOK, Counts, NEW m, ReceiveFirst(m)
  PROVE  TypeOK' /\ Counts'
<1>1. Read(m)
  BY DEF ReceiveFirst
<1>2. /\ now' \in now..MaxNow /\ now' \in 1..MaxNow /\ packets' \subseteq packets
      /\ i <= Len(servers) /\ taken' \in Seq([req: Nat, asked: Nat])
  BY <1>1, Taken
<1>3. i' \in 1..(Len(servers) + 1) /\ j' \in 0..(requestNumber - 1)
  BY <1>2, NextNumber DEF ReceiveFirst
<1>4. TypeOK'
  BY <1>2, <1>3 DEF ReceiveFirst, TypeOK
<1>5. Counts'
  BY <1>2, <1>3 DEF ReceiveFirst, Counts
<1>6. QED
  BY <1>4, <1>5

LEMMA DropTypes ==
  ASSUME TypeOK, Counts, NEW m, Drop(m)
  PROVE  TypeOK' /\ Counts'
BY DEF Drop, TypeOK, Counts, clientVars

\* The packets after a step of the network.
LEMMA NetTypes ==
  ASSUME TypeOK, Counts, NEW m \in packets, Net(m), UNCHANGED clientVars
  PROVE  TypeOK' /\ Counts'
<1>1. /\ m \in Packet /\ m.server \in Server /\ theta[m.server] \in Int
      /\ root[m.server] \in 0..(Second - 1)
  BY NetAssumption DEF TypeOK, Packet
<1>2. now' \in now..MaxNow /\ now' \in 1..MaxNow
  BY NetAssumption DEF Net, Arrive, Respond, Lose, Duplicate, Passes, Counts
<1>3. SendTime(now' + theta[m.server]) \in Bytes
  BY <1>1, <1>2, TimeRead
<1>4. SendShort(root[m.server]) \in Bytes
  BY <1>1, ShortRead
<1>5. packets' \subseteq Packet
  <2> HIDE DEF Bytes
  <2>1. CASE Arrive(m)
    BY <1>1, <1>3, <2>1 DEF Arrive, TypeOK, Packet
  <2>2. CASE Respond(m)
    BY <1>1, <1>3, <1>4, <2>2 DEF Respond, TypeOK, Packet
  <2>3. CASE Lose(m)
    BY <2>3 DEF Lose, TypeOK
  <2>4. CASE Duplicate(m)
    <3>1. duplicated' \in 0..MaxFaults
      BY <2>4, NetAssumption DEF Duplicate, Counts
    <3>2. QED
      BY <1>1, <2>4, <3>1 DEF Duplicate, TypeOK, Packet
  <2>5. QED
    BY <2>1, <2>2, <2>3, <2>4 DEF Net
<1>6. TypeOK'
  BY <1>5 DEF TypeOK, clientVars
<1>7. /\ lost' \in Nat /\ duplicated' \in Nat /\ lost' + duplicated' <= MaxFaults
  BY NetAssumption DEF Net, Arrive, Respond, Lose, Duplicate, Counts
<1>8. Counts'
  BY <1>2, <1>7 DEF Counts, clientVars
<1>9. QED
  BY <1>6, <1>8

-----------------------------------------------------------------------------
(* Requests and answers keep in step.                                      *)

LEMMA SendCounts ==
  ASSUME TypeOK, Counts, Numbered, InStep, Send
  PROVE  Numbered' /\ InStep'
<1>1. This \in Nat /\ This' = This /\ duplicated' = duplicated /\ taken' = taken
  BY Numbers DEF Send, This
<1>2. PICK n : n = createNTPRequest(port')
  OBVIOUS
<1>3. phase = "send" /\ phase' = "recv" /\ packets' = packets \cup {n} /\ n.req = This
  BY <1>2 DEF Send, createNTPRequest, Request
<1>4. \A m \in packets : m.req \in Nat
  BY DEF TypeOK, Packet
<1>5. Numbered'
  BY <1>1, <1>3, <1>4 DEF Numbered
<1>6. InStep'
  BY <1>1, <1>3 DEF InStep, Own
<1>7. QED
  BY <1>5, <1>6

LEMMA FailCounts ==
  ASSUME TypeOK, Counts, Numbered, InStep, SendFails \/ ReceiveFails
  PROVE  Numbered' /\ InStep'
<1>1. /\ This' = This /\ duplicated' = duplicated /\ taken' = taken
      /\ packets' = packets /\ phase' = "exited"
  BY DEF SendFails, ReceiveFails, This, netVars
<1>2. Numbered' /\ InStep'
  BY <1>1 DEF Numbered, InStep, Own
<1>3. QED
  BY <1>2

LEMMA SleepCounts ==
  ASSUME TypeOK, Counts, Numbered, InStep, Sleep
  PROVE  Numbered' /\ InStep'
<1>1. This \in Nat /\ This' = This + 1 /\ duplicated' = duplicated
  <2>1. i <= Len(servers) /\ This \in Nat
    BY Numbers DEF Sleep, Counts
  <2>2. QED
    BY <2>1, NextNumber DEF Sleep, netVars
<1>2. phase = "sleep" /\ phase' \in {"send", "done"} /\ packets' = packets
  BY DEF Sleep, netVars
<1>3. taken' = taken \/ taken' = <<>>
  BY DEF Sleep
<1>4. \A m \in packets : m.req \in Nat
  BY DEF TypeOK, Packet
<1>5. DOMAIN <<>> = {}
  BY EmptySeq, LenProperties
<1>6. \A k \in DOMAIN taken' : k \in DOMAIN taken /\ taken'[k] = taken[k]
  BY <1>3, <1>5
<1>7. Numbered'
  BY <1>1, <1>2, <1>4, <1>6 DEF Numbered
<1>8. InStep'
  BY <1>1, <1>2, <1>6 DEF InStep, Own
<1>9. QED
  BY <1>7, <1>8

LEMMA ReadCounts ==
  ASSUME TypeOK, Counts, Numbered, InStep, NEW m, Receive(m) \/ ReceiveFirst(m)
  PROVE  Numbered' /\ InStep'
<1>1. Read(m) /\ phase = "recv" /\ duplicated' = duplicated /\ packets' = packets \ {m}
  BY DEF Receive, ReceiveFirst, Read
<1>2. /\ m \in packets /\ m.req \in Nat /\ This \in Nat /\ i <= Len(servers)
      /\ \A k \in DOMAIN taken : taken'[k] = taken[k]
      /\ DOMAIN taken' = DOMAIN taken \cup {Len(taken) + 1}
      /\ taken'[Len(taken) + 1] = [req |-> m.req, asked |-> This]
  BY <1>1, Taken
<1>3. \/ phase' = "sleep" /\ This' = This
      \/ phase' \in {"send", "done"} /\ This' = This + 1
  <2>1. CASE Receive(m)
    BY <2>1 DEF Receive, This
  <2>2. CASE ReceiveFirst(m)
    BY <1>2, <2>2, NextNumber DEF ReceiveFirst
  <2>3. QED
    BY <2>1, <2>2
<1>4. \A n \in packets : n.req \in Nat
  BY DEF TypeOK, Packet
<1>5. m.req <= This /\ \A n \in packets : n.req <= This
  BY <1>2 DEF Numbered
<1>6. \A k \in DOMAIN taken' : taken'[k].req <= taken'[k].asked
  BY <1>2, <1>5 DEF Numbered
<1>7. Numbered'
  BY <1>1, <1>2, <1>3, <1>4, <1>5, <1>6 DEF Numbered
<1>8. InStep'
  <2>1. SUFFICES ASSUME duplicated' = 0
                 PROVE  packets' = {} /\ \A k \in DOMAIN taken' : Own(k)'
    BY <1>3 DEF InStep
  <2>2. \A n \in packets : n = m /\ n.req = This
    BY <1>1, <1>2, <2>1 DEF InStep
  <2>3. \A k \in DOMAIN taken : Own(k)
    BY <1>1, <2>1 DEF InStep
  <2>4. \A k \in DOMAIN taken' : taken'[k].req = taken'[k].asked
    BY <1>2, <2>2, <2>3 DEF Own
  <2>5. QED
    BY <1>1, <2>2, <2>4 DEF Own
<1>9. QED
  BY <1>7, <1>8

LEMMA DropCounts ==
  ASSUME TypeOK, Counts, Numbered, InStep, NEW m, Drop(m)
  PROVE  Numbered' /\ InStep'
<1>1. /\ This' = This /\ duplicated' = duplicated /\ taken' = taken
      /\ packets' \subseteq packets /\ phase' = phase
  BY DEF Drop, This, clientVars
<1>2. Numbered'
  BY <1>1 DEF Numbered
<1>3. InStep'
  BY <1>1 DEF InStep, Own
<1>4. QED
  BY <1>2, <1>3

\* What a step of the network makes of a packet.
Becomes(m, n) ==
  \/ m.kind = "request" /\ n.kind = "held" /\ n.T2 = SendTime(now' + theta[m.server])
  \/ /\ m.kind = "held" /\ n.kind = "response" /\ n.T2 = m.T2
     /\ n.T3 = SendTime(now' + theta[m.server])
     /\ n.dispersion = SendShort(root[m.server])
  \/ n.kind = m.kind /\ n.T2 = m.T2 /\ n.T3 = m.T3 /\ n.dispersion = m.dispersion

LEMMA NewPacket ==
  ASSUME TypeOK, Counts, NEW m \in packets, Net(m)
  PROVE  \E n : /\ n.req = m.req /\ n.server = m.server /\ Becomes(m, n)
               /\ \/ duplicated' = duplicated /\ packets' \subseteq (packets \ {m}) \cup {n}
                  \/ duplicated' # 0 /\ packets' \subseteq packets \cup {n}
<1>1. m \in Packet
  BY DEF TypeOK
<1>2. CASE Arrive(m)
  <2>1. PICK t : t = SendTime(now' + theta[m.server])
    OBVIOUS
  <2>2. PICK n : n = [m EXCEPT !.kind = "held", !.T2 = t]
    OBVIOUS
  <2>3. /\ n.req = m.req /\ n.server = m.server
        /\ n.kind = "held" /\ n.T2 = t
    BY <1>1, <2>2 DEF Packet
  <2>4. /\ m.kind = "request" /\ duplicated' = duplicated
        /\ packets' = (packets \ {m}) \cup {n}
    BY <1>2, <2>1, <2>2 DEF Arrive
  <2>5. QED
    BY <2>1, <2>3, <2>4 DEF Becomes
<1>3. CASE Respond(m)
  <2>1. PICK t : t = SendTime(now' + theta[m.server])
    OBVIOUS
  <2>2. PICK d : d = SendShort(root[m.server])
    OBVIOUS
  <2>3. PICK n : n = [m EXCEPT !.kind = "response", !.T3 = t, !.dispersion = d]
    OBVIOUS
  <2>4. /\ n.req = m.req /\ n.server = m.server
        /\ n.kind = "response" /\ n.T2 = m.T2 /\ n.T3 = t /\ n.dispersion = d
    BY <1>1, <2>3 DEF Packet
  <2>5. /\ m.kind = "held" /\ duplicated' = duplicated
        /\ packets' = (packets \ {m}) \cup {n}
    BY <1>3, <2>1, <2>2, <2>3 DEF Respond
  <2>6. QED
    BY <2>1, <2>2, <2>4, <2>5 DEF Becomes
<1>4. CASE Lose(m)
  <2>1. Becomes(m, m) /\ duplicated' = duplicated /\ packets' \subseteq (packets \ {m}) \cup {m}
    BY <1>4 DEF Lose, Becomes
  <2>2. QED
    BY <2>1
<1>5. CASE Duplicate(m)
  <2>1. PICK n : n = [m EXCEPT !.copy = duplicated']
    OBVIOUS
  <2>2. /\ n.req = m.req /\ n.server = m.server /\ Becomes(m, n)
    BY <1>1, <2>1 DEF Packet, Becomes
  <2>3. duplicated' # 0 /\ packets' = packets \cup {n}
    BY <1>5, <2>1 DEF Duplicate, Counts
  <2>4. QED
    BY <2>2, <2>3
<1>6. QED
  BY <1>2, <1>3, <1>4, <1>5 DEF Net

LEMMA NetCounts ==
  ASSUME TypeOK, Counts, Numbered, InStep,
         NEW m \in packets, Net(m), UNCHANGED clientVars
  PROVE  Numbered' /\ InStep'
<1>1. This' = This /\ taken' = taken /\ phase' = phase
  BY DEF clientVars, This
<1>2. PICK n : /\ n.req = m.req
               /\ \/ duplicated' = duplicated /\ packets' \subseteq (packets \ {m}) \cup {n}
                  \/ duplicated' # 0 /\ packets' \subseteq packets \cup {n}
  BY NewPacket
<1>3. packets' \subseteq packets \cup {n}
  BY <1>2
<1>4. Numbered'
  BY <1>1, <1>2, <1>3 DEF Numbered
<1>5. InStep'
  <2>1. SUFFICES ASSUME duplicated' = 0
                 PROVE  /\ phase \notin {"send", "sleep", "done"}
                        /\ phase = "recv" => \A a, b \in packets' : a = b /\ a.req = This
                        /\ \A k \in DOMAIN taken : Own(k)
    BY <1>1 DEF InStep, Own
  <2>2. duplicated = 0 /\ packets' \subseteq (packets \ {m}) \cup {n}
    BY <1>2, <2>1
  <2>3. phase = "recv" => \A a \in packets' : a = n
    BY <2>2 DEF InStep
  <2>4. phase = "recv" => n.req = This
    BY <1>2, <2>2 DEF InStep
  <2>5. QED
    BY <2>2, <2>3, <2>4 DEF InStep
<1>6. QED
  BY <1>4, <1>5

LEMMA KeepsStep ==
  ASSUME TypeOK, Counts, Numbered, InStep PROVE OwnAnswer
<1>1. ASSUME NEW k \in DOMAIN taken, ~Own(k)
      PROVE  duplicated > 0 /\ taken[k].req < taken[k].asked
  <2>1. duplicated # 0 /\ duplicated \in Nat
    BY <1>1 DEF InStep, Counts
  <2>2. taken[k] \in [req: Nat, asked: Nat]
    <3>1. taken \in Seq([req: Nat, asked: Nat])
      BY DEF TypeOK
    <3>2. QED
      BY <3>1, ElementOfSeq, LenProperties
  <2>3. taken[k].req <= taken[k].asked /\ taken[k].req # taken[k].asked
    BY <1>1 DEF Numbered, Own
  <2>4. QED
    BY <2>1, <2>2, <2>3
<1>2. QED
  BY <1>1 DEF OwnAnswer

-----------------------------------------------------------------------------
(* The times in packets.                                                   *)

\* As time passes a packet keeps its stamps, unless the client begins to wait
\* for the answer to it.
LEMMA StampsStay ==
  ASSUME Counts, now' \in now..MaxNow, NEW m, Stamps(m),
         Asked(m)' => Asked(m) /\ T1' = T1 /\ i' = i
  PROVE  Stamps(m)'
<1>1. now \in Nat /\ now' \in Nat /\ now <= now'
  BY NetAssumption DEF Counts
<1>2. \A t \in 1..now : t \in 1..now' /\ (Arrived(m, t) => Arrived(m, t)')
  BY <1>1 DEF Arrived
<1>3. \A u \in 1..now : Left(m, u) => Left(m, u)'
  BY DEF Left
<1>4. m.kind = "held" => \E t \in 1..now' : Arrived(m, t)'
  BY <1>2 DEF Stamps
<1>5. m.kind = "response" =>
        \E t, u \in 1..now' : t <= u /\ Arrived(m, t)' /\ Left(m, u)'
  BY <1>2, <1>3 DEF Stamps
<1>6. Asked(m)' => m.server = servers[i']
  BY DEF Stamps
<1>7. QED
  BY <1>4, <1>5, <1>6 DEF Stamps

LEMMA SendStamps ==
  ASSUME TypeOK, Counts, Numbered, Stamped, Send
  PROVE  Stamped'
<1>1. This \in Nat /\ This' = This /\ i' = i /\ now' \in now..MaxNow /\ phase = "send"
  BY Numbers DEF Send, This, Passes
<1>2. PICK n : n = createNTPRequest(port')
  OBVIOUS
<1>3. packets' = packets \cup {n} /\ n.kind = "request" /\ n.server = servers[i]
  BY <1>2 DEF Send, createNTPRequest, Request
<1>4. ASSUME NEW m \in packets PROVE Stamps(m)'
  <2>1. m.req \in Nat /\ m.req < This
    BY <1>1 DEF Numbered, TypeOK, Packet
  <2>2. ~Asked(m)'
    BY <1>1, <2>1 DEF Asked
  <2>3. Stamps(m)
    BY DEF Stamped
  <2>4. QED
    BY <1>1, <2>2, <2>3, StampsStay
<1>5. Stamps(n)'
  BY <1>1, <1>3 DEF Stamps
<1>6. QED
  BY <1>3, <1>4, <1>5 DEF Stamped

LEMMA IdleStamps ==
  ASSUME Counts, Stamped, now' \in now..MaxNow, packets' \subseteq packets, phase' # "recv"
  PROVE  Stamped'
<1>1. ASSUME NEW m \in packets PROVE Stamps(m)'
  <2>1. ~Asked(m)' /\ Stamps(m)
    BY DEF Asked, Stamped
  <2>2. QED
    BY <2>1, StampsStay
<1>2. QED
  BY <1>1 DEF Stamped

LEMMA NetStamps ==
  ASSUME TypeOK, Counts, Stamped, NEW m \in packets,
         Net(m) \/ Drop(m), UNCHANGED clientVars
  PROVE  Stamped'
<1>1. /\ phase' = phase /\ T1' = T1 /\ i' = i /\ This' = This
      /\ \A n : Asked(n)' = Asked(n)
  BY DEF clientVars, This, Asked
<1>2. now' \in now..MaxNow /\ now' \in 1..MaxNow /\ now \in 1..MaxNow /\ MaxNow \in Nat
  BY NetAssumption DEF Net, Arrive, Respond, Lose, Duplicate, Drop, Passes, Counts
<1>3. ASSUME NEW n \in packets PROVE Stamps(n)'
  <2>1. Stamps(n)
    BY DEF Stamped
  <2>2. QED
    BY <1>1, <1>2, <2>1, StampsStay
<1>4. CASE Drop(m)
  BY <1>3, <1>4 DEF Drop, Stamped
<1>5. CASE Net(m)
  <2>1. PICK n : /\ n.req = m.req /\ n.server = m.server /\ Becomes(m, n)
                 /\ packets' \subseteq packets \cup {n}
    BY <1>5, NewPacket
  <2>2. Stamps(m)' /\ Stamps(m)
    BY <1>3 DEF Stamped
  <2>3. Asked(n)' = Asked(m) /\ Asked(m)' = Asked(m)
    BY <1>1, <2>1 DEF Asked
  <2>4. Asked(n)' => n.server = servers[i']
    BY <1>1, <2>1, <2>2, <2>3 DEF Stamps
  <2>5. now' \in 1..now' /\ (T1 <= now /\ T1 <= now')
    BY <1>2 DEF Counts
  <2>6. CASE /\ m.kind = "request" /\ n.kind = "held"
             /\ n.T2 = SendTime(now' + theta[m.server])
    <3>1. n.T2 = SendTime(now' + theta[n.server]) /\ T1' <= now'
      BY <1>1, <2>1, <2>5, <2>6
    <3>2. \E t \in 1..now' : Arrived(n, t)'
      BY <2>5, <3>1 DEF Arrived
    <3>3. Stamps(n)'
      BY <2>4, <2>6, <3>2 DEF Stamps
    <3>4. QED
      BY <1>3, <2>1, <3>3 DEF Stamped
  <2>7. CASE /\ m.kind = "held" /\ n.kind = "response" /\ n.T2 = m.T2
             /\ n.T3 = SendTime(now' + theta[m.server])
             /\ n.dispersion = SendShort(root[m.server])
    <3>1. PICK t \in 1..now : Arrived(m, t)
      BY <2>2, <2>7 DEF Stamps
    <3>2. t \in 1..now' /\ t <= now'
      BY <1>2, <3>1
    <3>3. Arrived(n, t)'
      BY <1>1, <2>1, <2>3, <2>7, <3>1 DEF Arrived
    <3>4. PICK u \in 1..now' : u = now'
      BY <2>5
    <3>5. Left(n, u)
      BY <2>1, <2>7, <3>4 DEF Left
    <3>6. t \in 1..now' /\ t <= u
      BY <3>2, <3>4
    <3>7. \E x, y \in 1..now' : x <= y /\ Arrived(n, x)' /\ Left(n, y)
      BY <3>3, <3>5, <3>6
    <3>8. Stamps(n)'
      BY <2>4, <2>7, <3>7 DEF Stamps
    <3>9. QED
      BY <1>3, <2>1, <3>8 DEF Stamped
  <2>8. CASE n.kind = m.kind /\ n.T2 = m.T2 /\ n.T3 = m.T3 /\ n.dispersion = m.dispersion
    <3>1. \A t : Arrived(m, t)' => Arrived(n, t)'
      BY <1>1, <2>1, <2>3, <2>8 DEF Arrived
    <3>2. \A t : Left(m, t)' => Left(n, t)'
      BY <2>1, <2>8 DEF Left
    <3>3. Stamps(n)'
      BY <2>2, <2>4, <2>8, <3>1, <3>2 DEF Stamps
    <3>4. QED
      BY <1>3, <2>1, <3>3 DEF Stamped
  <2>9. QED
    BY <2>1, <2>6, <2>7, <2>8 DEF Becomes
<1>6. QED
  BY <1>4, <1>5

-----------------------------------------------------------------------------
(* What has been printed.                                                  *)

LEMMA SendRows ==
  ASSUME Rows, Send
  PROVE  Rows'
<1>1. /\ UNCHANGED <<program, j, RTT, taken, printed>>
      /\ phase = "send" /\ phase' = "recv"
  BY DEF Send
<1>2. QED
  BY <1>1 DEF Rows

LEMMA FailRows ==
  ASSUME Rows, SendFails \/ ReceiveFails
  PROVE  Rows'
<1>1. /\ UNCHANGED <<program, j, RTT, taken, printed>>
      /\ phase' = "exited"
  BY DEF SendFails, ReceiveFails
<1>2. QED
  BY <1>1 DEF Rows

LEMMA NoRows == Len(<<>>) = 0 /\ DOMAIN <<>> = {}
BY EmptySeq, LenProperties

LEMMA SleepRows ==
  ASSUME TypeOK, Counts, Rows, Sleep
  PROVE  Rows'
<1>1. i <= Len(servers) /\ Len(servers) \in Nat /\ requestNumber \in Nat
  BY Numbers DEF Sleep, Counts
<1>2. /\ UNCHANGED <<program, RTT>> /\ phase = "sleep"
      /\ (i' = i /\ j' = j + 1) \/ (i' = i + 1 /\ j' = 0)
      /\ phase' = IF i' <= Len(servers) THEN "send" ELSE "done"
  BY <1>1, NextNumber DEF Sleep
<1>3. CASE i' = i
  <2>1. UNCHANGED <<taken, printed>> /\ phase' = "send" /\ j' = j + 1
    BY <1>1, <1>2, <1>3 DEF Sleep, TypeOK
  <2>2. QED
    BY <1>2, <2>1 DEF Rows
<1>4. CASE i' # i
  <2>1. /\ taken' = <<>> /\ printed' = <<>> /\ j' = 0
        /\ phase' \in {"send", "done"}
    <3>1. taken' = <<>> /\ printed' = <<>>
      BY <1>4 DEF Sleep
    <3>2. QED
      BY <1>2, <1>4, <3>1
  <2>2. QED
    BY <1>1, <2>1, NoRows DEF Rows
<1>5. QED
  BY <1>3, <1>4

LEMMA ReceiveRows ==
  ASSUME TypeOK, Counts, Stamped, Rows, NEW m, Receive(m)
  PROVE  /\ Rows' /\ Len(printed) = j /\ Len(printed) = Len(taken)
<1>1. /\ RTT'[j] = RoundTrip(m, now')
      /\ \A k \in 0..(requestNumber - 1) : k # j => RTT'[k] = RTT[k]
      /\ Len(printed') = Len(printed) + 1
      /\ DOMAIN printed' = DOMAIN printed \cup {Len(printed) + 1}
      /\ Len(printed) \in Nat /\ DOMAIN printed = 1..Len(printed)
      /\ \A k \in DOMAIN printed : printed'[k] = printed[k]
      /\ printed'[Len(printed) + 1] = Printed(m, now', RTT')
  BY Row
<1>2. /\ program = "Block6" /\ program' = program /\ phase = "recv" /\ phase' = "sleep"
      /\ j' = j /\ Read(m)
  BY DEF Receive, Read
<1>3. Len(printed) = j /\ Len(printed) = Len(taken)
  BY <1>2 DEF Rows
<1>4. Len(taken') = Len(taken) + 1
  BY <1>2, Taken
<1>5. j \in 0..(requestNumber - 1) /\ requestNumber \in Nat /\ j \in Nat
  BY ClientAssumption DEF TypeOK
<1>6. ASSUME NEW k \in DOMAIN printed' PROVE RTT'[k - 1] = printed'[k].RTT
  <2>0. /\ DOMAIN printed = 1..j /\ DOMAIN printed' = 1..j \cup {j + 1}
        /\ printed'[j + 1] = Printed(m, now', RTT')
    <3>1. PICK n : n = Len(printed)
      OBVIOUS
    <3>2. /\ DOMAIN printed = 1..n /\ DOMAIN printed' = 1..n \cup {n + 1}
          /\ printed'[n + 1] = Printed(m, now', RTT')
      BY <1>1, <3>1
    <3>3. n = j
      BY <1>3, <3>1
    <3>4. QED
      BY <3>2, <3>3
  <2>1. CASE k = j + 1
    <3>1. k - 1 = j
      BY <1>5, <2>1
    <3>2. printed'[k] = Printed(m, now', RTT')
      BY <2>0, <2>1
    <3>3. QED
      BY <3>1, <3>2 DEF Printed
  <2>2. CASE k # j + 1
    <3>1. k \in DOMAIN printed /\ k \in 1..j
      BY <2>0, <2>2
    <3>2. k - 1 \in 0..(requestNumber - 1) /\ k - 1 # j
      BY <1>5, <3>1
    <3>3. RTT'[k - 1] = RTT[k - 1] /\ printed'[k] = printed[k]
      BY <1>1, <3>1, <3>2
    <3>4. QED
      BY <3>1, <3>3 DEF Rows
  <2>3. QED
    BY <2>1, <2>2
<1>7. Rows'
  BY <1>1, <1>2, <1>3, <1>4, <1>5, <1>6 DEF Rows
<1>8. QED
  BY <1>3, <1>7

LEMMA ReceiveFirstRows ==
  ASSUME Rows, NEW m, ReceiveFirst(m)
  PROVE  Rows'
<1>1. program = "NTP" /\ program' = "NTP" /\ printed' = printed /\ RTT' = RTT
  BY DEF ReceiveFirst
<1>2. printed = <<>>
  BY <1>1 DEF Rows
<1>3. QED
  BY <1>1, <1>2 DEF Rows

-----------------------------------------------------------------------------
(* Offsets and dispersions.                                                *)

\* A server whose clock is ahead by th stamps t and u between the times T and F
\* of its client; r and s are what is read of the stamps, after EpochGap g and in
\* eras of e.
LEMMA WithinDelay ==
  ASSUME NEW th \in Int, NEW e \in Nat, NEW g \in Nat,
         NEW T \in Int, NEW t \in Int, NEW u \in Int, NEW F \in Int,
         T <= t, t <= u, u <= F,
         NEW r, r = IF t + th + g < e THEN t + th ELSE t + th - e,
         NEW s, s = IF u + th + g < e THEN u + th ELSE u + th - e
  PROVE  \E eras \in {0, 1} :
           /\ -((F - T) - (s - r)) <= ((r - T) + (s - F)) - 2 * (th - eras * e)
           /\ ((r - T) + (s - F)) - 2 * (th - eras * e) <= (F - T) - (s - r)
<1>1. CASE t + th + g < e
  <2>1. r = t + th /\ 0 * e = 0
    BY <1>1
  <2>2. QED
    BY <1>1, <2>1
<1>2. CASE ~(t + th + g < e)
  <2>1. r = t + th - e /\ s = u + th - e /\ 1 * e = e
    BY <1>2
  <2>2. QED
    BY <2>1
<1>3. QED
  BY <1>1, <1>2

\* The offset printed in row k, and the row's dispersion, are right.
Offset(k) ==
  Own(k) /\ overwritten # "T1" =>
    \E eras \in {0, 1} :
      LET error == printed[k].offset2 - 2 * (theta[servers[i]] - eras * Era) IN
      -printed[k].RTT <= error /\ error <= printed[k].RTT

Recent(k) == {printed[a].RTT : a \in (IF k > Window THEN k - Window + 1 ELSE 1)..k}

Dispersed(k) ==
  /\ printed[k].dispersion = Max(Recent(k)) - Min(Recent(k))
  /\ Own(k) => printed[k].rootDispersion = root[servers[i]]

LEMMA EachRow ==
  /\ OffsetWithinDelay <=> \A k \in DOMAIN printed : Offset(k)
  /\ DispersionOfServer <=> \A k \in DOMAIN printed : Dispersed(k)
BY DEF OffsetWithinDelay, DispersionOfServer, Offset, Dispersed, Recent

LEMMA NewOffset ==
  ASSUME TypeOK, Counts, Stamped, Rows, NEW m, Receive(m), NEW k, k = j + 1
  PROVE  Offset(k)'
<1>1. /\ printed'[k] = Printed(m, now', RTT') /\ RTT'[j] = RoundTrip(m, now')
      /\ Len(printed) = Len(taken) /\ Len(printed) = j
  BY Row, ReceiveRows
<1>2. Read(m) /\ i' = i /\ phase = "recv"
  BY DEF Receive, Read
<1>3. /\ m \in packets /\ m.kind = "response" /\ taken'[k] = [req |-> m.req, asked |-> This]
      /\ now' \in now..MaxNow /\ now' \in 1..MaxNow
  BY <1>1, <1>2, Taken
<1>4. SUFFICES ASSUME Own(k)'
               PROVE  \E eras \in {0, 1} :
                        LET error == printed'[k].offset2 - 2 * (theta[servers[i]] - eras * Era)
                        IN  -printed'[k].RTT <= error /\ error <= printed'[k].RTT
  BY <1>2 DEF Offset
<1>5. Asked(m)
  BY <1>2, <1>3, <1>4 DEF Own, Asked
<1>6. PICK t \in 1..now, u \in 1..now :
           /\ t <= u /\ (Asked(m) => T1 <= t /\ m.server = servers[i])
           /\ m.server \in Server /\ theta[m.server] \in Int
           /\ ReadTime(m.T2) = IF t + theta[m.server] + EpochGap * Second < Era
                                 THEN t + theta[m.server] ELSE t + theta[m.server] - Era
           /\ ReadTime(m.T3) = IF u + theta[m.server] + EpochGap * Second < Era
                                 THEN u + theta[m.server] ELSE u + theta[m.server] - Era
  BY <1>3, ResponseRead
<1>7. PICK th : th = theta[servers[i]]
  OBVIOUS
<1>8. PICK T : T = T1
  OBVIOUS
<1>9. PICK F : F = now'
  OBVIOUS
<1>10. PICK r : r = ReadTime(m.T2)
  OBVIOUS
<1>11. PICK s : s = ReadTime(m.T3)
  OBVIOUS
<1>12. PICK g : g = EpochGap * Second
  OBVIOUS
<1>13. PICK e : e = Era
  OBVIOUS
<1>14. /\ th \in Int /\ e \in Nat /\ g \in Nat
       /\ T \in Int /\ t \in Int /\ u \in Int /\ F \in Int
       /\ T <= t /\ t <= u /\ u <= F
  BY <1>3, <1>5, <1>6, <1>7, <1>8, <1>9, <1>12, <1>13, Eras, NetAssumption DEF TypeOK, Counts
<1>15. /\ r = IF t + th + g < e THEN t + th ELSE t + th - e
       /\ s = IF u + th + g < e THEN u + th ELSE u + th - e
  BY <1>5, <1>6, <1>7, <1>10, <1>11, <1>12, <1>13
<1>16. PICK eras \in {0, 1} :
           /\ -((F - T) - (s - r)) <= ((r - T) + (s - F)) - 2 * (th - eras * e)
           /\ ((r - T) + (s - F)) - 2 * (th - eras * e) <= (F - T) - (s - r)
  BY <1>14, <1>15, WithinDelay
<1>17. printed'[k].RTT = (F - T) - (s - r) /\ printed'[k].offset2 = (r - T) + (s - F)
  BY <1>1, <1>8, <1>9, <1>10, <1>11 DEF Printed, RoundTrip
<1>18. QED
  BY <1>7, <1>13, <1>16, <1>17

LEMMA NewDispersion ==
  ASSUME TypeOK, Counts, Stamped, Rows, NEW m, Receive(m), NEW k, k = j + 1
  PROVE  Dispersed(k)'
<1>1. /\ printed'[k] = Printed(m, now', RTT')
      /\ Len(printed) = Len(taken) /\ Len(printed) = j /\ Rows'
      /\ DOMAIN printed' = 1..(j + 1)
  BY Row, ReceiveRows
<1>2. Read(m) /\ i' = i /\ phase = "recv" /\ j \in Nat
  BY ClientAssumption DEF Receive, Read, TypeOK
<1>3. /\ m \in packets /\ m.kind = "response" /\ taken'[k] = [req |-> m.req, asked |-> This]
  BY <1>1, <1>2, Taken
<1>4. Own(k)' => printed'[k].rootDispersion = root[servers[i']]
  <2>1. SUFFICES ASSUME Own(k)' PROVE ReadShort(m.dispersion) = root[servers[i]]
    BY <1>1, <1>2 DEF Printed
  <2>2. Asked(m)
    BY <1>2, <1>3, <2>1 DEF Own, Asked
  <2>3. QED
    BY <1>3, <2>2, ResponseRead
<1>5. Window \in Nat /\ Window > 1
  BY ClientAssumption
<1>6. PICK b : b = j
  OBVIOUS
<1>7. PICK a : a = IF b > Window - 2 THEN b - (Window - 1) ELSE 0
  OBVIOUS
<1>8. a \in Nat /\ b \in Nat /\ a <= b
  BY <1>2, <1>5, <1>6, <1>7
<1>9. printed'[k].dispersion = Max({RTT'[x] : x \in a..b}) - Min({RTT'[x] : x \in a..b})
  <2>1. printed'[k].dispersion = dispersion(RTT')
    BY <1>1 DEF Printed
  <2>2. CASE b > Window - 2
    BY <1>6, <1>7, <2>1, <2>2 DEF dispersion
  <2>3. CASE ~(b > Window - 2)
    BY <1>6, <1>7, <2>1, <2>3 DEF dispersion
  <2>4. QED
    BY <2>2, <2>3
<1>10. (IF k > Window THEN k - Window + 1 ELSE 1) = a + 1 /\ k = b + 1
  BY <1>2, <1>5, <1>6, <1>7
<1>11. \A x \in a..b : RTT'[x] = printed'[x + 1].RTT
  <2>1. ASSUME NEW x \in a..b PROVE RTT'[x] = printed'[x + 1].RTT
    <3>1. x + 1 \in 1..(j + 1) /\ (x + 1) - 1 = x
      BY <1>6, <1>8
    <3>2. RTT'[(x + 1) - 1] = printed'[x + 1].RTT
      BY <1>1, <3>1 DEF Rows
    <3>3. QED
      BY <3>1, <3>2
  <2>2. QED
    BY <2>1
<1>12. {RTT'[x] : x \in a..b} = {printed'[y].RTT : y \in (a + 1)..(b + 1)}
  <2>1. \A x \in a..b : x + 1 \in (a + 1)..(b + 1)
    BY <1>8
  <2>2. \A y \in (a + 1)..(b + 1) : y - 1 \in a..b /\ (y - 1) + 1 = y
    BY <1>8
  <2>3. \A y \in (a + 1)..(b + 1) : RTT'[y - 1] = printed'[y].RTT
    BY <1>11, <2>2
  <2>4. QED
    BY <1>11, <2>1, <2>2, <2>3
<1>13. Recent(k)' = {printed'[y].RTT : y \in (a + 1)..(b + 1)}
  BY <1>10 DEF Recent
<1>14. QED
  BY <1>4, <1>9, <1>12, <1>13 DEF Dispersed

Results == OffsetWithinDelay /\ DispersionOfServer

LEMMA ResultsStay ==
  ASSUME Results, UNCHANGED <<i, overwritten, taken, printed>>
  PROVE  Results'
<1>1. \A k : (Own(k)' <=> Own(k)) /\ (Offset(k)' <=> Offset(k)) /\ Recent(k)' = Recent(k)
  BY DEF Own, Offset, Recent
<1>2. \A k : Dispersed(k)' <=> Dispersed(k)
  BY <1>1 DEF Dispersed
<1>3. (\A k \in DOMAIN printed : Offset(k)') /\ (\A k \in DOMAIN printed : Dispersed(k)')
  BY <1>1, <1>2, EachRow DEF Results
<1>4. OffsetWithinDelay'
  BY <1>3 DEF OffsetWithinDelay, Offset
<1>5. DispersionOfServer'
  BY <1>3 DEF DispersionOfServer, Dispersed, Recent
<1>6. QED
  BY <1>4, <1>5 DEF Results

LEMMA ResultsGone ==
  ASSUME printed' = <<>>
  PROVE  Results'
<1>1. DOMAIN printed' = {}
  BY NoRows
<1>2. QED
  BY <1>1 DEF Results, OffsetWithinDelay, DispersionOfServer

LEMMA SleepResults ==
  ASSUME TypeOK, Counts, Rows, Results, Sleep
  PROVE  Results'
<1>1. CASE i' = i
  BY <1>1, ResultsStay DEF Sleep
<1>2. CASE i' # i
  <2>1. printed' = <<>>
    BY <1>2 DEF Sleep
  <2>2. QED
    BY <2>1, ResultsGone
<1>3. QED
  BY <1>1, <1>2

LEMMA ReceiveResults ==
  ASSUME TypeOK, Counts, Stamped, Rows, Results, NEW m, Receive(m)
  PROVE  Results'
<1>1. /\ DOMAIN printed' = DOMAIN printed \cup {Len(printed) + 1}
      /\ Len(printed) \in Nat /\ DOMAIN printed = 1..Len(printed)
      /\ \A k \in DOMAIN printed : printed'[k] = printed[k]
  BY Row
<1>2. Len(printed) = j /\ Len(printed) = Len(taken)
  BY ReceiveRows
<1>3. i' = i /\ overwritten' = overwritten /\ Read(m)
  BY DEF Receive
<1>4. \A k \in DOMAIN taken : taken'[k] = taken[k]
  BY <1>3, Taken
<1>5. DOMAIN taken = DOMAIN printed
  <2>1. taken \in Seq([req: Nat, asked: Nat])
    BY DEF TypeOK
  <2>2. DOMAIN taken = 1..Len(taken)
    BY <2>1, LenProperties
  <2>3. QED
    BY <1>1, <1>2, <2>2
<1>6. ASSUME NEW k \in DOMAIN printed PROVE Offset(k)' /\ Dispersed(k)'
  <2>1. taken'[k] = taken[k] /\ printed'[k] = printed[k]
    BY <1>1, <1>4, <1>5
  <2>2. Own(k)' <=> Own(k)
    BY <2>1 DEF Own
  <2>3. Offset(k) /\ Dispersed(k)
    BY EachRow DEF Results
  <2>4. Offset(k)'
    BY <1>3, <2>1, <2>2, <2>3 DEF Offset
  <2>5. Recent(k)' = Recent(k)
    <3>1. PICK a : a = IF k > Window THEN k - Window + 1 ELSE 1
      OBVIOUS
    <3>2. k \in Nat /\ k <= Len(printed)
      BY <1>1
    <3>3. a \in Nat /\ 1 <= a
      BY <3>1, <3>2, ClientAssumption
    <3>4. \A x \in a..k : x \in DOMAIN printed
      BY <1>1, <3>2, <3>3
    <3>5. \A x \in a..k : printed'[x] = printed[x]
      BY <1>1, <3>4
    <3>6. Recent(k) = {printed[x].RTT : x \in a..k}
      BY <3>1 DEF Recent
    <3>7. Recent(k)' = {printed'[x].RTT : x \in a..k}
      BY <3>1 DEF Recent
    <3>8. QED
      BY <3>5, <3>6, <3>7
  <2>6. Dispersed(k)'
    BY <1>3, <2>1, <2>2, <2>3, <2>5 DEF Dispersed
  <2>7. QED
    BY <2>4, <2>6
<1>7. PICK n : n = j + 1
  OBVIOUS
<1>8. Offset(n)' /\ Dispersed(n)'
  BY <1>7, NewOffset, NewDispersion
<1>9. \A k \in DOMAIN printed' : k \in DOMAIN printed \/ k = n
  BY <1>1, <1>2, <1>7
<1>10. \A k \in DOMAIN printed' : Offset(k)' /\ Dispersed(k)'
  BY <1>6, <1>8, <1>9
<1>11. OffsetWithinDelay'
  BY <1>10 DEF OffsetWithinDelay, Offset
<1>12. DispersionOfServer'
  BY <1>10 DEF DispersionOfServer, Dispersed, Recent
<1>13. QED
  BY <1>11, <1>12 DEF Results

LEMMA ReceiveFirstResults ==
  ASSUME Rows, NEW m, ReceiveFirst(m)
  PROVE  Results'
<1>1. program = "NTP" /\ printed' = printed
  BY DEF ReceiveFirst
<1>2. printed' = <<>>
  BY <1>1 DEF Rows
<1>3. QED
  BY <1>2, ResultsGone

-----------------------------------------------------------------------------
(* The invariant holds.                                                    *)

LEMMA Initially ==
  ASSUME Init
  PROVE  IInv
<1>1. /\ now = 1 /\ packets = {} /\ lost = 0 /\ duplicated = 0
      /\ program \in {"Block6", "NTP"}
      /\ phase = (IF servers = <<>> THEN "done" ELSE "send")
      /\ i = 1 /\ j = 0 /\ port = 0 /\ T1 = 0
      /\ RTT = [k \in 0..(requestNumber - 1) |-> 0]
      /\ overwritten \in {"T1", "unused"}
      /\ taken = <<>> /\ printed = <<>>
  BY DEF Init, NetInit
<1>2. /\ servers \in Seq(Server) /\ requestNumber \in Nat \ {0}
      /\ MaxNow \in Nat \ {0} /\ MaxFaults \in Nat
  BY ClientAssumption, NetAssumption
<1>3. Len(servers) \in Nat /\ (servers # <<>> => 1 <= Len(servers))
  BY <1>2, EmptySeq, LenProperties
<1>4. TypeOK
  BY <1>1, <1>2, <1>3 DEF TypeOK
<1>5. Counts
  BY <1>1, <1>2, <1>3 DEF Counts
<1>6. Numbered /\ InStep /\ Stamped
  BY <1>1, NoRows DEF Numbered, InStep, Stamped
<1>7. Rows
  BY <1>1, <1>2, NoRows DEF Rows
<1>8. OffsetWithinDelay /\ DispersionOfServer
  BY <1>1, NoRows DEF OffsetWithinDelay, DispersionOfServer
<1>9. QED
  BY <1>4, <1>5, <1>6, <1>7, <1>8 DEF IInv

LEMMA Step ==
  ASSUME IInv, [Next]_vars
  PROVE  IInv'
<1>1. /\ TypeOK /\ Counts /\ Numbered /\ InStep /\ Stamped /\ Rows /\ Results
      /\ OffsetWithinDelay /\ DispersionOfServer
  BY DEF IInv, Results
<1>2. now \in 1..MaxNow /\ MaxNow \in Nat
  BY <1>1, NetAssumption DEF Counts
<1>3. SUFFICES TypeOK' /\ Counts' /\ Numbered' /\ InStep' /\ Stamped' /\ Rows' /\ Results'
  BY DEF IInv, Results
<1>4. CASE Send
  <2>1. Results'
    BY <1>1, <1>4, ResultsStay DEF Send
  <2>2. QED
    BY <1>1, <1>4, <2>1, SendTypes, SendCounts, SendStamps, SendRows
<1>5. CASE SendFails \/ ReceiveFails
  <2>1. Results'
    BY <1>1, <1>5, ResultsStay DEF SendFails, ReceiveFails
  <2>2. Stamped'
    <3>1. packets' = packets /\ now' = now /\ phase' = "exited"
      BY <1>5 DEF SendFails, ReceiveFails, netVars
    <3>2. now' \in now..MaxNow
      BY <1>2, <3>1
    <3>3. QED
      BY <1>1, <3>1, <3>2, IdleStamps
  <2>3. QED
    BY <1>1, <1>5, <2>1, <2>2, FailTypes, FailCounts, FailRows
<1>6. CASE Sleep
  <2>1. Stamped'
    <3>1. packets' = packets /\ now' = now /\ phase' # "recv"
      BY <1>6 DEF Sleep, netVars
    <3>2. now' \in now..MaxNow
      BY <1>2, <3>1
    <3>3. QED
      BY <1>1, <3>1, <3>2, IdleStamps
  <2>2. QED
    BY <1>1, <1>6, <2>1, SleepTypes, SleepCounts, SleepRows, SleepResults
<1>7. ASSUME NEW m \in packets, Receive(m) \/ ReceiveFirst(m)
      PROVE  TypeOK' /\ Counts' /\ Numbered' /\ InStep' /\ Stamped' /\ Rows' /\ Results'
  <2>1. Stamped'
    <3>1. Read(m) /\ phase' # "recv"
      BY <1>7 DEF Receive, ReceiveFirst
    <3>2. now' \in now..MaxNow /\ packets' \subseteq packets
      BY <1>1, <3>1, Taken
    <3>3. QED
      BY <1>1, <3>1, <3>2, IdleStamps
  <2>2. Numbered' /\ InStep'
    BY <1>1, <1>7, ReadCounts
  <2>3. CASE Receive(m)
    BY <1>1, <2>1, <2>2, <2>3, ReceiveTypes, ReceiveRows, ReceiveResults
  <2>4. CASE ReceiveFirst(m)
    BY <1>1, <2>1, <2>2, <2>4, ReceiveFirstTypes, ReceiveFirstRows, ReceiveFirstResults
  <2>5. QED
    BY <1>7, <2>3, <2>4
<1>8. ASSUME UNCHANGED clientVars PROVE Rows' /\ Results'
  <2>1. UNCHANGED <<program, phase, i, j, RTT, overwritten, taken, printed>>
    BY <1>8 DEF clientVars
  <2>2. Results'
    BY <1>1, <2>1, ResultsStay
  <2>3. QED
    BY <1>1, <2>1, <2>2 DEF Rows
<1>9. ASSUME NEW m \in packets, Drop(m)
      PROVE  TypeOK' /\ Counts' /\ Numbered' /\ InStep' /\ Stamped' /\ Rows' /\ Results'
  <2>1. UNCHANGED clientVars
    BY <1>9 DEF Drop
  <2>2. QED
    BY <1>1, <1>8, <1>9, <2>1, DropTypes, DropCounts, NetStamps
<1>10. ASSUME NEW m \in packets, Net(m), UNCHANGED clientVars
       PROVE  TypeOK' /\ Counts' /\ Numbered' /\ InStep' /\ Stamped' /\ Rows' /\ Results'
  BY <1>1, <1>8, <1>10, NetTypes, NetCounts, NetStamps
<1>11. CASE UNCHANGED vars
  <2>1. /\ UNCHANGED <<program, phase, i, j, port, T1, RTT, overwritten, taken, printed>>
        /\ UNCHANGED <<now, packets, lost, duplicated>> /\ UNCHANGED clientVars
    BY <1>11 DEF vars, clientVars, netVars
  <2>2. Rows' /\ Results'
    BY <1>8, <2>1
  <2>3. TypeOK' /\ Counts'
    BY <1>1, <2>1 DEF TypeOK, Counts
  <2>4. Numbered' /\ InStep'
    BY <1>1, <2>1 DEF Numbered, InStep, This, Own
  <2>5. Stamped'
    <3>1. \A m : Asked(m)' = Asked(m)
      BY <2>1 DEF Asked, This
    <3>2. now' \in now..MaxNow
      BY <1>2, <2>1
    <3>3. ASSUME NEW m \in packets PROVE Stamps(m)'
      <4>1. Stamps(m)
        BY <1>1 DEF Stamped
      <4>2. QED
        BY <1>1, <2>1, <3>1, <3>2, <4>1, StampsStay
    <3>4. QED
      BY <2>1, <3>3 DEF Stamped
  <2>6. QED
    BY <2>2, <2>3, <2>4, <2>5
<1>12. QED
  BY <1>4, <1>5, <1>6, <1>7, <1>9, <1>10, <1>11 DEF Next, NetNext, Net

\* The strengthened invariant of the client and the network.
THEOREM Invariance == Spec => []IInv
<1>1. Init => IInv
  BY Initially
<1>2. IInv /\ [Next]_vars => IInv'
  BY Step
<1>3. QED
  BY <1>1, <1>2, PTL DEF Spec

\* The loops of ntpclient.c stay within the servers and the array RTT, and what
\* is read and printed are numbers.
THEOREM TypeCorrect == Spec => []TypeOK
<1>1. IInv => TypeOK
  BY DEF IInv
<1>2. QED
  BY <1>1, Invariance, PTL

\* recvfrom gives the answer to the request just sent, or a duplicate of the
\* answer to an earlier one.
THEOREM AnswersAreOwn == Spec => []OwnAnswer
<1>1. IInv => OwnAnswer
  BY KeepsStep DEF IInv
<1>2. QED
  BY <1>1, Invariance, PTL

\* The offset printed is right within half the delay printed.
THEOREM OffsetsAreRight == Spec => []OffsetWithinDelay
<1>1. IInv => OffsetWithinDelay
  BY DEF IInv
<1>2. QED
  BY <1>1, Invariance, PTL

\* The window over the array RTT is that of the last rows printed for the server,
\* and rv_memcpy and FP2D read the root dispersion it sent.
THEOREM DispersionsAreRight == Spec => []DispersionOfServer
<1>1. IInv => DispersionOfServer
  BY DEF IInv
<1>2. QED
  BY <1>1, Invariance, PTL
=============================================================================
