---------------------------- MODULE CatPngProofs ----------------------------
(***************************************************************************)
(* catpng and pnginfo for every set of pictures, whatever their headers    *)
(* say and their data inflate to, every CHUNK, any number of runs and of   *)
(* pictures on the command line: where the pictures lie in the buffer,     *)
(* that each IDAT chunk is sound, and what pnginfo says.  A run that       *)
(* overruns uncompressed_data ends the behaviour.                          *)
(***************************************************************************)
EXTENDS CatPng, Counting, SequenceTheorems

-----------------------------------------------------------------------------
(* Sums of prefixes.                                                       *)

Sums(n, h, g) == /\ g \in [0 .. n -> Nat] /\ g[0] = 0
                 /\ \A k \in 1 .. n : g[k] = g[k - 1] + h[k]

LEMMA SumsExist ==
    ASSUME NEW n \in Nat, NEW h \in [1 .. n -> Nat]
    PROVE \E g : Sums(n, h, g)
<1> DEFINE Have == {m \in Nat : m <= n => \E g : Sums(m, h, g)}
<1>1. 0 \in Have
  <2> DEFINE g == [k \in 0 .. 0 |-> 0]
  <2>1. Sums(0, h, g)
    BY DEF Sums
  <2> QED BY <2>1
<1>2. ASSUME NEW m \in Nat, m \in Have PROVE m + 1 \in Have
  <2> SUFFICES ASSUME m + 1 <= n PROVE \E g : Sums(m + 1, h, g)
    OBVIOUS
  <2>1. PICK f : Sums(m, h, f)
    BY <1>2
  <2>2. f \in [0 .. m -> Nat] /\ f[0] = 0 /\ \A k \in 1 .. m : f[k] = f[k - 1] + h[k]
    BY <2>1 DEF Sums
  <2> DEFINE g == [k \in 0 .. m + 1 |-> IF k = m + 1 THEN f[m] + h[m + 1] ELSE f[k]]
  <2>3. f[m] \in Nat /\ h[m + 1] \in Nat
    BY <2>2
  <2>4. ASSUME NEW k \in 0 .. m PROVE g[k] = f[k] /\ f[k] \in Nat
    BY <2>2
  <2>5. g[m + 1] = f[m] + h[m + 1]
    OBVIOUS
  <2>6. g \in [0 .. m + 1 -> Nat]
    <3>1. ASSUME NEW k \in 0 .. m + 1 PROVE g[k] \in Nat
      <4>1. k \in 0 .. m \/ k = m + 1
        OBVIOUS
      <4>2. f[m] + h[m + 1] \in Nat
        BY <2>3
      <4> HIDE DEF g
      <4> QED BY <2>4, <2>5, <4>1, <4>2
    <3> QED BY <3>1
  <2> HIDE DEF g
  <2>7. ASSUME NEW k \in 1 .. m + 1 PROVE g[k] = g[k - 1] + h[k]
    <3>1. CASE k = m + 1
      BY <2>4, <2>5, <3>1
    <3>2. CASE k # m + 1
      <4>1. k \in 1 .. m /\ k \in 0 .. m /\ k - 1 \in 0 .. m
        BY <3>2
      <4> QED BY <2>2, <2>4, <4>1
    <3> QED BY <3>1, <3>2
  <2>8. Sums(m + 1, h, g)
    BY <2>2, <2>4, <2>6, <2>7 DEF Sums
  <2> QED BY <2>8
<1>3. Nat \subseteq Have
  <2> HIDE DEF Have
  <2> QED BY <1>1, <1>2, Induction
<1> QED BY <1>3

LEMMA SumIs ==
    ASSUME NEW n \in Nat, NEW f \in Seq(Nat), Len(f) = n, NEW g, Sums(n, f, g)
    PROVE Sum(f) = g[n]
<1> DEFINE sum == CHOOSE s : s = [k \in 0 .. n |-> IF k = 0 THEN 0 ELSE s[k - 1] + f[k]]
<1>1. Sum(f) = sum[n]
  BY DEF Sum
<1>2. g \in [0 .. n -> Nat] /\ g[0] = 0 /\ \A k \in 1 .. n : g[k] = g[k - 1] + f[k]
  BY DEF Sums
<1>3. g = [k \in 0 .. n |-> IF k = 0 THEN 0 ELSE g[k - 1] + f[k]]
  <2>1. ASSUME NEW k \in 0 .. n PROVE g[k] = IF k = 0 THEN 0 ELSE g[k - 1] + f[k]
    BY <1>2
  <2> QED BY <1>2, <2>1
<1>4. sum = [k \in 0 .. n |-> IF k = 0 THEN 0 ELSE sum[k - 1] + f[k]]
  BY <1>3
<1> HIDE DEF sum
<1> DEFINE Same == {k \in Nat : k <= n => sum[k] = g[k]}
<1>5. 0 \in Same
  BY <1>2, <1>4
<1>6. ASSUME NEW k \in Nat, k \in Same PROVE k + 1 \in Same
  <2> SUFFICES ASSUME k + 1 <= n PROVE sum[k + 1] = g[k + 1]
    OBVIOUS
  <2>1. k <= n /\ k + 1 \in 1 .. n /\ k + 1 \in 0 .. n /\ k + 1 # 0 /\ (k + 1) - 1 = k
    OBVIOUS
  <2>2. sum[k + 1] = sum[k] + f[k + 1]
    BY <1>4, <2>1
  <2>3. g[k + 1] = g[k] + f[k + 1]
    BY <1>2, <2>1
  <2> QED BY <1>6, <2>1, <2>2, <2>3
<1>7. Nat \subseteq Same
  <2> HIDE DEF Same
  <2> QED BY <1>5, <1>6, Induction
<1> QED BY <1>1, <1>7

(* Sums never fall.                                                        *)
LEMMA SumsRise ==
    ASSUME NEW n \in Nat, NEW h \in [1 .. n -> Nat], NEW g, Sums(n, h, g),
           NEW j \in 0 .. n, NEW k \in j .. n
    PROVE g[j] <= g[k]
<1> DEFINE Up == {d \in Nat : j + d <= n => g[j] <= g[j + d]}
<1>1. g \in [0 .. n -> Nat] /\ \A x \in 1 .. n : g[x] = g[x - 1] + h[x]
  BY DEF Sums
<1>2. 0 \in Up
  BY <1>1
<1>3. ASSUME NEW d \in Nat, d \in Up PROVE d + 1 \in Up
  <2> SUFFICES ASSUME j + (d + 1) <= n PROVE g[j] <= g[j + (d + 1)]
    OBVIOUS
  <2> DEFINE x == j + (d + 1)
  <2>1. x \in 1 .. n /\ x - 1 = j + d /\ j + d <= n /\ j + d \in 0 .. n
    OBVIOUS
  <2>2. g[x] = g[j + d] + h[x] /\ h[x] \in Nat /\ g[j + d] \in Nat /\ g[j] \in Nat
    BY <1>1, <2>1
  <2>3. g[j] <= g[j + d]
    BY <1>3, <2>1
  <2> HIDE DEF x
  <2>4. g[j] <= g[x]
    BY <2>2, <2>3
  <2> QED BY <2>4 DEF x
<1>4. Nat \subseteq Up
  <2> HIDE DEF Up
  <2> QED BY <1>2, <1>3, Induction
<1>5. k - j \in Nat /\ j + (k - j) = k
  OBVIOUS
<1>6. k - j \in Up
  BY <1>4, <1>5
<1> QED BY <1>5, <1>6

(* f is the first k of h's n values, whose sums are g.                     *)
Prefix(n, h, g, k, f) == /\ n \in Nat /\ h \in [1 .. n -> Nat] /\ Sums(n, h, g)
                         /\ k \in 0 .. n /\ f = [j \in 1 .. k |-> h[j]]

LEMMA PrefixSum ==
    ASSUME NEW n, NEW h, NEW g, NEW k, NEW f, Prefix(n, h, g, k, f)
    PROVE Sum(f) = g[k]
<1>0. /\ n \in Nat /\ h \in [1 .. n -> Nat] /\ Sums(n, h, g)
      /\ k \in 0 .. n /\ f = [j \in 1 .. k |-> h[j]]
  BY DEF Prefix
<1> DEFINE e == [x \in 0 .. k |-> g[x]]
<1>1. g \in [0 .. n -> Nat] /\ g[0] = 0 /\ \A x \in 1 .. n : g[x] = g[x - 1] + h[x]
  BY <1>0 DEF Sums
<1>2. ASSUME NEW x \in 1 .. k PROVE f[x] = h[x] /\ h[x] \in Nat
  BY <1>0
<1>3. f \in [1 .. k -> Nat] /\ f \in Seq(Nat) /\ Len(f) = k
  BY <1>0, <1>2
<1>4. ASSUME NEW x \in 0 .. k PROVE e[x] = g[x] /\ g[x] \in Nat
  BY <1>0, <1>1
<1>5. e \in [0 .. k -> Nat]
  BY <1>4
<1> HIDE DEF e
<1>6. ASSUME NEW x \in 1 .. k PROVE e[x] = e[x - 1] + f[x]
  <2>1. x \in 0 .. k /\ x - 1 \in 0 .. k /\ x \in 1 .. n
    BY <1>0
  <2> QED BY <1>1, <1>2, <1>4, <2>1
<1>7. Sums(k, f, e)
  BY <1>0, <1>1, <1>4, <1>5, <1>6 DEF Sums
<1>8. Sum(f) = e[k]
  BY <1>0, <1>3, <1>7, SumIs
<1> QED BY <1>0, <1>4, <1>8

-----------------------------------------------------------------------------
(* zutil's loops.                                                          *)

(* mem_def copies all that deflate makes.                                  *)
LEMMA mem_defIs == ASSUME NEW n \in Nat PROVE mem_def(n) = n
<1> DEFINE Go(f, x) == IF Given(n, x) = CHUNK THEN f[x + Given(n, x)] ELSE x + Given(n, x)
           loop == CHOOSE f : f = [x \in 0 .. n |-> Go(f, x)]
           out == [x \in 0 .. n |-> n]
<1>1. mem_def(n) = loop[0]
  BY DEF mem_def
<1>2. ASSUME NEW x \in 0 .. n
      PROVE \/ Given(n, x) = CHUNK /\ x + Given(n, x) \in x + 1 .. n
            \/ Given(n, x) # CHUNK /\ x + Given(n, x) = n
  BY ChunkAssumption DEF Given, AtMost
<1>3. out = [x \in 0 .. n |-> Go(out, x)]
  <2>1. ASSUME NEW x \in 0 .. n PROVE n = Go(out, x)
    BY <1>2
  <2> QED BY <2>1
<1>4. loop = [x \in 0 .. n |-> Go(loop, x)]
  BY <1>3
<1> HIDE DEF loop
<1> DEFINE End == {d \in Nat : \A x \in 0 .. n : n - x <= d => loop[x] = n}
<1>5. ASSUME NEW x \in 0 .. n, \A y \in x + 1 .. n : loop[y] = n PROVE loop[x] = n
  <2>1. loop[x] = Go(loop, x)
    BY <1>4
  <2> QED BY <1>2, <1>5, <2>1
<1>6. 0 \in End
  BY <1>5
<1>7. ASSUME NEW d \in Nat, d \in End PROVE d + 1 \in End
  <2> SUFFICES ASSUME NEW x \in 0 .. n, n - x <= d + 1 PROVE loop[x] = n
    OBVIOUS
  <2>1. ASSUME NEW y \in x + 1 .. n PROVE loop[y] = n
    <3>1. y \in 0 .. n /\ n - y <= d
      OBVIOUS
    <3> QED BY <1>7, <3>1
  <2> QED BY <1>5, <2>1
<1>8. Nat \subseteq End
  <2> HIDE DEF End
  <2> QED BY <1>6, <1>7, Induction
<1>9. n \in End
  BY <1>8
<1> QED BY <1>1, <1>9

(* What mem_inf gives back: all of sound data, as much as there is of      *)
(* short data; of broken data no more than comes before the error, and     *)
(* the length is the one that was there.                                   *)
InfOK(p, u, r) ==
    /\ r = [copied |-> r.copied, dest_len |-> r.dest_len] /\ r.copied \in 0 .. p.at
    /\ IF p.flaw = "broken" THEN r.dest_len = u ELSE r.copied = p.at /\ r.dest_len = p.at

(* f is the loop of mem_inf for what begins at lo or later.                *)
InfStep(p, u, f, x) ==
    LET have == Given(p.at, x) IN
    IF DataError(p, x) THEN [copied |-> x, dest_len |-> u]
    ELSE IF have = CHUNK THEN f[x + have]
    ELSE [copied |-> x + have, dest_len |-> x + have]
InfFrom(p, u, f, lo) ==
    f = [x \in lo .. p.at |-> InfStep(p, u, f, x)]

LEMMA InfNext ==
    ASSUME NEW p, p.at \in Nat, NEW u, NEW f, NEW x \in 0 .. p.at,
           \A y \in x + 1 .. p.at : InfOK(p, u, f[y])
    PROVE InfOK(p, u, InfStep(p, u, f, x))
<1> DEFINE have == Given(p.at, x)
<1>1. \/ have = CHUNK /\ x + have \in x + 1 .. p.at
      \/ have # CHUNK /\ x + have = p.at
  BY ChunkAssumption DEF Given, AtMost
<1>2. CASE DataError(p, x)
  BY <1>2 DEF InfStep, InfOK, DataError
<1>3. CASE ~DataError(p, x) /\ have = CHUNK
  BY <1>1, <1>3 DEF InfStep
<1>4. CASE ~DataError(p, x) /\ have # CHUNK
  <2>1. p.flaw # "broken"
    BY <1>1, <1>4, ChunkAssumption DEF DataError, Given, AtMost
  <2>2. InfStep(p, u, f, x) = [copied |-> p.at, dest_len |-> p.at]
    BY <1>1, <1>4 DEF InfStep
  <2> QED BY <2>1, <2>2 DEF InfOK
<1> QED BY <1>2, <1>3, <1>4

(* The loop ends wherever it begins.                                       *)
LEMMA InfEnds ==
    ASSUME NEW p, p.at \in Nat, NEW u
    PROVE \E f : InfFrom(p, u, f, 0)
<1> DEFINE n == p.at
           Have == {d \in Nat : d <= n => \E f : InfFrom(p, u, f, n - d)}
<1>0. ASSUME NEW x \in 0 .. n, NEW f, NEW g, \A y \in x + 1 .. n : f[y] = g[y]
      PROVE InfStep(p, u, f, x) = InfStep(p, u, g, x)
  <2>1. Given(n, x) = CHUNK => x + Given(n, x) \in x + 1 .. n
    BY ChunkAssumption DEF Given, AtMost
  <2> QED BY <1>0, <2>1 DEF InfStep
<1>1. 0 \in Have
  <2> DEFINE f == [x \in n .. n |-> InfStep(p, u, {}, x)]
  <2>1. ASSUME NEW x \in n .. n PROVE f[x] = InfStep(p, u, f, x)
    <3>1. InfStep(p, u, f, x) = InfStep(p, u, {}, x)
      BY <1>0
    <3> QED BY <3>1
  <2>2. f = [x \in n .. n |-> InfStep(p, u, f, x)]
    BY <2>1
  <2>3. InfFrom(p, u, f, n)
    BY <2>2 DEF InfFrom
  <2>4. n - 0 = n
    OBVIOUS
  <2> QED BY <2>3, <2>4
<1>2. ASSUME NEW d \in Nat, d \in Have PROVE d + 1 \in Have
  <2> SUFFICES ASSUME d + 1 <= n PROVE \E f : InfFrom(p, u, f, n - (d + 1))
    OBVIOUS
  <2>1. PICK f : InfFrom(p, u, f, n - d)
    BY <1>2
  <2> DEFINE lo == n - (d + 1)
             g == [x \in lo .. n |-> IF x = lo THEN InfStep(p, u, f, lo) ELSE f[x]]
  <2>2. lo \in 0 .. n /\ lo + 1 = n - d
    OBVIOUS
  <2>3. ASSUME NEW x \in lo + 1 .. n PROVE g[x] = f[x] /\ f[x] = InfStep(p, u, f, x) /\ x \in 0 .. n
    <3>1. x \in n - d .. n /\ x # lo /\ x \in lo .. n /\ x \in 0 .. n
      BY <2>2
    <3>2. f[x] = InfStep(p, u, f, x)
      BY <2>1, <3>1 DEF InfFrom
    <3>3. g[x] = f[x]
      BY <3>1
    <3> QED BY <3>1, <3>2, <3>3
  <2>4. ASSUME NEW x \in lo .. n PROVE g[x] = InfStep(p, u, g, x)
    <3>1. x \in 0 .. n /\ \A y \in x + 1 .. n : y \in lo + 1 .. n
      BY <2>2
    <3>2. \A y \in x + 1 .. n : f[y] = g[y]
      BY <2>3, <3>1
    <3>3. InfStep(p, u, f, x) = InfStep(p, u, g, x)
      <4> HIDE DEF g
      <4> QED BY <1>0, <3>1, <3>2
    <3>4. g[x] = InfStep(p, u, f, x)
      <4>1. CASE x = lo
        BY <4>1
      <4>2. CASE x # lo
        <5>1. x \in lo + 1 .. n
          BY <2>2, <4>2
        <5> QED BY <2>3, <5>1
      <4> QED BY <4>1, <4>2
    <3> QED BY <3>3, <3>4
  <2>5. g = [x \in lo .. n |-> InfStep(p, u, g, x)]
    BY <2>4
  <2>6. InfFrom(p, u, g, lo)
    <3> HIDE DEF g
    <3> QED BY <2>5 DEF InfFrom
  <2> QED BY <2>6
<1>3. Nat \subseteq Have
  <2> HIDE DEF Have
  <2> QED BY <1>1, <1>2, Induction
<1>4. n \in Have /\ n - n = 0
  BY <1>3
<1> QED BY <1>4

LEMMA mem_infIs ==
    ASSUME NEW p, p.at \in Nat, NEW u
    PROVE InfOK(p, u, mem_inf(p, u))
<1> DEFINE n == p.at
           loop == CHOOSE f : f = [x \in 0 .. n |-> InfStep(p, u, f, x)]
<1>1. mem_inf(p, u) = loop[0]
  BY DEF mem_inf, InfStep
<1>2. loop = [x \in 0 .. n |-> InfStep(p, u, loop, x)]
  BY InfEnds DEF InfFrom
<1> HIDE DEF loop
<1> DEFINE End == {d \in Nat : \A x \in 0 .. n : n - x <= d => InfOK(p, u, loop[x])}
<1>5. ASSUME NEW x \in 0 .. n, \A y \in x + 1 .. n : InfOK(p, u, loop[y]) PROVE InfOK(p, u, loop[x])
  <2>1. loop[x] = InfStep(p, u, loop, x)
    BY <1>2
  <2> QED BY <1>5, <2>1, InfNext
<1>6. 0 \in End
  BY <1>5
<1>7. ASSUME NEW d \in Nat, d \in End PROVE d + 1 \in End
  <2> SUFFICES ASSUME NEW x \in 0 .. n, n - x <= d + 1 PROVE InfOK(p, u, loop[x])
    OBVIOUS
  <2>1. ASSUME NEW y \in x + 1 .. n PROVE InfOK(p, u, loop[y])
    <3>1. y \in 0 .. n /\ n - y <= d
      OBVIOUS
    <3> QED BY <1>7, <3>1
  <2> QED BY <1>5, <2>1
<1>8. Nat \subseteq End
  <2> HIDE DEF End
  <2> QED BY <1>6, <1>7, Induction
<1>9. n \in End
  BY <1>8
<1> QED BY <1>1, <1>9
-----------------------------------------------------------------------------
(* Bytes.                                                                  *)

IsBytes(s) == \E S : s \in Seq(S)

(* b lies in s behind the first off bytes.                                 *)
HasAt(s, off, b) == /\ off + Len(b) <= Len(s)
                    /\ \A j \in 1 .. Len(b) : s[off + j] = b[j]

(* s is n bytes long: the form in which lengths are handed on.             *)
Long(s, n) == IsBytes(s) /\ Len(s) = n

LEMMA FunctionIs ==
    ASSUME NEW n \in Nat, NEW f, DOMAIN f = 1 .. n, f = [j \in 1 .. n |-> f[j]]
    PROVE IsBytes(f) /\ Len(f) = n
<1> DEFINE S == {f[j] : j \in 1 .. n}
<1>1. f \in [1 .. n -> S]
  OBVIOUS
<1>2. f \in Seq(S) /\ Len(f) = n
  <2> HIDE DEF S
  <2> QED BY <1>1, SeqDef, LenProperties
<1> QED BY <1>2 DEF IsBytes

LEMMA BytesAre ==
    ASSUME NEW s, IsBytes(s)
    PROVE Len(s) \in Nat /\ DOMAIN s = 1 .. Len(s) /\ s = [j \in 1 .. Len(s) |-> s[j]]
<1>1. PICK S : s \in Seq(S)
  BY DEF IsBytes
<1>2. Len(s) \in Nat /\ s \in [1 .. Len(s) -> S]
  BY <1>1, LenProperties
<1> QED BY <1>2

LEMMA Joined ==
    ASSUME NEW s, NEW t, IsBytes(s), IsBytes(t)
    PROVE /\ IsBytes(s \o t) /\ Len(s \o t) = Len(s) + Len(t)
          /\ Len(s) \in Nat /\ Len(t) \in Nat
          /\ \A j \in 1 .. Len(s) : (s \o t)[j] = s[j]
          /\ \A j \in 1 .. Len(t) : (s \o t)[Len(s) + j] = t[j]
<1>1. PICK S : s \in Seq(S)
  BY DEF IsBytes
<1>2. PICK T : t \in Seq(T)
  BY DEF IsBytes
<1>3. s \in Seq(S \cup T) /\ t \in Seq(S \cup T)
  BY <1>1, <1>2, SeqMonotonic
<1>4. Len(s) \in Nat /\ Len(t) \in Nat
  BY <1>3, LenProperties
<1>5. /\ s \o t \in Seq(S \cup T) /\ Len(s \o t) = Len(s) + Len(t)
      /\ \A j \in 1 .. Len(s) + Len(t) : (s \o t)[j] = IF j <= Len(s) THEN s[j] ELSE t[j - Len(s)]
  BY <1>3, ConcatProperties
<1>6. ASSUME NEW j \in 1 .. Len(s) PROVE (s \o t)[j] = s[j]
  <2>1. j \in 1 .. Len(s) + Len(t) /\ j <= Len(s)
    BY <1>4
  <2> QED BY <1>5, <2>1
<1>7. ASSUME NEW j \in 1 .. Len(t) PROVE (s \o t)[Len(s) + j] = t[j]
  <2>1. Len(s) + j \in 1 .. Len(s) + Len(t) /\ ~(Len(s) + j <= Len(s)) /\ (Len(s) + j) - Len(s) = j
    BY <1>4
  <2> QED BY <1>5, <2>1
<1> QED BY <1>4, <1>5, <1>6, <1>7 DEF IsBytes

LEMMA FieldIs ==
    ASSUME NEW name, NEW n \in Nat, NEW v
    PROVE /\ IsBytes(Field(name, n, v)) /\ Len(Field(name, n, v)) = n
          /\ \A j \in 1 .. n : Field(name, n, v)[j] = <<name, j, v>>
<1> DEFINE f == Field(name, n, v)
<1>1. DOMAIN f = 1 .. n /\ f = [j \in 1 .. n |-> f[j]]
  BY DEF Field
<1>2. \A j \in 1 .. n : f[j] = <<name, j, v>>
  BY DEF Field
<1> HIDE DEF f
<1>3. IsBytes(f) /\ Len(f) = n
  BY <1>1, FunctionIs
<1> QED BY <1>2, <1>3 DEF f

(* What lies there is what is read there.                                  *)
LEMMA ReadLong ==
    ASSUME NEW s, NEW off \in Nat, NEW b, NEW k, Long(b, k), HasAt(s, off, b)
    PROVE SubSeq(s, off + 1, off + k) = b
<1>1. PICK S : b \in Seq(S)
  BY DEF IsBytes, Long
<1>k. k = Len(b)
  BY DEF Long
<1>2. k \in Nat /\ \A j \in 1 .. k : b[j] \in S
  BY <1>1, <1>k, LenProperties, ElementOfSeq
<1>3. \A j \in 1 .. k : s[off + j] = b[j]
  BY <1>k DEF HasAt
<1>4. ASSUME NEW x \in off + 1 .. off + k PROVE s[x] \in S
  <2>1. x - off \in 1 .. k /\ off + (x - off) = x
    BY <1>2
  <2>2. s[off + (x - off)] = b[x - off]
    BY <1>3, <2>1
  <2> QED BY <1>2, <2>1, <2>2
<1> DEFINE r == SubSeq(s, off + 1, off + k)
<1>5. off + 1 \in Int /\ off + k \in Int
  BY <1>2
<1>6. /\ r \in Seq(S)
      /\ Len(r) = IF off + 1 <= off + k THEN (off + k) - (off + 1) + 1 ELSE 0
      /\ \A j \in 1 .. (off + k) - (off + 1) + 1 : r[j] = s[(off + 1) + j - 1]
  BY <1>4, <1>5, SubSeqProperties
<1>7. (off + k) - (off + 1) + 1 = k
  BY <1>2
<1>8. Len(r) = k
  BY <1>2, <1>6, <1>7
<1>9. ASSUME NEW j \in 1 .. k PROVE r[j] = b[j]
  <2>1. (off + 1) + j - 1 = off + j
    OBVIOUS
  <2>2. r[j] = s[(off + 1) + j - 1]
    BY <1>6, <1>7
  <2> QED BY <1>3, <2>1, <2>2
<1> HIDE DEF r
<1>10. r = b
  BY <1>1, <1>6, <1>8, <1>9, <1>k, SeqEqual
<1> QED BY <1>10 DEF r

(* One after the other.                                                    *)
LEMMA HasBoth ==
    ASSUME NEW s, NEW off \in Nat, NEW a, NEW b, IsBytes(s), IsBytes(a), IsBytes(b)
    PROVE HasAt(s, off, a \o b) <=> HasAt(s, off, a) /\ HasAt(s, off + Len(a), b)
<1>1. /\ Len(a \o b) = Len(a) + Len(b) /\ Len(a) \in Nat /\ Len(b) \in Nat
      /\ \A j \in 1 .. Len(a) : (a \o b)[j] = a[j]
      /\ \A j \in 1 .. Len(b) : (a \o b)[Len(a) + j] = b[j]
  BY Joined
<1>2. Len(s) \in Nat
  BY BytesAre
<1> DEFINE ab == a \o b
           n == Len(a)
           k == Len(b)
<1> HIDE DEF ab
<1>3. /\ Len(ab) = n + k
      /\ \A j \in 1 .. n : ab[j] = a[j]
      /\ \A j \in 1 .. k : ab[n + j] = b[j]
  BY <1>1 DEF ab
<1>4. ASSUME HasAt(s, off, ab) PROVE HasAt(s, off, a) /\ HasAt(s, off + n, b)
  <2>1. off + (n + k) <= Len(s) /\ \A j \in 1 .. n + k : s[off + j] = ab[j]
    BY <1>3, <1>4 DEF HasAt
  <2>2. ASSUME NEW j \in 1 .. n PROVE s[off + j] = a[j]
    <3>1. j \in 1 .. n + k
      BY <1>1
    <3> QED BY <1>3, <2>1, <3>1
  <2>3. ASSUME NEW j \in 1 .. k PROVE s[(off + n) + j] = b[j]
    <3>1. n + j \in 1 .. n + k /\ off + (n + j) = (off + n) + j
      BY <1>1
    <3> QED BY <1>3, <2>1, <3>1
  <2>4. off + n <= Len(s) /\ (off + n) + k <= Len(s)
    BY <1>1, <1>2, <2>1
  <2> QED BY <2>2, <2>3, <2>4 DEF HasAt
<1>5. ASSUME HasAt(s, off, a), HasAt(s, off + n, b) PROVE HasAt(s, off, ab)
  <2>1. /\ \A j \in 1 .. n : s[off + j] = a[j]
        /\ (off + n) + k <= Len(s) /\ \A j \in 1 .. k : s[(off + n) + j] = b[j]
    BY <1>5 DEF HasAt
  <2>2. ASSUME NEW j \in 1 .. n + k PROVE s[off + j] = ab[j]
    <3>1. CASE j <= n
      <4>1. j \in 1 .. n
        BY <1>1, <3>1
      <4> QED BY <1>3, <2>1, <4>1
    <3>2. CASE ~(j <= n)
      <4>1. j - n \in 1 .. k /\ (off + n) + (j - n) = off + j /\ n + (j - n) = j
        BY <1>1, <3>2
      <4>2. s[(off + n) + (j - n)] = b[j - n] /\ ab[n + (j - n)] = b[j - n]
        BY <1>3, <2>1, <4>1
      <4> QED BY <4>1, <4>2
    <3> QED BY <3>1, <3>2
  <2>3. off + (n + k) <= Len(s)
    BY <1>1, <1>2, <2>1
  <2> QED BY <1>3, <2>2, <2>3 DEF HasAt
<1> QED BY <1>4, <1>5 DEF ab

(* What is appended is at the end, and the rest stays where it is.         *)
LEMMA Appended ==
    ASSUME NEW s, NEW t, IsBytes(s), IsBytes(t)
    PROVE /\ HasAt(s \o t, Len(s), t)
          /\ \A off \in Nat : \A b : IsBytes(b) /\ HasAt(s, off, b) => HasAt(s \o t, off, b)
<1>1. /\ Len(s \o t) = Len(s) + Len(t)
      /\ Len(s) \in Nat /\ Len(t) \in Nat
      /\ \A j \in 1 .. Len(s) : (s \o t)[j] = s[j]
      /\ \A j \in 1 .. Len(t) : (s \o t)[Len(s) + j] = t[j]
  BY Joined
<1>2. HasAt(s \o t, Len(s), t)
  BY <1>1 DEF HasAt
<1> DEFINE st == s \o t
<1> HIDE DEF st
<1>3. ASSUME NEW off \in Nat, NEW b, IsBytes(b), HasAt(s, off, b) PROVE HasAt(st, off, b)
  <2>1. Len(b) \in Nat
    BY <1>3, BytesAre
  <2>2. off + Len(b) <= Len(s) /\ \A j \in 1 .. Len(b) : s[off + j] = b[j]
    BY <1>3 DEF HasAt
  <2>3. off + Len(b) <= Len(st)
    BY <1>1, <2>1, <2>2 DEF st
  <2>4. ASSUME NEW j \in 1 .. Len(b) PROVE st[off + j] = b[j]
    <3>1. off + j \in 1 .. Len(s)
      BY <1>1, <2>1, <2>2
    <3>2. st[off + j] = s[off + j]
      BY <1>1, <3>1 DEF st
    <3> QED BY <2>2, <3>2
  <2> QED BY <2>3, <2>4 DEF HasAt
<1> QED BY <1>2, <1>3 DEF st

LEMMA FieldLong == ASSUME NEW name, NEW n \in Nat, NEW v PROVE Long(Field(name, n, v), n)
BY FieldIs DEF Long

LEMMA JoinedLong ==
    ASSUME NEW s, NEW t, NEW n, NEW k, Long(s, n), Long(t, k)
    PROVE Long(s \o t, n + k)
BY Joined DEF Long

LEMMA BothLong ==
    ASSUME NEW s, NEW off \in Nat, NEW a, NEW b, NEW n, NEW k, IsBytes(s), Long(a, n), Long(b, k)
    PROVE HasAt(s, off, a \o b) <=> HasAt(s, off, a) /\ HasAt(s, off + n, b)
BY HasBoth DEF Long

LEMMA AppendedLong ==
    ASSUME NEW s, NEW t, NEW n, NEW k, Long(s, n), Long(t, k)
    PROVE /\ HasAt(s \o t, n, t)
          /\ \A off \in Nat : \A b, j : Long(b, j) /\ HasAt(s, off, b) => HasAt(s \o t, off, b)
BY Appended DEF Long

(* The fields of a chunk, read back where they lie.                        *)
LEMMA LengthIs ==
    ASSUME NEW from \in Nat, NEW v, HasAt(all, from, Field("length", 4, v))
    PROVE Length(from) = v
<1>1. Long(Field("length", 4, v), 4)
  BY FieldLong
<1>2. fread(4, from) = Field("length", 4, v)
  BY <1>1, ReadLong DEF fread
<1>3. fread(1, from)[1] = all[from + 1]
  <2>1. (from + 1) + 1 - 1 = from + 1
    OBVIOUS
  <2> QED BY <2>1 DEF fread
<1>4. Field("length", 4, v)[1] = <<"length", 1, v>>
  BY DEF Field
<1>5. all[from + 1] = Field("length", 4, v)[1]
  <2>1. ASSUME NEW b, NEW k \in Nat, Long(b, k), HasAt(all, from, b), k >= 1 PROVE all[from + 1] = b[1]
    BY <2>1 DEF HasAt, Long
  <2> QED BY <1>1, <2>1
<1>6. fread(1, from)[1][3] = v
  BY <1>3, <1>4, <1>5
<1>7. Field("length", 4, v) # <<>>
  <2>1. ASSUME NEW b, NEW k \in Nat, Long(b, k), k >= 1 PROVE b # <<>>
    BY <2>1 DEF Long
  <2> QED BY <1>1, <2>1
<1> QED BY <1>2, <1>6, <1>7 DEF Length

LEMMA crcLong == ASSUME NEW b PROVE Long(crc(b), 4)
BY FieldLong DEF crc

LEMMA CrcIs ==
    ASSUME NEW from \in Nat, NEW v \in Nat, HasAt(all, from, Field("length", 4, v)),
           NEW b, Long(b, 4 + v), HasAt(all, from + 4, b),
           HasAt(all, from + 8 + v, crc(b))
    PROVE Length(from) = v /\ CrcMatches(from)
<1>1. Length(from) = v
  BY LengthIs
<1>2. fread(4 + v, from + 4) = b
  <2>1. from + 4 \in Nat
    OBVIOUS
  <2> QED BY <2>1, ReadLong DEF fread
<1>3. fread(4, from + 8 + v) = crc(b)
  <2>1. from + 8 + v \in Nat
    OBVIOUS
  <2> QED BY <2>1, crcLong, ReadLong DEF fread
<1> QED BY <1>1, <1>2, <1>3 DEF CrcMatches

-----------------------------------------------------------------------------
(* The places of an image in all.png: what its header holds, its data      *)
(* chunk and its end.                                                      *)

HeaderBody(w, h) == Field("type", 4, "IHDR") \o Field("width", 4, w) \o Field("height", 4, h)
                        \o Field("rest", 5, 0)
DataBody(n, m) == Field("type", 4, "IDAT") \o Field("deflated", n, m)
EndBody == Field("type", 4, "IEND")

Header(s, w, h) == /\ HasAt(s, 0, Field("signature", 8, 0))
                   /\ HasAt(s, 8, Field("length", 4, 13))
                   /\ HasAt(s, 12, HeaderBody(w, h))
HeaderCrc(s, w, h) == HasAt(s, 29, crc(HeaderBody(w, h)))
Data(s, st, n, m) == /\ HasAt(s, st + 33, Field("length", 4, n))
                     /\ HasAt(s, st + 37, DataBody(n, m))
DataCrc(s, st, n, m) == HasAt(s, st + 41 + n, crc(DataBody(n, m)))
End(s, at) == /\ HasAt(s, at, Field("length", 4, 0))
              /\ HasAt(s, at + 4, EndBody)
              /\ HasAt(s, at + 8, crc(EndBody))

LEMMA BodyLong ==
    ASSUME NEW n \in Nat, NEW m, NEW w, NEW h
    PROVE /\ Long(DataBody(n, m), 4 + n)
          /\ Long(HeaderBody(w, h), 17)
          /\ Long(EndBody, 4)
<1>1. Long(DataBody(n, m), 4 + n)
  BY FieldLong, JoinedLong DEF DataBody
<1>2. Long(EndBody, 4)
  BY FieldLong DEF EndBody
<1>3. Long(HeaderBody(w, h), 17)
  <2> DEFINE a == Field("type", 4, "IHDR")
             b == Field("width", 4, w)
             c == Field("height", 4, h)
             d == Field("rest", 5, 0)
  <2>1. Long(a, 4) /\ Long(b, 4) /\ Long(c, 4) /\ Long(d, 5)
    BY FieldLong
  <2>2. HeaderBody(w, h) = ((a \o b) \o c) \o d
    BY DEF HeaderBody
  <2> HIDE DEF a, b, c, d
  <2>3. Long(a \o b, 4 + 4)
    BY <2>1, JoinedLong
  <2>4. Long((a \o b) \o c, (4 + 4) + 4)
    BY <2>1, <2>3, JoinedLong
  <2>5. Long(((a \o b) \o c) \o d, ((4 + 4) + 4) + 5)
    BY <2>1, <2>4, JoinedLong
  <2> QED BY <2>2, <2>5
<1> QED BY <1>1, <1>2, <1>3

(* Each of these places keeps what it has when all.png grows.              *)
LEMMA PlacesKept ==
    ASSUME NEW s, NEW t, IsBytes(s), IsBytes(t)
    PROVE /\ \A w, h : Header(s, w, h) => Header(s \o t, w, h)
          /\ \A w, h : HeaderCrc(s, w, h) => HeaderCrc(s \o t, w, h)
          /\ \A st \in Nat, n \in Nat : \A m :
                /\ Data(s, st, n, m) => Data(s \o t, st, n, m)
                /\ DataCrc(s, st, n, m) => DataCrc(s \o t, st, n, m)
          /\ \A at \in Nat : End(s, at) => End(s \o t, at)
<1> DEFINE u == s \o t
<1>1. ASSUME NEW off \in Nat, NEW b, NEW j, Long(b, j), HasAt(s, off, b) PROVE HasAt(u, off, b)
  BY <1>1, Appended DEF Long
<1> HIDE DEF u
<1>2. ASSUME NEW w, NEW h, Header(s, w, h) PROVE Header(u, w, h)
  <2>1. /\ Long(Field("signature", 8, 0), 8) /\ Long(Field("length", 4, 13), 4)
        /\ Long(HeaderBody(w, h), 17)
    BY FieldLong, BodyLong
  <2> QED BY <1>1, <1>2, <2>1 DEF Header
<1>3. ASSUME NEW w, NEW h, HeaderCrc(s, w, h) PROVE HeaderCrc(u, w, h)
  BY <1>1, <1>3, crcLong DEF HeaderCrc
<1>4. ASSUME NEW st \in Nat, NEW n \in Nat, NEW m
      PROVE /\ Data(s, st, n, m) => Data(u, st, n, m)
            /\ DataCrc(s, st, n, m) => DataCrc(u, st, n, m)
  <2>1. Long(Field("length", 4, n), 4) /\ Long(DataBody(n, m), 4 + n) /\ Long(crc(DataBody(n, m)), 4)
    BY FieldLong, BodyLong, crcLong
  <2>2. st + 33 \in Nat /\ st + 37 \in Nat /\ st + 41 + n \in Nat
    OBVIOUS
  <2> QED BY <1>1, <2>1, <2>2 DEF Data, DataCrc
<1>5. ASSUME NEW at \in Nat, End(s, at) PROVE End(u, at)
  <2>1. Long(Field("length", 4, 0), 4) /\ Long(EndBody, 4) /\ Long(crc(EndBody), 4)
    BY FieldLong, BodyLong, crcLong
  <2>2. at + 4 \in Nat /\ at + 8 \in Nat
    OBVIOUS
  <2> QED BY <1>1, <1>5, <2>1, <2>2 DEF End
<1> QED BY <1>2, <1>3, <1>4, <1>5 DEF u

-----------------------------------------------------------------------------
(* The invariant *)

Work == {"measure", "inflate", "IHDR", "IHDR crc", "IDAT", "IDAT crc", "IEND"}
Info == {"info IHDR", "info IDAT", "info IEND"}
Images == [files : Seq(Pictures), start : Nat, deflated : Nat]

Types ==
    /\ pc \in {"idle", "astray"} \cup Work \cup Info
    /\ files \in Seq(Pictures) /\ Len(files) <= MaxArgs /\ i \in 1 .. MaxArgs
    /\ pc \in Work => Len(files) >= 1
    /\ pc \in {"measure", "inflate"} => i <= Len(files)
    /\ height \in Nat /\ uncompressed_length \in Nat /\ prev_data_size \in Nat
    /\ IDAT_length \in Deflated \cup {0}
    /\ made \in Seq(Images) /\ Len(made) <= MaxRuns
    /\ pc \in {"measure", "inflate", "IHDR"} => Len(made) < MaxRuns
    /\ IsBytes(all) /\ pos \in 0 .. Len(all)

(* How far the loops have come.  A file is in its place if none before it  *)
(* was short, and what is put into the buffer later goes behind it.        *)
SizesTo(fs, k) == Sum([j \in 1 .. k |-> Size(fs[j])])
HeightsTo(fs, k) == Sum([j \in 1 .. k |-> fs[j].height])
NoneShort(fs, k) == \A j \in 1 .. k : ~CutsShort(fs[j])
InPlace(fs, bytes, end, k) ==
    /\ SizesTo(fs, k - 1) + Result(fs[k]).copied <= end
    /\ \A b \in 1 .. Result(fs[k]).copied :
          bytes[SizesTo(fs, k - 1) + b] = [of |-> {fs[k]}, at |-> b]
Placed(fs, bytes, end, n) ==
    /\ \A k \in 1 .. n : NoneShort(fs, k - 1) => InPlace(fs, bytes, end, k)
    /\ NoneShort(fs, n) => end = SizesTo(fs, n)
Loops ==
    /\ pc = "measure" => /\ uncompressed_length = SizesTo(files, i - 1) /\ buffer = <<>>
                         /\ prev_data_size = 0 /\ height = 0
    /\ pc = "inflate" => /\ uncompressed_length = SizesTo(files, Len(files))
                         /\ Long(buffer, uncompressed_length)
                         /\ height = HeightsTo(files, i - 1)
                         /\ prev_data_size <= SizesTo(files, i - 1)
                         /\ Placed(files, buffer, prev_data_size, i - 1)
    /\ pc = "IHDR" => /\ height = Heights(files)
                      /\ Placed(files, buffer, prev_data_size, Len(files))
    /\ prev_data_size <= uncompressed_length
    /\ buffer = <<>> \/ Long(buffer, uncompressed_length)

(* The images in all.png, and how far the last one has come.               *)
Writing == {"IHDR crc", "IDAT", "IDAT crc"}
Last == made[Len(made)]
Complete(s, r, m) == /\ r.deflated # 0
                     /\ Data(s, r.start, r.deflated, m) /\ DataCrc(s, r.start, r.deflated, m)
Chunks ==
    /\ \A m \in 1 .. Len(made) : m < Len(made) \/ pc \notin Writing => Complete(all, made[m], m)
    /\ pc \in Writing \cup {"IEND"} => Len(made) >= 1
    /\ pc = "IHDR crc" => Long(all, Last.start + 29)
    /\ pc = "IDAT" => Long(all, Last.start + 33)
    /\ pc = "IDAT crc" => /\ Long(all, Last.start + 41 + Last.deflated) /\ pos = Len(all)
                          /\ Last.deflated # 0 /\ IDAT_length = Last.deflated
                          /\ Data(all, Last.start, Last.deflated, Len(made))
    /\ pc = "IEND" => Long(all, Last.start + 45 + Last.deflated)
    /\ made = <<>> => all = <<>>
    /\ made # <<>> /\ pc \notin Writing \cup {"IEND"} =>
          Len(all) >= 12 /\ End(all, Len(all) - 12)

(* The first image, which pnginfo looks at.                                *)
First ==
    made # <<>> =>
        LET w == made[1].files[1].width h == Heights(made[1].files) IN
        /\ made[1].start = 0
        /\ Header(all, w, h)
        /\ Len(made) > 1 \/ pc # "IHDR crc" => HeaderCrc(all, w, h)
        /\ Len(made) > 1 \/ pc \notin Writing \cup {"IEND"} => End(all, 45 + made[1].deflated)

(* Where pnginfo is, and what it has said.                                 *)
Walk ==
    /\ pc \in Info => made # <<>>
    /\ pc = "info IHDR" => pos = 8
    /\ pc = "info IDAT" => pos \in {33, 45 + made[1].deflated}
    /\ pc = "info IEND" => pos = Len(all) - 12
    /\ answer.says \in {"nothing", "dimensions"}
    /\ answer.says = "dimensions" =>
          made # <<>> /\ answer.of = <<made[1].files[1].width, Heights(made[1].files)>>

IInv == Types /\ Loops /\ Chunks /\ First /\ Walk

-----------------------------------------------------------------------------
(* What a picture is in the buffer.                                        *)

LEMMA PictureFacts ==
    ASSUME NEW p \in Pictures
    PROVE /\ Size(p) \in Nat /\ p.height \in Nat
          /\ Result(p).copied \in Nat /\ Result(p).dest_len \in Nat
          /\ Fits(p) => /\ Result(p).copied <= Result(p).dest_len /\ Result(p).dest_len <= Size(p)
                        /\ CutsShort(p) \/ Result(p).dest_len = Size(p)
          /\ DOMAIN Inflated(p) = 1 .. Result(p).dest_len /\ Len(Inflated(p)) = Result(p).dest_len
          /\ Fits(p) => \A b \in 1 .. Result(p).copied : Inflated(p)[b] = [of |-> {p}, at |-> b]
<1>1. /\ p.width \in Nat /\ p.height \in Nat
      /\ p.flaw \in {"sound", "broken", "short"} /\ p.at \in Nat
  BY PictureAssumption
<1>2. Size(p) \in Nat
  <2>1. 4 * p.width + 1 \in Nat
    BY <1>1
  <2>2. ASSUME NEW a \in Nat, NEW b \in Nat PROVE a * b \in Nat
    BY <2>2
  <2> QED BY <1>1, <2>1, <2>2 DEF Size
<1>3. InfOK(p, Size(p), Result(p))
  BY <1>1, <1>2, mem_infIs DEF Result
<1> DEFINE r == Result(p)
<1>4. /\ r.copied \in 0 .. p.at
      /\ IF p.flaw = "broken" THEN r.dest_len = Size(p) ELSE r.copied = p.at /\ r.dest_len = p.at
  BY <1>3 DEF InfOK
<1> HIDE DEF r
<1>5. /\ r.copied \in Nat /\ r.dest_len \in Nat
      /\ r.copied <= Size(p) => /\ r.copied <= r.dest_len /\ r.dest_len <= Size(p)
                                /\ CutsShort(p) \/ r.dest_len = Size(p)
  BY <1>1, <1>2, <1>4 DEF CutsShort
<1> DEFINE f == Inflated(p)
<1>6. f = [j \in 1 .. r.dest_len |-> IF j <= r.copied THEN [of |-> {p}, at |-> j] ELSE Unknown]
  BY DEF Inflated, r
<1> HIDE DEF f
<1>7. DOMAIN f = 1 .. r.dest_len /\ f = [j \in 1 .. r.dest_len |-> f[j]]
  BY <1>6
<1>8. Len(f) = r.dest_len
  BY <1>5, <1>7, FunctionIs
<1>9. ASSUME r.copied <= Size(p), NEW b \in 1 .. r.copied PROVE f[b] = [of |-> {p}, at |-> b]
  <2>1. b \in 1 .. r.dest_len /\ b <= r.copied
    BY <1>5, <1>9
  <2> QED BY <1>6, <2>1
<1> QED BY <1>1, <1>2, <1>5, <1>7, <1>8, <1>9 DEF f, r, Fits

(* How the sums go on from file to file.                                   *)
LEMMA FileSums ==
    ASSUME NEW fs \in Seq(Pictures)
    PROVE /\ SizesTo(fs, 0) = 0 /\ HeightsTo(fs, 0) = 0
          /\ HeightsTo(fs, Len(fs)) = Heights(fs)
          /\ \A k \in 0 .. Len(fs) : /\ SizesTo(fs, k) \in Nat /\ HeightsTo(fs, k) \in Nat
                                     /\ SizesTo(fs, k) <= SizesTo(fs, Len(fs))
          /\ \A k \in 1 .. Len(fs) : /\ SizesTo(fs, k) = SizesTo(fs, k - 1) + Size(fs[k])
                                     /\ HeightsTo(fs, k) = HeightsTo(fs, k - 1) + fs[k].height
<1> DEFINE n == Len(fs)
           s == [j \in 1 .. n |-> Size(fs[j])]
           t == [j \in 1 .. n |-> fs[j].height]
<1>1. n \in Nat /\ DOMAIN fs = 1 .. n /\ \A j \in 1 .. n : fs[j] \in Pictures
  BY LenProperties, ElementOfSeq
<1>2. \A j \in 1 .. n : s[j] = Size(fs[j]) /\ t[j] = fs[j].height
  OBVIOUS
<1>3. \A j \in 1 .. n : Size(fs[j]) \in Nat /\ fs[j].height \in Nat
  BY <1>1, PictureFacts
<1>4. s \in [1 .. n -> Nat] /\ t \in [1 .. n -> Nat]
  BY <1>3
<1> HIDE DEF s, t
<1>5. PICK f : Sums(n, s, f)
  BY <1>1, <1>4, SumsExist
<1>6. PICK g : Sums(n, t, g)
  BY <1>1, <1>4, SumsExist
<1>7. ASSUME NEW k \in 0 .. n PROVE SizesTo(fs, k) = f[k] /\ HeightsTo(fs, k) = g[k]
  <2> DEFINE sk == [j \in 1 .. k |-> Size(fs[j])]
             tk == [j \in 1 .. k |-> fs[j].height]
  <2>1. Prefix(n, s, f, k, sk) /\ Prefix(n, t, g, k, tk)
    <3>1. \A j \in 1 .. k : s[j] = Size(fs[j]) /\ t[j] = fs[j].height
      BY <1>1, <1>2
    <3> QED BY <1>1, <1>4, <1>5, <1>6, <3>1 DEF Prefix
  <2>2. SizesTo(fs, k) = Sum(sk) /\ HeightsTo(fs, k) = Sum(tk)
    BY DEF SizesTo, HeightsTo
  <2> HIDE DEF sk, tk, n
  <2>3. Sum(sk) = f[k] /\ Sum(tk) = g[k]
    BY <2>1, PrefixSum
  <2> QED BY <2>2, <2>3
<1>8. /\ f \in [0 .. n -> Nat] /\ f[0] = 0 /\ \A k \in 1 .. n : f[k] = f[k - 1] + s[k]
      /\ g \in [0 .. n -> Nat] /\ g[0] = 0 /\ \A k \in 1 .. n : g[k] = g[k - 1] + t[k]
  BY <1>5, <1>6 DEF Sums
<1>9. HeightsTo(fs, n) = Heights(fs)
  BY <1>1 DEF HeightsTo, Heights
<1>10. ASSUME NEW k \in 0 .. n PROVE f[k] <= f[n]
  <2>1. n \in k .. n
    BY <1>1
  <2> QED BY <1>1, <1>4, <1>5, <2>1, SumsRise
<1>11. ASSUME NEW k \in 1 .. n
       PROVE /\ SizesTo(fs, k) = SizesTo(fs, k - 1) + Size(fs[k])
             /\ HeightsTo(fs, k) = HeightsTo(fs, k - 1) + fs[k].height
  <2>1. k \in 0 .. n /\ k - 1 \in 0 .. n
    BY <1>1
  <2> QED BY <1>2, <1>7, <1>8, <2>1
<1>12. 0 \in 0 .. n /\ n \in 0 .. n
  BY <1>1
<1>13. SizesTo(fs, 0) = 0 /\ HeightsTo(fs, 0) = 0
  BY <1>7, <1>8, <1>12
<1>14. ASSUME NEW k \in 0 .. n
       PROVE SizesTo(fs, k) \in Nat /\ HeightsTo(fs, k) \in Nat /\ SizesTo(fs, k) <= SizesTo(fs, n)
  BY <1>7, <1>8, <1>10, <1>12
<1> QED BY <1>9, <1>11, <1>13, <1>14

(* The second loop puts a file behind those that are already in place.     *)
LEMMA PlacedNext ==
    ASSUME NEW fs \in Seq(Pictures), NEW k \in 1 .. Len(fs), NEW end \in Nat, NEW old, NEW new,
           Long(old, SizesTo(fs, Len(fs))), end <= SizesTo(fs, k - 1),
           Placed(fs, old, end, k - 1), Fits(fs[k]),
           new = [j \in DOMAIN old |-> IF j - end \in DOMAIN Inflated(fs[k])
                                       THEN Inflated(fs[k])[j - end] ELSE old[j]]
    PROVE /\ Long(new, SizesTo(fs, Len(fs)))
          /\ Len(Inflated(fs[k])) \in Nat /\ end + Len(Inflated(fs[k])) <= SizesTo(fs, k)
          /\ Placed(fs, new, end + Len(Inflated(fs[k])), k)
<1> DEFINE u == SizesTo(fs, Len(fs))
           p == fs[k]
           r == Result(p)
           data == Inflated(p)
           len == Len(data)
<1>1. Len(fs) \in Nat /\ p \in Pictures
  BY LenProperties, ElementOfSeq
<1>2. /\ Size(p) \in Nat /\ r.copied \in Nat /\ len \in Nat /\ len = r.dest_len
      /\ r.copied <= len /\ len <= Size(p)
      /\ CutsShort(p) \/ len = Size(p)
      /\ DOMAIN data = 1 .. len
      /\ \A b \in 1 .. r.copied : data[b] = [of |-> {p}, at |-> b]
  BY <1>1, PictureFacts
<1>3. k \in 0 .. Len(fs) /\ k - 1 \in 0 .. Len(fs) /\ Len(fs) \in 0 .. Len(fs) /\ k \in Nat
  BY <1>1
<1>4. /\ SizesTo(fs, k) \in Nat /\ SizesTo(fs, k - 1) \in Nat /\ u \in Nat
      /\ SizesTo(fs, k) <= u
      /\ SizesTo(fs, k) = SizesTo(fs, k - 1) + Size(p)
  BY <1>3, FileSums
<1>5. DOMAIN old = 1 .. u
  BY BytesAre DEF Long
<1> HIDE DEF u, p, r, data, len
<1>6. new = [j \in 1 .. u |-> IF j - end \in 1 .. len THEN data[j - end] ELSE old[j]]
  BY <1>2, <1>5 DEF data, p
<1>7. Long(new, u)
  <2>1. DOMAIN new = 1 .. u /\ new = [j \in 1 .. u |-> new[j]]
    BY <1>6
  <2> QED BY <1>4, <2>1, FunctionIs DEF Long
<1>8. end + len <= SizesTo(fs, k)
  BY <1>2, <1>4 DEF u
<1>9. /\ \A j \in 1 .. k - 1 : NoneShort(fs, j - 1) => InPlace(fs, old, end, j)
      /\ NoneShort(fs, k - 1) => end = SizesTo(fs, k - 1)
  BY DEF Placed
<1>10. ASSUME NEW j \in 1 .. k - 1, InPlace(fs, old, end, j) PROVE InPlace(fs, new, end + len, j)
  <2> DEFINE lo == SizesTo(fs, j - 1)
             c == Result(fs[j]).copied
  <2>1. j - 1 \in 0 .. Len(fs) /\ j \in 1 .. Len(fs)
    BY <1>1, <1>3
  <2>2. lo \in Nat /\ fs[j] \in Pictures
    BY <2>1, FileSums, ElementOfSeq
  <2>3. c \in Nat
    BY <2>2, PictureFacts
  <2>4. lo + c <= end /\ \A b \in 1 .. c : old[lo + b] = [of |-> {fs[j]}, at |-> b]
    BY <1>10 DEF InPlace
  <2> HIDE DEF lo, c
  <2>5. ASSUME NEW b \in 1 .. c PROVE new[lo + b] = old[lo + b]
    <3>1. lo + b \in 1 .. u /\ ~((lo + b) - end \in 1 .. len)
      BY <1>2, <1>4, <1>8, <2>2, <2>3, <2>4
    <3> QED BY <1>6, <3>1
  <2>6. lo + c <= end + len
    BY <1>2, <2>2, <2>3, <2>4
  <2> QED BY <2>4, <2>5, <2>6 DEF InPlace, lo, c
<1>11. ASSUME NoneShort(fs, k - 1) PROVE InPlace(fs, new, end + len, k)
  <2>1. end = SizesTo(fs, k - 1)
    BY <1>9, <1>11
  <2>2. ASSUME NEW b \in 1 .. r.copied PROVE new[end + b] = [of |-> {p}, at |-> b]
    <3>1. end + b \in 1 .. u /\ (end + b) - end = b /\ b \in 1 .. len
      BY <1>2, <1>4, <1>8
    <3>2. new[end + b] = data[b]
      BY <1>6, <3>1
    <3> QED BY <1>2, <3>2
  <2>3. SizesTo(fs, k - 1) + r.copied <= end + len
    BY <1>2, <2>1
  <2> QED BY <2>1, <2>2, <2>3 DEF InPlace, r, p
<1>12. NoneShort(fs, k) => NoneShort(fs, k - 1) /\ ~CutsShort(p)
  BY <1>3 DEF NoneShort, p
<1>13. NoneShort(fs, k) => end + len = SizesTo(fs, k)
  BY <1>2, <1>4, <1>9, <1>12
<1>14. ASSUME NEW j \in 1 .. k, NoneShort(fs, j - 1) PROVE InPlace(fs, new, end + len, j)
  <2>1. CASE j = k
    BY <1>11, <1>14, <2>1
  <2>2. CASE j # k
    <3>1. j \in 1 .. k - 1
      BY <1>3, <2>2
    <3> QED BY <1>9, <1>10, <1>14, <3>1
  <2> QED BY <2>1, <2>2
<1>15. Placed(fs, new, end + len, k)
  BY <1>13, <1>14 DEF Placed
<1> QED BY <1>2, <1>7, <1>8, <1>15 DEF u, len, data, p

-----------------------------------------------------------------------------
(* The loops of catpng leave all.png alone.                                *)

LEMMA QuietKeeps ==
    ASSUME Chunks, First, Walk, UNCHANGED <<all, pos, IDAT_length, made, answer>>,
           pc \in {"idle", "measure", "inflate"}, pc' \in {"measure", "inflate", "IHDR", "astray"}
    PROVE (Chunks /\ First /\ Walk)'
<1>1. /\ pc \notin Writing /\ pc # "IEND" /\ pc \notin Info
      /\ pc' \notin Writing /\ pc' # "IEND" /\ pc' \notin Info
      /\ pc' # "IHDR crc" /\ pc' # "IDAT" /\ pc' # "IDAT crc"
      /\ pc' # "info IHDR" /\ pc' # "info IDAT" /\ pc' # "info IEND"
  BY DEF Writing, Info
<1>2. Chunks'
  BY <1>1 DEF Chunks
<1>3. First'
  BY <1>1 DEF First
<1>4. Walk'
  BY <1>1 DEF Walk
<1> QED BY <1>2, <1>3, <1>4

LEMMA catpngKeeps ==
    ASSUME IInv, NEW k \in 1 .. MaxArgs, NEW args \in [1 .. k -> Pictures], catpng(args)
    PROVE IInv'
<1>1. /\ pc = "idle" /\ Len(made) < MaxRuns
      /\ pc' = "measure" /\ files' = args /\ i' = 1
      /\ uncompressed_length' = 0 /\ height' = 0 /\ prev_data_size' = 0 /\ buffer' = <<>>
      /\ UNCHANGED <<all, pos, IDAT_length, made, answer>>
  BY DEF catpng
<1>2. args \in Seq(Pictures) /\ Len(args) = k
  <2>1. k \in Nat
    BY BoundAssumption
  <2> QED BY <2>1, SeqDef, LenProperties
<1>3. Types'
  BY <1>1, <1>2, BoundAssumption DEF IInv, Types, Work, Info
<1>4. SizesTo(args, 0) = 0
  BY <1>2, FileSums
<1>5. Loops'
  BY <1>1, <1>4 DEF Loops
<1>6. (Chunks /\ First /\ Walk)'
  BY <1>1, QuietKeeps DEF IInv
<1> QED BY <1>3, <1>5, <1>6 DEF IInv

LEMMA MeasureKeeps ==
    ASSUME IInv, Measure
    PROVE IInv'
<1> DEFINE u == uncompressed_length + Size(files[i])
<1>1. /\ pc = "measure" /\ uncompressed_length' = u
      /\ UNCHANGED <<files, height, prev_data_size, all, pos, IDAT_length, made, answer>>
      /\ \/ i < Len(files) /\ pc' = "measure" /\ i' = i + 1 /\ buffer' = buffer
         \/ ~(i < Len(files)) /\ pc' = "inflate" /\ i' = 1 /\ buffer' = [j \in 1 .. u |-> Unknown]
  BY DEF Measure
<1>2. /\ files \in Seq(Pictures) /\ Len(files) \in Nat /\ Len(files) <= MaxArgs
      /\ i \in 1 .. Len(files) /\ files[i] \in Pictures
  <2>1. files \in Seq(Pictures) /\ Len(files) <= MaxArgs /\ i \in 1 .. MaxArgs /\ i <= Len(files)
    BY <1>1 DEF IInv, Types
  <2>2. Len(files) \in Nat /\ i \in 1 .. Len(files)
    BY <2>1, LenProperties
  <2> QED BY <2>1, <2>2, ElementOfSeq
<1>3. uncompressed_length = SizesTo(files, i - 1) /\ buffer = <<>> /\ prev_data_size = 0 /\ height = 0
  BY <1>1 DEF IInv, Loops
<1>4. u = SizesTo(files, i) /\ u \in Nat /\ SizesTo(files, 0) = 0 /\ HeightsTo(files, 0) = 0
  <2>1. i \in 0 .. Len(files)
    BY <1>2
  <2> QED BY <1>2, <1>3, <2>1, FileSums
<1> HIDE DEF u
<1>5. i' \in 1 .. MaxArgs /\ i' <= Len(files) /\ pc' \in {"measure", "inflate"} /\ 1 <= Len(files)
  BY <1>1, <1>2, BoundAssumption
<1>6. Types'
  <2>1. pc' \in Work /\ pc' # "IHDR" /\ pc \in {"measure", "inflate", "IHDR"}
    BY <1>1, <1>5 DEF Work
  <2> QED BY <1>1, <1>2, <1>4, <1>5, <2>1 DEF IInv, Types
<1>7. CASE i < Len(files)
  <2>1. (i + 1) - 1 = i /\ pc' = "measure"
    BY <1>1, <1>2, <1>7
  <2>2. Loops'
    BY <1>1, <1>3, <1>4, <1>7, <2>1 DEF Loops
  <2>3. (Chunks /\ First /\ Walk)'
    BY <1>1, <2>1, QuietKeeps DEF IInv
  <2> QED BY <1>6, <2>2, <2>3 DEF IInv
<1>8. CASE ~(i < Len(files))
  <2>1. i = Len(files) /\ pc' = "inflate" /\ i' = 1 /\ buffer' = [j \in 1 .. u |-> Unknown]
    BY <1>1, <1>2, <1>8
  <2>2. Long(buffer', u)
    <3>1. DOMAIN buffer' = 1 .. u /\ buffer' = [j \in 1 .. u |-> buffer'[j]]
      BY <2>1
    <3> QED BY <1>4, <3>1, FunctionIs DEF Long
  <2>3. Placed(files, buffer', 0, 0)
    BY <1>4 DEF Placed
  <2>4. Loops'
    <3>1. 1 - 1 = 0 /\ u = SizesTo(files, Len(files))
      BY <1>4, <2>1
    <3> QED BY <1>1, <1>3, <1>4, <2>1, <2>2, <2>3, <3>1 DEF Loops
  <2>5. (Chunks /\ First /\ Walk)'
    BY <1>1, <2>1, QuietKeeps DEF IInv
  <2> QED BY <1>6, <2>4, <2>5 DEF IInv
<1> QED BY <1>7, <1>8

LEMMA InflateKeeps ==
    ASSUME IInv, Inflate
    PROVE IInv'
<1> DEFINE p == files[i]
           end == prev_data_size + Len(Inflated(p))
<1>1. /\ pc = "inflate" /\ Fits(p)
      /\ buffer' = [j \in DOMAIN buffer |->
                        IF j - prev_data_size \in DOMAIN Inflated(p)
                        THEN Inflated(p)[j - prev_data_size] ELSE buffer[j]]
      /\ prev_data_size' = end /\ height' = height + p.height
      /\ UNCHANGED <<files, uncompressed_length, all, pos, IDAT_length, made, answer>>
      /\ \/ i < Len(files) /\ pc' = "inflate" /\ i' = i + 1
         \/ ~(i < Len(files)) /\ pc' = "IHDR" /\ i' = i
  BY DEF Inflate
<1>2. /\ files \in Seq(Pictures) /\ Len(files) \in Nat /\ Len(files) <= MaxArgs
      /\ i \in 1 .. Len(files) /\ p \in Pictures /\ prev_data_size \in Nat
  <2>1. /\ files \in Seq(Pictures) /\ Len(files) <= MaxArgs /\ i \in 1 .. MaxArgs /\ i <= Len(files)
        /\ prev_data_size \in Nat
    BY <1>1 DEF IInv, Types
  <2>2. Len(files) \in Nat /\ i \in 1 .. Len(files)
    BY <2>1, LenProperties
  <2> QED BY <2>1, <2>2, ElementOfSeq
<1>3. /\ uncompressed_length = SizesTo(files, Len(files))
      /\ Long(buffer, uncompressed_length)
      /\ height = HeightsTo(files, i - 1)
      /\ prev_data_size <= SizesTo(files, i - 1)
      /\ Placed(files, buffer, prev_data_size, i - 1)
  BY <1>1 DEF IInv, Loops
<1>4. /\ Long(buffer', uncompressed_length)
      /\ Len(Inflated(p)) \in Nat /\ end <= SizesTo(files, i)
      /\ Placed(files, buffer', end, i)
  <2>1. Long(buffer, SizesTo(files, Len(files)))
    BY <1>3
  <2> HIDE DEF end, p
  <2>2. /\ Long(buffer', SizesTo(files, Len(files)))
        /\ Len(Inflated(p)) \in Nat /\ prev_data_size + Len(Inflated(p)) <= SizesTo(files, i)
        /\ Placed(files, buffer', prev_data_size + Len(Inflated(p)), i)
    BY <1>1, <1>2, <1>3, <2>1, PlacedNext DEF p
  <2> QED BY <1>3, <2>2 DEF end
<1>5. /\ HeightsTo(files, i) = HeightsTo(files, i - 1) + p.height /\ HeightsTo(files, i) \in Nat
      /\ SizesTo(files, i) \in Nat /\ SizesTo(files, Len(files)) \in Nat
      /\ SizesTo(files, i) <= SizesTo(files, Len(files))
      /\ HeightsTo(files, Len(files)) = Heights(files)
  <2>1. i \in 0 .. Len(files) /\ Len(files) \in 0 .. Len(files)
    BY <1>2
  <2> QED BY <1>2, <2>1, FileSums
<1>6. end \in Nat /\ end <= uncompressed_length
  BY <1>2, <1>3, <1>4, <1>5
<1> HIDE DEF p, end
<1>7. height' = HeightsTo(files, i)
  BY <1>1, <1>3, <1>5
<1>8. i < Len(files) => i + 1 \in 1 .. MaxArgs /\ i + 1 <= Len(files)
  BY <1>2, BoundAssumption
<1>9. Types'
  BY <1>1, <1>2, <1>5, <1>6, <1>7, <1>8 DEF IInv, Types, Work, Info
<1>10. Loops'
  <2>1. CASE i < Len(files)
    <3>1. (i + 1) - 1 = i /\ pc' = "inflate" /\ i' = i + 1
      BY <1>1, <1>2, <2>1
    <3> QED BY <1>1, <1>3, <1>4, <1>6, <1>7, <3>1 DEF Loops
  <2>2. CASE ~(i < Len(files))
    <3>1. i = Len(files) /\ pc' = "IHDR"
      BY <1>1, <1>2, <2>2
    <3> QED BY <1>1, <1>3, <1>4, <1>5, <1>6, <1>7, <3>1 DEF Loops
  <2> QED BY <2>1, <2>2
<1>11. (Chunks /\ First /\ Walk)'
  BY <1>1, QuietKeeps DEF IInv
<1> QED BY <1>9, <1>10, <1>11 DEF IInv

LEMMA OverrunKeeps ==
    ASSUME IInv, Overrun
    PROVE IInv'
<1>1. /\ pc = "inflate" /\ pc' = "astray"
      /\ UNCHANGED <<files, i, height, uncompressed_length, prev_data_size, buffer>>
      /\ UNCHANGED <<all, pos, IDAT_length, made, answer>>
  BY DEF Overrun, image
<1>2. Types'
  BY <1>1 DEF IInv, Types, Work, Info
<1>3. Loops'
  BY <1>1 DEF IInv, Loops
<1>4. (Chunks /\ First /\ Walk)'
  BY <1>1, QuietKeeps DEF IInv
<1> QED BY <1>2, <1>3, <1>4 DEF IInv

-----------------------------------------------------------------------------
(* catpng appends to all.png.                                              *)

LEMMA LoopsKept ==
    ASSUME Loops, UNCHANGED <<prev_data_size, uncompressed_length, buffer>>,
           pc' \notin {"measure", "inflate", "IHDR"}
    PROVE Loops'
BY DEF Loops

(* What a write of n bytes does to all.png and to the complete images.     *)
LEMMA WriteFacts ==
    ASSUME Types, NEW t, NEW k \in Nat, Long(t, k), fwrite(t)
    PROVE /\ all' = all \o t /\ IsBytes(all') /\ Len(all) \in Nat /\ Len(all') = Len(all) + k
          /\ pos' = Len(all') /\ pos' \in 0 .. Len(all')
          /\ HasAt(all', Len(all), t)
          /\ \A m : \A r \in Images : Complete(all, r, m) => Complete(all', r, m)
<1>1. all' = all \o t /\ pos' = Len(all) + Len(t)
  BY DEF fwrite
<1>2. IsBytes(all) /\ IsBytes(t) /\ Len(t) = k
  BY DEF Types, Long
<1>3. IsBytes(all') /\ Len(all') = Len(all) + k /\ Len(all) \in Nat
  BY <1>1, <1>2, Joined
<1>4. HasAt(all', Len(all), t)
  BY <1>1, <1>2, Appended
<1>5. ASSUME NEW m, NEW r \in Images, Complete(all, r, m) PROVE Complete(all', r, m)
  <2>1. r.start \in Nat /\ r.deflated \in Nat
    BY DEF Images
  <2>2. /\ Data(all, r.start, r.deflated, m) => Data(all \o t, r.start, r.deflated, m)
        /\ DataCrc(all, r.start, r.deflated, m) => DataCrc(all \o t, r.start, r.deflated, m)
    BY <1>2, <2>1, PlacesKept
  <2> QED BY <1>1, <1>5, <2>2 DEF Complete
<1> QED BY <1>1, <1>2, <1>3, <1>4, <1>5

(* The images that are there.                                              *)
LEMMA MadeFacts ==
    ASSUME Types
    PROVE /\ made \in Seq(Images) /\ Len(made) \in Nat /\ (made # <<>> <=> Len(made) >= 1)
          /\ \A m \in 1 .. Len(made) :
                made[m] \in Images /\ made[m].start \in Nat /\ made[m].deflated \in Nat
<1>1. made \in Seq(Images)
  BY DEF Types
<1>2. Len(made) \in Nat /\ (made = <<>> <=> Len(made) = 0)
  BY <1>1, LenProperties, EmptySeq
<1>3. ASSUME NEW m \in 1 .. Len(made)
      PROVE made[m] \in Images /\ made[m].start \in Nat /\ made[m].deflated \in Nat
  <2>1. made[m] \in Images
    BY <1>1, ElementOfSeq
  <2> QED BY <2>1 DEF Images
<1> QED BY <1>1, <1>2, <1>3

(* What WriteIHDR writes, read in its parts.                               *)
HeaderBytes(w, h) == Field("signature", 8, 0) \o
                        (Field("length", 4, 13) \o Field("type", 4, "IHDR") \o Field("width", 4, w)
                            \o Field("height", 4, h) \o Field("rest", 5, 0))

LEMMA HeaderLong ==
    ASSUME NEW w, NEW h
    PROVE /\ Long(HeaderBytes(w, h), 29)
          /\ \A s : IsBytes(s) /\ HasAt(s, 0, HeaderBytes(w, h)) => Header(s, w, h)
<1> DEFINE g == Field("signature", 8, 0)
           l == Field("length", 4, 13)
           a == Field("type", 4, "IHDR")
           b == Field("width", 4, w)
           c == Field("height", 4, h)
           d == Field("rest", 5, 0)
<1>1. /\ Long(g, 8) /\ Long(l, 4) /\ Long(a, 4) /\ Long(b, 4) /\ Long(c, 4) /\ Long(d, 5)
  BY FieldLong
<1>2. /\ HeaderBytes(w, h) = g \o ((((l \o a) \o b) \o c) \o d)
      /\ HeaderBody(w, h) = ((a \o b) \o c) \o d
  BY DEF HeaderBytes, HeaderBody
<1>g. g = Field("signature", 8, 0) /\ l = Field("length", 4, 13)
  OBVIOUS
<1> HIDE DEF g, l, a, b, c, d
<1>3. Long(l \o a, 8) /\ Long(a \o b, 8)
  <2>1. Long(l \o a, 4 + 4) /\ Long(a \o b, 4 + 4) /\ 4 + 4 = 8
    BY <1>1, JoinedLong
  <2> QED BY <2>1
<1>4. Long((l \o a) \o b, 12) /\ Long((a \o b) \o c, 12)
  <2>1. Long((l \o a) \o b, 8 + 4) /\ Long((a \o b) \o c, 8 + 4) /\ 8 + 4 = 12
    BY <1>1, <1>3, JoinedLong
  <2> QED BY <2>1
<1>5. Long(((l \o a) \o b) \o c, 16)
  <2>1. Long(((l \o a) \o b) \o c, 12 + 4) /\ 12 + 4 = 16
    BY <1>1, <1>4, JoinedLong
  <2> QED BY <2>1
<1>6. Long((((l \o a) \o b) \o c) \o d, 21)
  <2>1. Long((((l \o a) \o b) \o c) \o d, 16 + 5) /\ 16 + 5 = 21
    BY <1>1, <1>5, JoinedLong
  <2> QED BY <2>1
<1>7. Long(g \o ((((l \o a) \o b) \o c) \o d), 29)
  <2>1. Long(g \o ((((l \o a) \o b) \o c) \o d), 8 + 21) /\ 8 + 21 = 29
    BY <1>1, <1>6, JoinedLong
  <2> QED BY <2>1
<1>8. ASSUME NEW s, IsBytes(s), HasAt(s, 0, g \o ((((l \o a) \o b) \o c) \o d))
      PROVE HasAt(s, 0, g) /\ HasAt(s, 8, l) /\ HasAt(s, 12, ((a \o b) \o c) \o d)
  <2>1. HasAt(s, 0, g) /\ HasAt(s, 8, (((l \o a) \o b) \o c) \o d)
    <3>1. HasAt(s, 0, g) /\ HasAt(s, 0 + 8, (((l \o a) \o b) \o c) \o d) /\ 0 + 8 = 8
      BY <1>1, <1>6, <1>8, BothLong
    <3> QED BY <3>1
  <2>2. HasAt(s, 8, ((l \o a) \o b) \o c) /\ HasAt(s, 24, d)
    <3>1. HasAt(s, 8, ((l \o a) \o b) \o c) /\ HasAt(s, 8 + 16, d) /\ 8 + 16 = 24
      BY <1>1, <1>5, <1>8, <2>1, BothLong
    <3> QED BY <3>1
  <2>3. HasAt(s, 8, (l \o a) \o b) /\ HasAt(s, 20, c)
    <3>1. HasAt(s, 8, (l \o a) \o b) /\ HasAt(s, 8 + 12, c) /\ 8 + 12 = 20
      BY <1>1, <1>4, <1>8, <2>2, BothLong
    <3> QED BY <3>1
  <2>4. HasAt(s, 8, l \o a) /\ HasAt(s, 16, b)
    <3>1. HasAt(s, 8, l \o a) /\ HasAt(s, 8 + 8, b) /\ 8 + 8 = 16
      BY <1>1, <1>3, <1>8, <2>3, BothLong
    <3> QED BY <3>1
  <2>5. HasAt(s, 8, l) /\ HasAt(s, 12, a)
    <3>1. HasAt(s, 8, l) /\ HasAt(s, 8 + 4, a) /\ 8 + 4 = 12
      BY <1>1, <1>8, <2>4, BothLong
    <3> QED BY <3>1
  <2>6. HasAt(s, 12, a \o b)
    <3>1. HasAt(s, 12 + 4, b)
      <4>1. 12 + 4 = 16
        OBVIOUS
      <4> QED BY <2>4, <4>1
    <3> QED BY <1>1, <1>8, <2>5, <3>1, BothLong
  <2>7. HasAt(s, 12, (a \o b) \o c)
    <3>1. HasAt(s, 12 + 8, c)
      <4>1. 12 + 8 = 20
        OBVIOUS
      <4> QED BY <2>3, <4>1
    <3> QED BY <1>1, <1>3, <1>8, <2>6, <3>1, BothLong
  <2>8. HasAt(s, 12, ((a \o b) \o c) \o d)
    <3>1. HasAt(s, 12 + 12, d)
      <4>1. 12 + 12 = 24
        OBVIOUS
      <4> QED BY <2>2, <4>1
    <3> QED BY <1>1, <1>4, <1>8, <2>7, <3>1, BothLong
  <2> QED BY <2>1, <2>5, <2>8
<1>9. ASSUME NEW s, IsBytes(s), HasAt(s, 0, HeaderBytes(w, h)) PROVE Header(s, w, h)
  <2>1. HasAt(s, 0, g) /\ HasAt(s, 8, l) /\ HasAt(s, 12, HeaderBody(w, h))
    BY <1>2, <1>8, <1>9
  <2> QED BY <1>g, <2>1 DEF Header
<1> QED BY <1>2, <1>7, <1>9

LEMMA OneMore ==
    ASSUME NEW S, NEW s \in Seq(S), NEW e \in S, NEW r, r = Append(s, e)
    PROVE /\ r \in Seq(S) /\ Len(r) = Len(s) + 1 /\ r[Len(s) + 1] = e
          /\ \A j \in 1 .. Len(s) : r[j] = s[j]
BY AppendProperties

LEMMA WriteIHDRKeeps ==
    ASSUME IInv, WriteIHDR
    PROVE IInv'
<1> DEFINE w == files[1].width
           t == HeaderBytes(w, height)
           new == [files |-> files, start |-> Len(all), deflated |-> 0]
           k == Len(made)
<1>1. /\ pc = "IHDR" /\ pc' = "IHDR crc" /\ fwrite(t) /\ made' = Append(made, new)
      /\ UNCHANGED <<files, i, IDAT_length, answer>>
      /\ UNCHANGED <<height, uncompressed_length, prev_data_size, buffer>>
  BY DEF WriteIHDR, IHDR, HeaderBytes, image
<1>2. Types /\ Loops /\ Chunks /\ First /\ Walk
  BY DEF IInv
<1>3. Long(t, 29)
  BY HeaderLong
<1>4. /\ all' = all \o t /\ IsBytes(all') /\ Len(all) \in Nat /\ Len(all') = Len(all) + 29
      /\ pos' \in 0 .. Len(all') /\ HasAt(all', Len(all), t)
      /\ \A m : \A r \in Images : Complete(all, r, m) => Complete(all', r, m)
  BY <1>1, <1>2, <1>3, WriteFacts
<1>5. made \in Seq(Images) /\ k \in Nat /\ \A m \in 1 .. k : made[m] \in Images
  BY <1>2, MadeFacts
<1>6. new \in Images
  BY <1>2, <1>4 DEF Types, Images
<1>n. new.start = Len(all) /\ new.deflated = 0 /\ new.files = files
  OBVIOUS
<1> HIDE DEF new, w
<1>7. /\ made' \in Seq(Images) /\ Len(made') = k + 1 /\ made'[k + 1] = new
      /\ \A m \in 1 .. k : made'[m] = made[m]
  <2>1. made \in Seq(Images) /\ new \in Images /\ made' = Append(made, new)
    BY <1>1, <1>5, <1>6
  <2> DEFINE r == made'
  <2>2. r = Append(made, new)
    BY <2>1
  <2> HIDE DEF r
  <2>3. /\ r \in Seq(Images) /\ Len(r) = Len(made) + 1 /\ r[Len(made) + 1] = new
        /\ \A j \in 1 .. Len(made) : r[j] = made[j]
    BY <2>1, <2>2, OneMore
  <2> QED BY <2>3 DEF r
<1>8. k < MaxRuns
  BY <1>1, <1>2 DEF Types
<1> HIDE DEF t, k
<1>9. Types'
  <2>1. k + 1 <= MaxRuns
    BY <1>5, <1>8, BoundAssumption
  <2> QED BY <1>1, <1>2, <1>4, <1>7, <2>1 DEF Types, Work
<1>10. Loops'
  BY <1>1, <1>2, LoopsKept
<1>11. Chunks'
  <2>1. \A m \in 1 .. k : Complete(all, made[m], m)
    BY <1>1, <1>2 DEF Chunks, Writing, k
  <2>2. ASSUME NEW m \in 1 .. Len(made'), m < Len(made') PROVE Complete(all', made'[m], m)
    <3>1. m \in 1 .. k
      BY <1>5, <1>7, <2>2
    <3> QED BY <1>4, <1>5, <1>7, <2>1, <3>1
  <2>3. Long(all', new.start + 29)
    BY <1>4, <1>n DEF Long
  <2>4. Last' = new /\ Len(made') >= 1 /\ made' # <<>>
    <3>1. Len(made') >= 1
      BY <1>5, <1>7
    <3> QED BY <1>7, <3>1, EmptySeq DEF Last
  <2> QED BY <1>1, <2>2, <2>3, <2>4 DEF Chunks, Writing
<1>12. First'
  <2>1. CASE k = 0
    <3>1. made = <<>>
      BY <1>5, <2>1, EmptySeq DEF k
    <3>2. all = <<>>
      BY <1>2, <3>1 DEF Chunks
    <3>3. Len(all) = 0
      BY <3>2
    <3>4. Len(made') = 1 /\ made'[1] = new /\ new.start = 0
      BY <1>7, <1>n, <2>1, <3>3
    <3>5. Header(all', w, height)
      BY <1>4, <3>3, HeaderLong DEF t
    <3>6. Heights(files) = height /\ w = files[1].width
      BY <1>1, <1>2 DEF Loops, w
    <3>7. /\ made'[1].start = 0 /\ made'[1].files[1].width = w
          /\ Heights(made'[1].files) = height /\ ~(Len(made') > 1)
      BY <1>n, <3>4, <3>6
    <3> HIDE DEF First
    <3> QED BY <1>1, <3>5, <3>7 DEF First, Writing
  <2>2. CASE k # 0
    <3>1. k >= 1 /\ 1 \in 1 .. k /\ made # <<>>
      BY <1>5, <2>2, EmptySeq DEF k
    <3>2. made'[1] = made[1] /\ made[1] \in Images
      BY <1>5, <1>7, <3>1
    <3>3. made[1].deflated \in Nat
      BY <3>2 DEF Images
    <3>4. /\ made[1].start = 0
          /\ Header(all, made[1].files[1].width, Heights(made[1].files))
          /\ HeaderCrc(all, made[1].files[1].width, Heights(made[1].files))
          /\ End(all, 45 + made[1].deflated)
      BY <1>1, <1>2, <3>1 DEF First, Writing
    <3>5. /\ Header(all', made[1].files[1].width, Heights(made[1].files))
          /\ HeaderCrc(all', made[1].files[1].width, Heights(made[1].files))
          /\ End(all', 45 + made[1].deflated)
      <4>1. IsBytes(all) /\ IsBytes(t) /\ 45 + made[1].deflated \in Nat
        BY <1>2, <1>3, <3>3 DEF Types, Long
      <4> QED BY <1>4, <3>4, <4>1, PlacesKept
    <3> QED BY <3>2, <3>4, <3>5 DEF First
  <2> QED BY <2>1, <2>2
<1>13. Walk'
  <2>1. made # <<>> => made' # <<>> /\ made'[1] = made[1]
    <3>1. made # <<>> => 1 \in 1 .. k /\ Len(made') >= 1
      BY <1>5, <1>7, EmptySeq DEF k
    <3> QED BY <1>7, <3>1, EmptySeq
  <2> QED BY <1>1, <1>2, <2>1 DEF Walk, Info
<1> QED BY <1>9, <1>10, <1>11, <1>12, <1>13 DEF IInv

LEMMA freadIs ==
    ASSUME NEW off \in Nat, NEW b, NEW k, Long(b, k), HasAt(all, off, b)
    PROVE fread(k, off) = b
BY ReadLong DEF fread

(* The first image stays where it is.                                      *)
LEMMA FirstFacts ==
    ASSUME Types, First, made # <<>>, NEW t, NEW k \in Nat, Long(t, k), fwrite(t),
           NEW w, w = made[1].files[1].width, NEW h, h = Heights(made[1].files)
    PROVE /\ made[1].start = 0 /\ Header(all, w, h) /\ Header(all', w, h)
          /\ Len(made) > 1 \/ pc # "IHDR crc" => HeaderCrc(all', w, h)
          /\ Len(made) > 1 \/ pc \notin Writing \cup {"IEND"} => End(all', 45 + made[1].deflated)
<1>1. /\ made[1].start = 0 /\ Header(all, w, h)
      /\ Len(made) > 1 \/ pc # "IHDR crc" => HeaderCrc(all, w, h)
      /\ Len(made) > 1 \/ pc \notin Writing \cup {"IEND"} => End(all, 45 + made[1].deflated)
  BY DEF First
<1>2. IsBytes(all) /\ IsBytes(t) /\ all' = all \o t
  BY DEF Types, Long, fwrite
<1>3. 45 + made[1].deflated \in Nat
  <2>1. Len(made) \in Nat /\ Len(made) >= 1
    BY MadeFacts
  <2>2. made[1].deflated \in Nat
    BY <2>1, MadeFacts
  <2> QED BY <2>2
<1>4. Header(all', w, h) /\ (HeaderCrc(all, w, h) => HeaderCrc(all', w, h))
  BY <1>1, <1>2, PlacesKept
<1>5. End(all, 45 + made[1].deflated) => End(all', 45 + made[1].deflated)
  BY <1>2, <1>3, PlacesKept
<1> QED BY <1>1, <1>4, <1>5

LEMMA WriteIHDRCrcKeeps ==
    ASSUME IInv, WriteIHDRCrc
    PROVE IInv'
<1> DEFINE t == crc(fread(17, 12))
           w == made[1].files[1].width
           h == Heights(made[1].files)
<1>1. /\ pc = "IHDR crc" /\ pc' = "IDAT" /\ fwrite(t)
      /\ UNCHANGED <<files, i, IDAT_length, made, answer>>
      /\ UNCHANGED <<height, uncompressed_length, prev_data_size, buffer>>
  BY DEF WriteIHDRCrc, image
<1>2. Types /\ Loops /\ Chunks /\ First /\ Walk
  BY DEF IInv
<1>3. Long(t, 4)
  BY crcLong
<1>4. /\ all' = all \o t /\ IsBytes(all') /\ Len(all) \in Nat /\ Len(all') = Len(all) + 4
      /\ pos' \in 0 .. Len(all') /\ HasAt(all', Len(all), t)
      /\ \A m : \A r \in Images : Complete(all, r, m) => Complete(all', r, m)
  BY <1>1, <1>2, <1>3, WriteFacts
<1>5. /\ made \in Seq(Images) /\ Len(made) \in Nat /\ (made # <<>> <=> Len(made) >= 1)
      /\ \A m \in 1 .. Len(made) : made[m] \in Images /\ made[m].start \in Nat
  BY <1>2, MadeFacts
<1>6. /\ Len(made) >= 1 /\ Long(all, Last.start + 29)
      /\ \A m \in 1 .. Len(made) : m < Len(made) => Complete(all, made[m], m)
  BY <1>1, <1>2 DEF Chunks, Writing
<1>7. Last.start \in Nat /\ Last = made[Len(made)]
  BY <1>5, <1>6 DEF Last
<1>8. Types'
  BY <1>1, <1>2, <1>4 DEF Types, Work
<1>9. Loops'
  BY <1>1, <1>2, LoopsKept
<1>10. Chunks'
  <2>1. \A m \in 1 .. Len(made) : m < Len(made) => Complete(all', made[m], m)
    BY <1>4, <1>5, <1>6
  <2>2. Long(all', Last.start + 33)
    BY <1>4, <1>6, <1>7 DEF Long
  <2>3. Last' = Last
    BY <1>1 DEF Last
  <2> QED BY <1>1, <1>5, <1>6, <2>1, <2>2, <2>3 DEF Chunks, Writing
<1>11. /\ made[1].start = 0 /\ Header(all, w, h) /\ Header(all', w, h)
       /\ Len(made) > 1 => HeaderCrc(all', w, h)
       /\ Len(made) > 1 => End(all', 45 + made[1].deflated)
  BY <1>1, <1>2, <1>3, <1>5, <1>6, FirstFacts
<1>12. ~(Len(made) > 1) => HeaderCrc(all', w, h)
  <2> SUFFICES ASSUME ~(Len(made) > 1) PROVE HeaderCrc(all', w, h)
    OBVIOUS
  <2>1. Len(all) = 29
    BY <1>6, <1>7, <1>11 DEF Long
  <2>2. HasAt(all, 12, HeaderBody(w, h)) /\ Long(HeaderBody(w, h), 17)
    BY <1>11, BodyLong DEF Header
  <2> HIDE DEF w, h
  <2>3. fread(17, 12) = HeaderBody(w, h)
    BY <2>2, freadIs
  <2> QED BY <1>4, <2>1, <2>3 DEF HeaderCrc
<1>13. First'
  <2> HIDE DEF First
  <2> QED BY <1>1, <1>11, <1>12 DEF First, Writing
<1>14. Walk'
  BY <1>1, <1>2 DEF Walk, Info
<1> QED BY <1>8, <1>9, <1>10, <1>13, <1>14 DEF IInv

(* What WriteIDAT writes, read in its parts.                               *)
DataBytes(n, m) == Field("length", 4, n) \o Field("type", 4, "IDAT") \o Field("deflated", n, m)

LEMMA DataLong ==
    ASSUME NEW n \in Nat, NEW m
    PROVE /\ Long(DataBytes(n, m), 8 + n)
          /\ \A s : \A st \in Nat :
                IsBytes(s) /\ HasAt(s, st + 33, DataBytes(n, m)) => Data(s, st, n, m)
<1> DEFINE l == Field("length", 4, n)
           a == Field("type", 4, "IDAT")
           b == Field("deflated", n, m)
<1>1. Long(l, 4) /\ Long(a, 4) /\ Long(b, n)
  BY FieldLong
<1>2. DataBytes(n, m) = (l \o a) \o b /\ DataBody(n, m) = a \o b /\ l = Field("length", 4, n)
  BY DEF DataBytes, DataBody
<1> HIDE DEF l, a, b
<1>3. Long(l \o a, 8)
  <2>1. Long(l \o a, 4 + 4) /\ 4 + 4 = 8
    BY <1>1, JoinedLong
  <2> QED BY <2>1
<1>4. Long((l \o a) \o b, 8 + n)
  BY <1>1, <1>3, JoinedLong
<1>5. ASSUME NEW s, NEW st \in Nat, IsBytes(s), HasAt(s, st + 33, (l \o a) \o b)
      PROVE HasAt(s, st + 33, l) /\ HasAt(s, st + 37, a \o b)
  <2>0. st + 33 \in Nat /\ st + 37 \in Nat
    OBVIOUS
  <2>1. HasAt(s, st + 33, l \o a) /\ HasAt(s, st + 41, b)
    <3>1. HasAt(s, st + 33, l \o a) /\ HasAt(s, (st + 33) + 8, b) /\ (st + 33) + 8 = st + 41
      BY <1>1, <1>3, <1>5, <2>0, BothLong
    <3> QED BY <3>1
  <2>2. HasAt(s, st + 33, l) /\ HasAt(s, st + 37, a)
    <3>1. HasAt(s, st + 33, l) /\ HasAt(s, (st + 33) + 4, a) /\ (st + 33) + 4 = st + 37
      BY <1>1, <1>5, <2>0, <2>1, BothLong
    <3> QED BY <3>1
  <2>3. HasAt(s, (st + 37) + 4, b)
    <3>1. (st + 37) + 4 = st + 41
      OBVIOUS
    <3> QED BY <2>1, <3>1
  <2> QED BY <1>1, <1>5, <2>0, <2>2, <2>3, BothLong
<1>6. ASSUME NEW s, NEW st \in Nat, IsBytes(s), HasAt(s, st + 33, DataBytes(n, m))
      PROVE Data(s, st, n, m)
  BY <1>2, <1>5, <1>6 DEF Data
<1> QED BY <1>2, <1>4, <1>6

LEMMA WriteIDATKeeps ==
    ASSUME IInv, NEW n \in Deflated, WriteIDAT(n)
    PROVE IInv'
<1> DEFINE k == Len(made)
           t == DataBytes(n, k)
           new == [Last EXCEPT !.deflated = n]
<1>0. n \in Nat /\ n # 0
  BY BoundAssumption
<1>1. /\ pc = "IDAT" /\ pc' = "IDAT crc" /\ fwrite(t) /\ IDAT_length' = n
      /\ made' = [made EXCEPT ![k].deflated = n]
      /\ UNCHANGED <<files, i, answer>>
      /\ UNCHANGED <<height, uncompressed_length, prev_data_size, buffer>>
  <2> DEFINE b == Field("deflated", n, k)
  <2>1. mem_def(n) = n
    BY <1>0, mem_defIs
  <2>2. SubSeq(b, 1, n) = b
    <3>1. Long(b, n)
      BY <1>0, FieldLong
    <3> HIDE DEF b
    <3>2. HasAt(b, 0, b)
      BY <1>0, <3>1 DEF HasAt, Long
    <3>3. SubSeq(b, 0 + 1, 0 + n) = b /\ 0 + 1 = 1 /\ 0 + n = n
      BY <1>0, <3>1, <3>2, ReadLong
    <3> QED BY <3>3
  <2>3. /\ pc = "IDAT" /\ pc' = "IDAT crc" /\ IDAT_length' = mem_def(n)
        /\ fwrite(Field("length", 4, mem_def(n)) \o Field("type", 4, "IDAT") \o SubSeq(b, 1, mem_def(n)))
        /\ made' = [made EXCEPT ![k].deflated = n]
        /\ UNCHANGED <<files, i, answer>> /\ UNCHANGED image
    BY DEF WriteIDAT
  <2> HIDE DEF b
  <2>4. fwrite(Field("length", 4, n) \o Field("type", 4, "IDAT") \o b)
    BY <2>1, <2>2, <2>3
  <2>5. fwrite(t)
    BY <2>4 DEF DataBytes, b
  <2> QED BY <2>1, <2>3, <2>5 DEF image
<1>2. Types /\ Loops /\ Chunks /\ First /\ Walk
  BY DEF IInv
<1>3. Long(t, 8 + n) /\ 8 + n \in Nat
  BY <1>0, DataLong
<1>4. /\ all' = all \o t /\ IsBytes(all') /\ Len(all) \in Nat /\ Len(all') = Len(all) + (8 + n)
      /\ pos' = Len(all') /\ pos' \in 0 .. Len(all') /\ HasAt(all', Len(all), t)
      /\ \A m : \A r \in Images : Complete(all, r, m) => Complete(all', r, m)
  BY <1>1, <1>2, <1>3, WriteFacts
<1>5. /\ made \in Seq(Images) /\ k \in Nat /\ (made # <<>> <=> k >= 1)
      /\ \A m \in 1 .. k : made[m] \in Images
  BY <1>2, MadeFacts
<1>6. /\ k >= 1 /\ Long(all, Last.start + 33)
      /\ \A m \in 1 .. k : m < k => Complete(all, made[m], m)
  BY <1>1, <1>2 DEF Chunks, Writing
<1>7. k \in 1 .. k /\ Last = made[k] /\ Last \in Images /\ Last.start \in Nat
  <2>1. k \in 1 .. k /\ Last = made[k]
    BY <1>5, <1>6 DEF Last
  <2> QED BY <1>5, <2>1 DEF Images
<1>8. /\ new \in Images /\ new.start = Last.start /\ new.files = Last.files /\ new.deflated = n
  BY <1>0, <1>7 DEF Images
<1>9. made' = [made EXCEPT ![k] = new]
  BY <1>1, <1>7
<1> HIDE DEF new
<1>10. /\ made' \in Seq(Images) /\ Len(made') = k /\ made'[k] = new
       /\ \A m \in 1 .. k : m # k => made'[m] = made[m]
  <2> DEFINE r == [made EXCEPT ![k] = new]
  <2>1. /\ r \in Seq(Images) /\ Len(r) = k
        /\ \A m \in 1 .. k : r[m] = IF m = k THEN new ELSE made[m]
    BY <1>5, <1>7, <1>8, ExceptSeq
  <2> HIDE DEF r
  <2>2. r[k] = new /\ \A m \in 1 .. k : m # k => r[m] = made[m]
    BY <1>7, <2>1
  <2>3. made' = r
    BY <1>9 DEF r
  <2> QED BY <2>1, <2>2, <2>3
<1> HIDE DEF k, t
<1>11. Types'
  BY <1>1, <1>2, <1>4, <1>10 DEF Types, Work, k
<1>12. Loops'
  BY <1>1, <1>2, LoopsKept
<1>13. Last' = new /\ made' # <<>>
  <2>1. Len(made') >= 1
    BY <1>6, <1>10
  <2> QED BY <1>10, <2>1, EmptySeq DEF Last
<1>14. Chunks'
  <2>1. ASSUME NEW m \in 1 .. k, m < k PROVE Complete(all', made'[m], m)
    BY <1>4, <1>5, <1>6, <1>10, <2>1
  <2>2. Long(all', new.start + 41 + n)
    <3>1. Len(all) = Last.start + 33
      BY <1>6 DEF Long
    <3> DEFINE st == Last.start
               old == Len(all)
               size == Len(all')
    <3>2. size = old + (8 + n) /\ old = st + 33 /\ st \in Nat /\ st = new.start
      BY <1>4, <1>7, <1>8, <3>1
    <3> HIDE DEF st, old, size
    <3>3. size = st + 41 + n
      BY <1>0, <3>2
    <3> QED BY <1>4, <3>2, <3>3 DEF Long, size
  <2>3. Data(all', new.start, n, k)
    <3>1. Len(all) = Last.start + 33
      BY <1>6 DEF Long
    <3> QED BY <1>0, <1>4, <1>7, <1>8, <3>1, DataLong DEF t
  <2> QED BY <1>0, <1>1, <1>4, <1>6, <1>8, <1>10, <1>13, <2>1, <2>2, <2>3 DEF Chunks, Writing
<1>15. made'[1].start = made[1].start /\ made'[1].files = made[1].files
  <2>1. CASE k = 1
    BY <1>7, <1>8, <1>10, <2>1
  <2>2. CASE k # 1
    <3>1. 1 \in 1 .. k /\ 1 # k
      BY <1>5, <1>6, <2>2
    <3> QED BY <1>10, <3>1
  <2> QED BY <2>1, <2>2
<1>16. k > 1 => made'[1] = made[1]
  <2>1. k > 1 => 1 \in 1 .. k /\ 1 # k
    BY <1>5
  <2> QED BY <1>10, <2>1
<1>17. First'
  <2> DEFINE w == made[1].files[1].width
             h == Heights(made[1].files)
  <2>1. /\ made[1].start = 0 /\ Header(all', w, h) /\ HeaderCrc(all', w, h)
        /\ k > 1 => End(all', 45 + made[1].deflated)
    BY <1>1, <1>2, <1>3, <1>5, <1>6, FirstFacts DEF k
  <2>2. w = made'[1].files[1].width /\ h = Heights(made'[1].files)
    BY <1>15
  <2> HIDE DEF w, h
  <2> QED BY <1>1, <1>10, <1>15, <1>16, <2>1, <2>2 DEF First, Writing
<1>18. Walk'
  BY <1>1, <1>2, <1>13, <1>15 DEF Walk, Info
<1> QED BY <1>11, <1>12, <1>14, <1>17, <1>18 DEF IInv

LEMMA WriteIDATCrcKeeps ==
    ASSUME IInv, WriteIDATCrc
    PROVE IInv'
<1> DEFINE k == Len(made)
           n == Last.deflated
           st == Last.start
           t == crc(fread(IDAT_length + 4, pos - (4 + IDAT_length)))
<1>1. /\ pc = "IDAT crc" /\ pc' = "IEND" /\ fwrite(t)
      /\ UNCHANGED <<files, i, IDAT_length, made, answer>>
      /\ UNCHANGED <<height, uncompressed_length, prev_data_size, buffer>>
  BY DEF WriteIDATCrc, image
<1>2. Types /\ Loops /\ Chunks /\ First /\ Walk
  BY DEF IInv
<1>3. Long(t, 4)
  BY crcLong
<1>4. /\ all' = all \o t /\ IsBytes(all') /\ Len(all) \in Nat /\ Len(all') = Len(all) + 4
      /\ pos' \in 0 .. Len(all') /\ HasAt(all', Len(all), t)
      /\ \A m : \A r \in Images : Complete(all, r, m) => Complete(all', r, m)
  BY <1>1, <1>2, <1>3, WriteFacts
<1>5. /\ made \in Seq(Images) /\ k \in Nat /\ (made # <<>> <=> k >= 1)
      /\ \A m \in 1 .. k : made[m] \in Images /\ made[m].start \in Nat /\ made[m].deflated \in Nat
  BY <1>2, MadeFacts
<1>6. /\ k >= 1 /\ Long(all, st + 41 + n) /\ pos = Len(all) /\ n # 0 /\ IDAT_length = n
      /\ Data(all, st, n, k)
      /\ \A m \in 1 .. k : m < k => Complete(all, made[m], m)
  BY <1>1, <1>2 DEF Chunks, Writing
<1>7. Last = made[k] /\ k \in 1 .. k /\ st \in Nat /\ n \in Nat
  <2>1. Last = made[k] /\ k \in 1 .. k
    BY <1>5, <1>6 DEF Last
  <2> QED BY <1>5, <2>1
<1>8. t = crc(DataBody(n, k))
  <2> HIDE DEF n, st
  <2>1. HasAt(all, st + 37, DataBody(n, k)) /\ Long(DataBody(n, k), 4 + n) /\ st + 37 \in Nat
    BY <1>6, <1>7, BodyLong DEF Data
  <2>2. fread(4 + n, st + 37) = DataBody(n, k)
    BY <2>1, freadIs
  <2>3. Len(all) = st + 41 + n
    BY <1>6 DEF Long
  <2>4. IDAT_length + 4 = 4 + n /\ pos - (4 + IDAT_length) = st + 37
    BY <1>6, <1>7, <2>3
  <2> QED BY <2>2, <2>4
<1>9. /\ Complete(all', Last, k) /\ Len(all') = st + 45 + n
  <2>1. Len(all) = st + 41 + n
    BY <1>6 DEF Long
  <2>2. Data(all', st, n, k)
    <3>1. IsBytes(all) /\ IsBytes(t)
      BY <1>2, <1>3 DEF Types, Long
    <3> QED BY <1>4, <1>6, <1>7, <3>1, PlacesKept
  <2>3. DataCrc(all', st, n, k)
    BY <1>4, <1>8, <2>1 DEF DataCrc
  <2> HIDE DEF n, st
  <2>4. Len(all') = st + 45 + n
    BY <1>4, <1>7, <2>1
  <2> QED BY <1>6, <2>2, <2>3, <2>4 DEF Complete, n, st
<1> HIDE DEF t
<1>10. Types'
  BY <1>1, <1>2, <1>4 DEF Types, Work
<1>11. Loops'
  BY <1>1, <1>2, LoopsKept
<1>12. Last' = Last
  BY <1>1 DEF Last
<1>13. Chunks'
  <2>1. ASSUME NEW m \in 1 .. k PROVE Complete(all', made[m], m)
    <3>1. m = k \/ m < k
      BY <1>5
    <3> QED BY <1>4, <1>5, <1>6, <1>7, <1>9, <3>1
  <2>2. Long(all', st + 45 + n)
    BY <1>4, <1>9 DEF Long
  <2> QED BY <1>1, <1>5, <1>6, <1>12, <2>1, <2>2 DEF Chunks, Writing
<1>14. First'
  <2> DEFINE w == made[1].files[1].width
             h == Heights(made[1].files)
  <2>1. /\ made[1].start = 0 /\ Header(all', w, h) /\ HeaderCrc(all', w, h)
        /\ k > 1 => End(all', 45 + made[1].deflated)
    BY <1>1, <1>2, <1>3, <1>5, <1>6, FirstFacts DEF t
  <2> QED BY <1>1, <2>1 DEF First, Writing
<1>15. Walk'
  BY <1>1, <1>2 DEF Walk, Info
<1> QED BY <1>10, <1>11, <1>13, <1>14, <1>15 DEF IInv

(* What WriteIEND writes, read in its parts.                               *)
EndBytes == Field("length", 4, 0) \o Field("type", 4, "IEND") \o crc(Field("type", 4, "IEND"))

LEMMA EndLong ==
    /\ Long(EndBytes, 12)
    /\ \A s : \A at \in Nat : IsBytes(s) /\ HasAt(s, at, EndBytes) => End(s, at)
<1> DEFINE l == Field("length", 4, 0)
           a == Field("type", 4, "IEND")
           b == crc(a)
<1>1. Long(l, 4) /\ Long(a, 4) /\ Long(b, 4)
  BY FieldLong, crcLong
<1>2. EndBytes = (l \o a) \o b /\ EndBody = a /\ l = Field("length", 4, 0) /\ b = crc(a)
  BY DEF EndBytes, EndBody
<1> HIDE DEF l, a, b
<1>3. Long(l \o a, 8)
  <2>1. Long(l \o a, 4 + 4) /\ 4 + 4 = 8
    BY <1>1, JoinedLong
  <2> QED BY <2>1
<1>4. Long((l \o a) \o b, 12)
  <2>1. Long((l \o a) \o b, 8 + 4) /\ 8 + 4 = 12
    BY <1>1, <1>3, JoinedLong
  <2> QED BY <2>1
<1>5. ASSUME NEW s, NEW at \in Nat, IsBytes(s), HasAt(s, at, (l \o a) \o b)
      PROVE HasAt(s, at, l) /\ HasAt(s, at + 4, a) /\ HasAt(s, at + 8, b)
  <2>1. HasAt(s, at, l \o a) /\ HasAt(s, at + 8, b)
    BY <1>1, <1>3, <1>5, BothLong
  <2> QED BY <1>1, <1>5, <2>1, BothLong
<1>6. ASSUME NEW s, NEW at \in Nat, IsBytes(s), HasAt(s, at, EndBytes) PROVE End(s, at)
  BY <1>2, <1>5, <1>6 DEF End
<1> QED BY <1>2, <1>4, <1>6

LEMMA WriteIENDKeeps ==
    ASSUME IInv, WriteIEND
    PROVE IInv'
<1> DEFINE k == Len(made)
<1>1. /\ pc = "IEND" /\ pc' = "idle" /\ fwrite(EndBytes)
      /\ UNCHANGED <<files, i, IDAT_length, made, answer>>
      /\ UNCHANGED <<height, uncompressed_length, prev_data_size, buffer>>
  BY DEF WriteIEND, EndBytes, image
<1>2. Types /\ Loops /\ Chunks /\ First /\ Walk
  BY DEF IInv
<1>3. Long(EndBytes, 12)
  BY EndLong
<1>4. /\ IsBytes(all') /\ Len(all) \in Nat /\ Len(all') = Len(all) + 12
      /\ pos' \in 0 .. Len(all') /\ HasAt(all', Len(all), EndBytes)
      /\ \A m : \A r \in Images : Complete(all, r, m) => Complete(all', r, m)
  BY <1>1, <1>2, <1>3, WriteFacts
<1>5. /\ k \in Nat /\ (made # <<>> <=> k >= 1)
      /\ \A m \in 1 .. k : made[m] \in Images /\ made[m].start \in Nat /\ made[m].deflated \in Nat
  BY <1>2, MadeFacts
<1>6. /\ k >= 1 /\ Long(all, Last.start + 45 + Last.deflated)
      /\ \A m \in 1 .. k : Complete(all, made[m], m)
  BY <1>1, <1>2 DEF Chunks, Writing
<1>7. End(all', Len(all))
  BY <1>4, EndLong
<1>8. Types'
  BY <1>1, <1>2, <1>4 DEF Types, Work
<1>9. Loops'
  BY <1>1, <1>2, LoopsKept
<1>10. Chunks'
  <2>1. \A m \in 1 .. k : Complete(all', made[m], m)
    BY <1>4, <1>5, <1>6
  <2>2. Len(all') >= 12 /\ Len(all') - 12 = Len(all)
    BY <1>4
  <2>3. End(all', Len(all') - 12)
    BY <1>7, <2>2
  <2> QED BY <1>1, <1>5, <1>6, <2>1, <2>2, <2>3 DEF Chunks, Writing
<1>11. First'
  <2> DEFINE w == made[1].files[1].width
             h == Heights(made[1].files)
  <2>1. /\ made[1].start = 0 /\ Header(all', w, h) /\ HeaderCrc(all', w, h)
        /\ k > 1 => End(all', 45 + made[1].deflated)
    BY <1>1, <1>2, <1>3, <1>5, <1>6, FirstFacts
  <2>2. ~(k > 1) => End(all', 45 + made[1].deflated)
    <3> SUFFICES ASSUME ~(k > 1) PROVE End(all', 45 + made[1].deflated)
      OBVIOUS
    <3>1. Last = made[1] /\ made[1].deflated \in Nat
      BY <1>5, <1>6 DEF Last
    <3>2. Len(all) = made[1].start + 45 + made[1].deflated
      BY <1>6, <3>1 DEF Long
    <3>3. Len(all) = 45 + made[1].deflated
      BY <2>1, <3>1, <3>2
    <3> QED BY <1>7, <3>3
  <2> QED BY <1>1, <2>1, <2>2 DEF First, Writing
<1>12. Walk'
  BY <1>1, <1>2 DEF Walk, Info
<1> QED BY <1>8, <1>9, <1>10, <1>11, <1>12 DEF IInv

-----------------------------------------------------------------------------
(* pnginfo walks through the first image and finds the end of the last.    *)

(* What a reader finds in all.png while catpng does not write.             *)
LEMMA FirstRead ==
    ASSUME Types, Chunks, First, pc \notin Writing \cup {"IEND"}, made # <<>>,
           NEW w, w = made[1].files[1].width, NEW h, h = Heights(made[1].files),
           NEW d, d = made[1].deflated
    PROVE /\ d \in Nat /\ d # 0 /\ made[1].start = 0
          /\ Header(all, w, h) /\ HeaderCrc(all, w, h)
          /\ Data(all, 0, d, 1) /\ DataCrc(all, 0, d, 1)
          /\ End(all, 45 + d) /\ End(all, Len(all) - 12)
          /\ Len(all) \in Nat /\ Len(all) >= 33 /\ Len(all) >= 57 + d
<1>1. 1 \in 1 .. Len(made) /\ d \in Nat
  <2>1. Len(made) \in Nat /\ Len(made) >= 1
    BY MadeFacts
  <2>2. 1 \in 1 .. Len(made)
    BY <2>1
  <2> QED BY <2>2, MadeFacts
<1>2. /\ made[1].start = 0 /\ Header(all, w, h) /\ HeaderCrc(all, w, h) /\ End(all, 45 + d)
  BY DEF First, Writing
<1>3. Complete(all, made[1], 1) /\ End(all, Len(all) - 12)
  BY <1>1 DEF Chunks
<1>4. d # 0 /\ Data(all, 0, d, 1) /\ DataCrc(all, 0, d, 1)
  BY <1>2, <1>3 DEF Complete
<1>5. Len(all) \in Nat
  BY BytesAre DEF Types
<1>6. 57 + d <= Len(all)
  <2>1. HasAt(all, (45 + d) + 8, crc(EndBody)) /\ Long(crc(EndBody), 4)
    BY <1>2, crcLong DEF End
  <2>2. ((45 + d) + 8) + 4 <= Len(all)
    BY <2>1 DEF HasAt, Long
  <2> QED BY <1>1, <2>2
<1> QED BY <1>1, <1>2, <1>3, <1>4, <1>5, <1>6

(* The fields that pnginfo prints.                                         *)
LEMMA HeaderRead ==
    ASSUME IsBytes(all), NEW w, NEW h, Header(all, w, h)
    PROVE /\ fread(8, 0) = Field("signature", 8, 0)
          /\ fread(1, 16)[1][3] = w /\ fread(1, 20)[1][3] = h
<1> DEFINE a == Field("type", 4, "IHDR")
           b == Field("width", 4, w)
           c == Field("height", 4, h)
           d == Field("rest", 5, 0)
<1>1. Long(a, 4) /\ Long(b, 4) /\ Long(c, 4) /\ Long(d, 5)
  BY FieldLong
<1>2. HeaderBody(w, h) = ((a \o b) \o c) \o d
  BY DEF HeaderBody
<1>3. ASSUME NEW off \in Nat, NEW e, NEW k \in Nat, Long(e, k), HasAt(all, off, e), k >= 1
      PROVE fread(1, off)[1] = e[1]
  <2>1. fread(1, off)[1] = all[off + 1]
    <3>1. (off + 1) + 1 - 1 = off + 1
      OBVIOUS
    <3> QED BY <3>1 DEF fread
  <2>2. all[off + 1] = e[1]
    BY <1>3 DEF HasAt, Long
  <2> QED BY <2>1, <2>2
<1>4. b[1] = <<"width", 1, w>> /\ c[1] = <<"height", 1, h>>
  BY DEF Field
<1> HIDE DEF a, b, c, d
<1>5. Long(a \o b, 8)
  <2>1. Long(a \o b, 4 + 4) /\ 4 + 4 = 8
    BY <1>1, JoinedLong
  <2> QED BY <2>1
<1>6. Long((a \o b) \o c, 12)
  <2>1. Long((a \o b) \o c, 8 + 4) /\ 8 + 4 = 12
    BY <1>1, <1>5, JoinedLong
  <2> QED BY <2>1
<1>7. HasAt(all, 16, b) /\ HasAt(all, 20, c)
  <2>1. HasAt(all, 12, ((a \o b) \o c) \o d)
    BY <1>2 DEF Header
  <2>2. HasAt(all, 12, (a \o b) \o c)
    BY <1>1, <1>6, <2>1, BothLong
  <2>3. HasAt(all, 12, a \o b) /\ HasAt(all, 20, c)
    <3>1. HasAt(all, 12, a \o b) /\ HasAt(all, 12 + 8, c) /\ 12 + 8 = 20
      BY <1>1, <1>5, <2>2, BothLong
    <3> QED BY <3>1
  <2>4. HasAt(all, 16, b)
    <3>1. HasAt(all, 12 + 4, b) /\ 12 + 4 = 16
      BY <1>1, <2>3, BothLong
    <3> QED BY <3>1
  <2> QED BY <2>3, <2>4
<1>8. fread(8, 0) = Field("signature", 8, 0)
  BY FieldLong, freadIs DEF Header
<1>9. ASSUME HasAt(all, 16, b), HasAt(all, 20, c)
      PROVE fread(1, 16)[1] = b[1] /\ fread(1, 20)[1] = c[1]
  <2>1. 4 >= 1 /\ 4 \in Nat /\ 16 \in Nat /\ 20 \in Nat
    OBVIOUS
  <2>2. fread(1, 16)[1] = b[1]
    BY <1>1, <1>3, <1>9, <2>1
  <2>3. fread(1, 20)[1] = c[1]
    BY <1>1, <1>3, <1>9, <2>1
  <2> QED BY <2>2, <2>3
<1> QED BY <1>4, <1>7, <1>8, <1>9

(* Reading leaves the images as they are.                                  *)
LEMMA ReadKeeps ==
    ASSUME Chunks, First, pc \notin Writing \cup {"IEND"}, pc' \notin Writing \cup {"IEND"},
           UNCHANGED <<all, made>>
    PROVE (Chunks /\ First)'
<1>1. /\ pc \notin Writing /\ pc # "IEND" /\ pc' \notin Writing /\ pc' # "IEND"
      /\ pc' # "IHDR crc" /\ pc' # "IDAT" /\ pc' # "IDAT crc" /\ pc # "IHDR crc"
  BY DEF Writing
<1>2. Chunks'
  BY <1>1 DEF Chunks
<1>3. First'
  BY <1>1 DEF First
<1> QED BY <1>2, <1>3

LEMMA pnginfoKeeps ==
    ASSUME IInv, pnginfo
    PROVE IInv'
<1> DEFINE w == made[1].files[1].width
           h == Heights(made[1].files)
<1>1. Types /\ Loops /\ Chunks /\ First /\ Walk
  BY DEF IInv
<1>2. pc = "idle" /\ all # <<>> /\ pc \notin Writing \cup {"IEND"}
  BY DEF pnginfo, Writing
<1>3. made # <<>>
  BY <1>1, <1>2 DEF Chunks
<1>4. Header(all, w, h) /\ Len(all) \in Nat /\ Len(all) >= 33
  BY <1>1, <1>2, <1>3, FirstRead
<1>5. fread(8, 0) = Field("signature", 8, 0) /\ fread(1, 16)[1][3] = w /\ fread(1, 20)[1][3] = h
  BY <1>1, <1>4, HeaderRead DEF Types
<1>6. /\ pc' = "info IHDR" /\ pos' = 8 /\ answer' = [says |-> "dimensions", of |-> <<w, h>>]
      /\ UNCHANGED <<files, i, all, IDAT_length, made>>
      /\ UNCHANGED <<height, uncompressed_length, prev_data_size, buffer>>
  BY <1>5 DEF pnginfo, image
<1>7. Types'
  <2>1. 8 \in 0 .. Len(all)
    BY <1>4
  <2> QED BY <1>1, <1>6, <2>1 DEF Types, Info, Work
<1>8. Loops'
  BY <1>1, <1>6, LoopsKept
<1>9. (Chunks /\ First)'
  <2>1. pc' \notin Writing \cup {"IEND"} /\ UNCHANGED <<all, made>>
    BY <1>6 DEF Writing
  <2> QED BY <1>1, <1>2, <2>1, ReadKeeps
<1>10. Walk'
  BY <1>1, <1>3, <1>6 DEF Walk, Info
<1> QED BY <1>7, <1>8, <1>9, <1>10 DEF IInv

(* pnginfo changes only its own place in all.png.                          *)
LEMMA InfoKeeps ==
    ASSUME IInv, pc \in Info, pc' \in Info \cup {"idle"}, pos' \in 0 .. Len(all),
           UNCHANGED <<files, i, all, IDAT_length, made, answer>>, UNCHANGED image,
           pc' = "info IHDR" => pos' = 8,
           pc' = "info IDAT" => pos' \in {33, 45 + made[1].deflated},
           pc' = "info IEND" => pos' = Len(all) - 12
    PROVE IInv'
<1>1. Types /\ Loops /\ Chunks /\ First /\ Walk
  BY DEF IInv
<1>2. /\ pc \notin Writing /\ pc # "IEND" /\ pc' \notin Writing /\ pc' # "IEND"
      /\ pc' \notin Work /\ pc' \notin {"measure", "inflate", "IHDR"}
  BY DEF Writing, Info, Work
<1>3. Types'
  <2> HIDE DEF Work, Info
  <2> QED BY <1>1, <1>2 DEF Types, image
<1>4. Loops'
  BY <1>1, <1>2, LoopsKept DEF image
<1>5. (Chunks /\ First)'
  BY <1>1, <1>2, ReadKeeps
<1>6. Walk'
  BY <1>1 DEF Walk
<1> QED BY <1>3, <1>4, <1>5, <1>6 DEF IInv

LEMMA InfoIHDRKeeps ==
    ASSUME IInv, InfoIHDR
    PROVE IInv'
<1> DEFINE w == made[1].files[1].width
           h == Heights(made[1].files)
<1>1. Types /\ Loops /\ Chunks /\ First /\ Walk
  BY DEF IInv
<1>2. pc = "info IHDR" /\ pc \in Info /\ pc \notin Writing \cup {"IEND"}
  BY DEF InfoIHDR, crc_check, Info, Writing
<1>3. made # <<>> /\ pos = 8
  BY <1>1, <1>2 DEF Walk
<1>4. Header(all, w, h) /\ HeaderCrc(all, w, h) /\ Len(all) \in Nat /\ Len(all) >= 33
  BY <1>1, <1>2, <1>3, FirstRead
<1>5. Length(8) = 13 /\ CrcMatches(8)
  <2> HIDE DEF w, h
  <2>1. /\ HasAt(all, 8, Field("length", 4, 13)) /\ HasAt(all, 12, HeaderBody(w, h))
        /\ HasAt(all, 29, crc(HeaderBody(w, h))) /\ Long(HeaderBody(w, h), 17)
    BY <1>4, BodyLong DEF Header, HeaderCrc
  <2>2. 8 + 4 = 12 /\ 8 + 8 + 13 = 29 /\ 4 + 13 = 17
    OBVIOUS
  <2> QED BY <2>1, <2>2, CrcIs
<1>6. /\ pc' = "info IDAT" /\ pos' = 33
      /\ UNCHANGED <<files, i, all, IDAT_length, made, answer>> /\ UNCHANGED image
  <2>1. /\ pc' = "info IDAT" /\ pos' = pos + 12 + Length(pos) /\ UNCHANGED answer
        /\ UNCHANGED <<files, i, image, all, IDAT_length, made>>
    <3>1. Length(pos) # 0 /\ CrcMatches(pos)
      BY <1>3, <1>5
    <3> QED BY <3>1 DEF InfoIHDR, crc_check
  <2>2. 8 + 12 + 13 = 33
    OBVIOUS
  <2> QED BY <1>3, <1>5, <2>1, <2>2
<1>7. pos' \in 0 .. Len(all)
  <2> DEFINE size == Len(all)
  <2>1. size \in Nat /\ size >= 33
    BY <1>4
  <2> HIDE DEF size
  <2>2. 33 \in 0 .. size
    BY <2>1
  <2> QED BY <1>6, <2>2 DEF size
<1> QED BY <1>2, <1>6, <1>7, InfoKeeps DEF Info

LEMMA InfoIDATKeeps ==
    ASSUME IInv, InfoIDAT
    PROVE IInv'
<1> DEFINE d == made[1].deflated
<1>1. Types /\ Loops /\ Chunks /\ First /\ Walk
  BY DEF IInv
<1>2. pc = "info IDAT" /\ pc \in Info /\ pc \notin Writing \cup {"IEND"}
  BY DEF InfoIDAT, crc_check, Info, Writing
<1>3. made # <<>> /\ pos \in {33, 45 + d}
  BY <1>1, <1>2 DEF Walk
<1>4. /\ d \in Nat /\ d # 0 /\ Data(all, 0, d, 1) /\ DataCrc(all, 0, d, 1) /\ End(all, 45 + d)
      /\ Len(all) \in Nat /\ Len(all) >= 33 /\ Len(all) >= 57 + d
  BY <1>1, <1>2, <1>3, FirstRead
<1> HIDE DEF d
<1>7. 45 + d \in 0 .. Len(all) /\ Len(all) - 12 \in 0 .. Len(all)
  <2> DEFINE size == Len(all)
  <2>1. size \in Nat /\ size >= 57 + d
    BY <1>4
  <2> HIDE DEF size
  <2>2. 45 + d \in 0 .. size /\ size - 12 \in 0 .. size
    BY <1>4, <2>1
  <2> QED BY <2>2 DEF size
<1>5. CASE pos = 33
  <2>1. Length(33) = d /\ CrcMatches(33)
    <3>1. /\ HasAt(all, 0 + 33, Field("length", 4, d)) /\ HasAt(all, 0 + 37, DataBody(d, 1))
          /\ HasAt(all, 0 + 41 + d, crc(DataBody(d, 1))) /\ Long(DataBody(d, 1), 4 + d)
      BY <1>4, BodyLong DEF Data, DataCrc
    <3>2. 0 + 33 = 33 /\ 0 + 37 = 33 + 4 /\ 0 + 41 + d = 33 + 8 + d
      BY <1>4
    <3> QED BY <1>4, <3>1, <3>2, CrcIs
  <2>2. /\ pc' = "info IDAT" /\ pos' = 33 + 12 + d
        /\ UNCHANGED <<files, i, all, IDAT_length, made, answer>> /\ UNCHANGED image
    BY <1>4, <1>5, <2>1 DEF InfoIDAT, crc_check
  <2>3. pos' = 45 + d /\ pos' \in 0 .. Len(all)
    <3>1. 33 + 12 + d = 45 + d
      BY <1>4
    <3> QED BY <1>7, <2>2, <3>1
  <2> QED BY <1>2, <2>2, <2>3, InfoKeeps DEF Info, d
<1>6. CASE pos = 45 + d
  <2>1. Length(pos) = 0
    BY <1>4, <1>6, LengthIs DEF End
  <2>2. /\ pc' = "info IEND" /\ pos' = Len(all) - 12
        /\ UNCHANGED <<files, i, all, IDAT_length, made, answer>> /\ UNCHANGED image
    BY <2>1 DEF InfoIDAT, crc_check
  <2>3. pos' \in 0 .. Len(all)
    BY <1>7, <2>2
  <2> QED BY <1>2, <2>2, <2>3, InfoKeeps DEF Info
<1> QED BY <1>3, <1>5, <1>6

LEMMA InfoIENDKeeps ==
    ASSUME IInv, InfoIEND
    PROVE IInv'
<1> DEFINE at == Len(all) - 12
<1>1. Types /\ Loops /\ Chunks /\ First /\ Walk
  BY DEF IInv
<1>2. pc = "info IEND" /\ pc \in Info /\ pc \notin Writing \cup {"IEND"}
  BY DEF InfoIEND, crc_check, Info, Writing
<1>3. made # <<>> /\ pos = at
  BY <1>1, <1>2 DEF Walk
<1>4. End(all, at) /\ Len(all) \in Nat /\ Len(all) >= 33
  BY <1>1, <1>2, <1>3, FirstRead
<1>5. at \in Nat /\ at + 12 = Len(all)
  BY <1>4
<1> HIDE DEF at
<1>6. Length(at) = 0 /\ CrcMatches(at)
  <2>1. /\ HasAt(all, at, Field("length", 4, 0)) /\ HasAt(all, at + 4, EndBody)
        /\ HasAt(all, at + 8, crc(EndBody)) /\ Long(EndBody, 4)
    BY <1>4, BodyLong DEF End
  <2>2. at + 8 + 0 = at + 8 /\ 4 + 0 = 4
    BY <1>5
  <2> QED BY <1>5, <2>1, <2>2, CrcIs
<1>7. /\ pc' = "idle" /\ pos' = at + 12 + 0
      /\ UNCHANGED <<files, i, all, IDAT_length, made, answer>> /\ UNCHANGED image
  BY <1>3, <1>6 DEF InfoIEND, crc_check
<1>8. pos' \in 0 .. Len(all)
  BY <1>4, <1>5, <1>7
<1> QED BY <1>2, <1>7, <1>8, InfoKeeps DEF Info

-----------------------------------------------------------------------------
(* The invariant is inductive.                                             *)

LEMMA Initial == Init => IInv
<1> SUFFICES ASSUME Init PROVE IInv
  OBVIOUS
<1>1. /\ pc = "idle" /\ files = <<>> /\ i = 1
      /\ height = 0 /\ uncompressed_length = 0 /\ prev_data_size = 0
      /\ buffer = <<>> /\ all = <<>> /\ pos = 0 /\ IDAT_length = 0
      /\ made = <<>> /\ answer = [says |-> "nothing", of |-> <<>>]
  BY DEF Init
<1>2. /\ files \in Seq(Pictures) /\ Len(files) = 0
      /\ made \in Seq(Images) /\ Len(made) = 0 /\ IsBytes(all) /\ Len(all) = 0
  BY <1>1, EmptySeq DEF IsBytes
<1>3. Types
  BY <1>1, <1>2, BoundAssumption DEF Types, Work
<1>4. Loops
  BY <1>1 DEF Loops
<1>5. Chunks
  BY <1>1, <1>2 DEF Chunks, Writing
<1>6. First
  BY <1>1 DEF First
<1>7. Walk
  BY <1>1 DEF Walk, Info
<1> QED BY <1>3, <1>4, <1>5, <1>6, <1>7 DEF IInv

LEMMA Preserved == IInv /\ [Next]_vars => IInv'
<1> SUFFICES ASSUME IInv, [Next]_vars PROVE IInv'
  OBVIOUS
<1>1. CASE \E k \in 1 .. MaxArgs : \E args \in [1 .. k -> Pictures] : catpng(args)
  BY <1>1, catpngKeeps
<1>2. CASE Measure
  BY <1>2, MeasureKeeps
<1>3. CASE Inflate
  BY <1>3, InflateKeeps
<1>4. CASE WriteIHDR
  BY <1>4, WriteIHDRKeeps
<1>5. CASE WriteIHDRCrc
  BY <1>5, WriteIHDRCrcKeeps
<1>6. CASE \E n \in Deflated : WriteIDAT(n)
  BY <1>6, WriteIDATKeeps
<1>7. CASE WriteIDATCrc
  BY <1>7, WriteIDATCrcKeeps
<1>8. CASE WriteIEND
  BY <1>8, WriteIENDKeeps
<1>9. CASE pnginfo
  BY <1>9, pnginfoKeeps
<1>10. CASE InfoIHDR
  BY <1>10, InfoIHDRKeeps
<1>11. CASE InfoIDAT
  BY <1>11, InfoIDATKeeps
<1>12. CASE InfoIEND
  BY <1>12, InfoIENDKeeps
<1>14. CASE Overrun
  BY <1>14, OverrunKeeps
<1>13. CASE UNCHANGED vars
  <2>1. /\ UNCHANGED <<pc, files, i, height, uncompressed_length, prev_data_size, buffer>>
        /\ UNCHANGED <<all, pos, IDAT_length, made, answer>>
    BY <1>13 DEF vars
  <2>2. Types /\ Loops /\ Chunks /\ First /\ Walk
    BY DEF IInv
  <2>3. Types'
    BY <2>1, <2>2 DEF Types
  <2>4. Loops'
    BY <2>1, <2>2 DEF Loops
  <2>5. Chunks'
    BY <2>1, <2>2 DEF Chunks, Last
  <2>6. First'
    BY <2>1, <2>2 DEF First
  <2>7. Walk'
    BY <2>1, <2>2 DEF Walk
  <2> QED BY <2>3, <2>4, <2>5, <2>6, <2>7 DEF IInv
<1> QED BY <1>1, <1>2, <1>3, <1>4, <1>5, <1>6, <1>7, <1>8, <1>9, <1>10, <1>11, <1>12, <1>13, <1>14 DEF Next

LEMMA Invariant == Spec => []IInv
BY Initial, Preserved, PTL DEF Spec

-----------------------------------------------------------------------------
(* The theorems *)

(* Every variable of catpng and pnginfo stays in its type: what the second *)
(* loop puts into the buffer of all files fits, once mem_inf has kept to   *)
(* the buffer of each one, and no position leaves all.png.                 *)
THEOREM TypeCorrect == Spec => []TypeOK
<1>1. IInv => TypeOK
  <2> SUFFICES ASSUME IInv PROVE TypeOK
    OBVIOUS
  <2>1. Types /\ Loops /\ Walk
    BY DEF IInv
  <2>2. Len(buffer) \in {0, uncompressed_length}
    <3>1. buffer = <<>> \/ Len(buffer) = uncompressed_length
      BY <2>1 DEF Loops, Long
    <3> QED BY <3>1, EmptySeq
  <2>3. prev_data_size \in 0 .. uncompressed_length
    BY <2>1 DEF Types, Loops
  <2> QED BY <2>1, <2>2, <2>3 DEF Types, Walk, TypeOK, Work, Info
<1> QED BY <1>1, Invariant, PTL

(* catpng's second loop puts every file up to the first short one where    *)
(* the headers before it say, and all that mem_inf copied of it is there   *)
(* when all.png is written: no later file is laid over it.                 *)
THEOREM StripsStayInPlace == Spec => []StripsInPlace
<1>1. IInv => StripsInPlace
  <2> SUFFICES ASSUME IInv, pc = "IHDR", NEW k \in DOMAIN files,
                      \A j \in 1 .. k - 1 : ~CutsShort(files[j]),
                      NEW b \in 1 .. Result(files[k]).copied
               PROVE buffer[Before(k) + b] = [of |-> {files[k]}, at |-> b]
    BY DEF StripsInPlace
  <2>1. Placed(files, buffer, prev_data_size, Len(files)) /\ files \in Seq(Pictures)
    BY DEF IInv, Loops, Types
  <2>2. k \in 1 .. Len(files)
    BY <2>1, LenProperties
  <2>3. InPlace(files, buffer, prev_data_size, k)
    BY <2>1, <2>2 DEF Placed, NoneShort
  <2>4. Before(k) = SizesTo(files, k - 1)
    BY DEF Before, SizesTo
  <2> QED BY <2>3, <2>4 DEF InPlace
<1> QED BY <1>1, Invariant, PTL

(* Every image that catpng has appended to all.png, whatever was there     *)
(* before, has an IDAT chunk of all that deflate made, with its own length *)
(* and CRC, and keeps it through all later runs.                           *)
THEOREM IDATStaysSound == Spec => []IDATSound
<1>1. IInv => IDATSound
  <2> SUFFICES ASSUME IInv, NEW m \in DOMAIN made, pc = "idle"
               PROVE /\ Sound(made[m].start + 33)
                     /\ fread(4 + made[m].deflated, made[m].start + 37) =
                           DataBody(made[m].deflated, m)
    BY DEF IDATSound, DataBody
  <2> DEFINE st == made[m].start
             d == made[m].deflated
  <2>1. Types /\ Chunks
    BY DEF IInv
  <2>2. m \in 1 .. Len(made)
    BY <2>1, LenProperties DEF Types
  <2>3. st \in Nat /\ d \in Nat
    BY <2>1, <2>2, MadeFacts
  <2>4. Complete(all, made[m], m)
    BY <2>1, <2>2 DEF Chunks, Writing
  <2>5. Data(all, st, d, m) /\ DataCrc(all, st, d, m)
    BY <2>4 DEF Complete
  <2> HIDE DEF st, d
  <2>6. /\ HasAt(all, st + 33, Field("length", 4, d)) /\ HasAt(all, st + 37, DataBody(d, m))
        /\ HasAt(all, st + 41 + d, crc(DataBody(d, m))) /\ Long(DataBody(d, m), 4 + d)
    BY <2>3, <2>5, BodyLong DEF Data, DataCrc
  <2>7. /\ st + 33 \in Nat /\ st + 37 \in Nat /\ (st + 33) + 4 = st + 37
        /\ (st + 33) + 8 + d = st + 41 + d
    BY <2>3
  <2>8. Length(st + 33) = d /\ CrcMatches(st + 33)
    BY <2>3, <2>6, <2>7, CrcIs
  <2>9. fread(4 + d, st + 37) = DataBody(d, m)
    BY <2>6, <2>7, freadIs
  <2>10. Sound(st + 33)
    BY <2>3, <2>8 DEF Sound
  <2> QED BY <2>9, <2>10 DEF st, d
<1> QED BY <1>1, Invariant, PTL

(* pnginfo finds nothing wrong with all.png after any number of runs of    *)
(* catpng: it prints the first image's dimensions, walks through its two   *)
(* chunks, and comes to a sound IEND at the end of the file.               *)
THEOREM PnginfoFindsNoError == Spec => []PnginfoAccepts
<1>1. IInv => PnginfoAccepts
  BY DEF IInv, Walk, PnginfoAccepts
<1> QED BY <1>1, Invariant, PTL
=============================================================================
