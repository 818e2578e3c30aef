---------------------------- MODULE FindpngProofs ----------------------------
(***************************************************************************)
(* findpng visits every directory once and looks at every file once, for   *)
(* every tree, every number of descriptors and whatever may not be opened. *)
(***************************************************************************)
EXTENDS Findpng, Counting, SequenceTheorems

Frames == [dir : Dirs, left : SUBSET (Dirs \cup Files), png_count : Nat]
Pngs == Of({"png", "text", "blank"})

(* A stack of calls: what they have left, and their directories.           *)
LeftIn(cs) == UNION {cs[k].left : k \in 1 .. Len(cs)}
DirsIn(cs) == {cs[k].dir : k \in 1 .. Len(cs)}
StackOK(cs) ==
    /\ cs \in Seq(Frames)
    /\ \A k \in 1 .. Len(cs) : cs[k].left \subseteq Holds[cs[k].dir]
    /\ \A j, k \in 1 .. Len(cs) : cs[j].dir = cs[k].dir => j = k

(* v is the sum of their counts: f has the sums of the first k.            *)
Sums(cs, f) == /\ f \in [0 .. Len(cs) -> Nat] /\ f[0] = 0
               /\ \A k \in 1 .. Len(cs) : f[k] = f[k - 1] + cs[k].png_count
SumsTo(cs, v) == \E f : Sums(cs, f) /\ f[Len(cs)] = v /\ \A k \in 0 .. Len(cs) : f[k] <= v

(* U are the directories that no call was made for: those that the calls   *)
(* in A have left in L, and all below them.  What is left or lies in U has *)
(* not been opened, and every other file was, if it has the name.          *)
Fresh(U, L, A, o) ==
    /\ U \subseteq Dirs \ {Root} /\ U \cap A = {}
    /\ \A d \in U : Holds[d] \cap Dirs \subseteq U /\ Holds[d] \cap o = {}
    /\ L \cap Dirs \subseteq U /\ L \cap o = {}
    /\ \A d \in Dirs \ U : /\ Holds[d] \cap U \subseteq L
                           /\ Holds[d] \cap Pngs \subseteq L \cup o

Opened ==
    /\ open \subseteq Pngs /\ InUse <= descriptors
    /\ Printed \subseteq open /\ open \cap Of({"png"}) \subseteq Printed
    /\ Printed \subseteq Of({"png", "blank"})
    /\ printed \in Seq(Files) /\ Len(printed) = Cardinality(Printed)
World ==
    /\ descriptors \in Nat \ {0} /\ unreadable \subseteq Dirs \cup Files
    /\ result \in {"searching", "done", "exit"}
    /\ result # "exit" => calls # <<>>
    /\ result = "done" => LeftIn(calls) = {}
Visits ==
    calls # <<>> => \E U : Fresh(U, LeftIn(calls), DirsIn(calls), open)

IInv == World /\ StackOK(calls) /\ Visits /\ Opened /\ SumsTo(calls, Len(printed)) /\ GivenUpForCause

-----------------------------------------------------------------------------
(* What the steps do to a stack.                                           *)

(* The innermost call takes x.                                             *)
Takes(cs, n, t, x, ds) ==
    /\ StackOK(cs) /\ n = Len(cs) /\ n >= 1
    /\ t \in Frames /\ x \in cs[n].left /\ t.dir = cs[n].dir /\ t.left = cs[n].left \ {x}
    /\ ds = [cs EXCEPT ![n] = t]

LEMMA TakeFrame ==
    ASSUME IsTree, NEW cs, NEW n, NEW t, NEW x, NEW ds, Takes(cs, n, t, x, ds)
    PROVE /\ StackOK(ds) /\ Len(ds) = n /\ DirsIn(ds) = DirsIn(cs)
          /\ LeftIn(ds) = LeftIn(cs) \ {x} /\ x \in LeftIn(cs) /\ x \in Holds[cs[n].dir]
          /\ cs[n].dir \in DirsIn(cs)
<1>0. /\ StackOK(cs) /\ n = Len(cs) /\ n >= 1
      /\ t \in Frames /\ x \in cs[n].left /\ t.dir = cs[n].dir /\ t.left = cs[n].left \ {x}
      /\ ds = [cs EXCEPT ![n] = t]
  BY DEF Takes
<1>1. cs \in Seq(Frames) /\ n \in Nat
  BY <1>0 DEF StackOK
<1>2. /\ ds \in Seq(Frames) /\ Len(ds) = n /\ ds[n] = t
      /\ \A k \in 1 .. n : k # n => ds[k] = cs[k]
  BY <1>0, <1>1
<1>3. \A k \in 1 .. n : ds[k].dir = cs[k].dir
  BY <1>0, <1>2
<1>4. x \in Holds[cs[n].dir] /\ n \in 1 .. n
  BY <1>0, <1>1 DEF StackOK
<1>5. \A k \in 1 .. n : cs[k].dir \in Dirs
  <2>1. \A k \in 1 .. n : cs[k] \in Frames
    BY <1>0, <1>1, ElementOfSeq
  <2> QED BY <2>1 DEF Frames
<1>6. \A k \in 1 .. n : k # n => x \notin cs[k].left
  <2> SUFFICES ASSUME NEW k \in 1 .. n, k # n PROVE x \notin cs[k].left
    OBVIOUS
  <2>1. cs[k].dir # cs[n].dir
    BY <1>0, <1>4 DEF StackOK
  <2>2. Holds[cs[k].dir] \cap Holds[cs[n].dir] = {}
    BY <1>4, <1>5, <2>1 DEF IsTree
  <2> QED BY <1>0, <1>4, <2>2 DEF StackOK
<1>7. StackOK(ds)
  BY <1>0, <1>2, <1>3 DEF StackOK
<1>8. \A y : y \in LeftIn(ds) <=> y \in LeftIn(cs) /\ y # x
  BY <1>0, <1>2, <1>4, <1>6 DEF LeftIn
<1>9. x \in LeftIn(cs)
  BY <1>0, <1>4 DEF LeftIn
<1>10. DirsIn(ds) = DirsIn(cs) /\ cs[n].dir \in DirsIn(cs)
  BY <1>0, <1>2, <1>3, <1>4 DEF DirsIn
<1> QED BY <1>2, <1>4, <1>7, <1>8, <1>9, <1>10

(* A call of search_dir, and a return of one.                              *)
Pushes(cs, t, ds) ==
    /\ StackOK(cs) /\ t \in Frames /\ t.left \subseteq Holds[t.dir] /\ t.dir \notin DirsIn(cs)
    /\ ds = Append(cs, t)
Pops(cs, n, g, ds) ==
    /\ StackOK(cs) /\ n = Len(cs) /\ n > 1 /\ g \in Nat /\ cs[n].left = {}
    /\ ds = [SubSeq(cs, 1, n - 1) EXCEPT ![n - 1].png_count = @ + g]

LEMMA PushFrame ==
    ASSUME NEW cs, NEW t, NEW ds, Pushes(cs, t, ds)
    PROVE /\ StackOK(ds) /\ Len(ds) = Len(cs) + 1 /\ DirsIn(ds) = DirsIn(cs) \cup {t.dir}
          /\ LeftIn(ds) = LeftIn(cs) \cup t.left
          /\ \A k \in 1 .. Len(cs) : ds[k] = cs[k]
          /\ ds[Len(cs) + 1] = t
<1>0. /\ StackOK(cs) /\ t \in Frames /\ t.left \subseteq Holds[t.dir] /\ t.dir \notin DirsIn(cs)
      /\ ds = Append(cs, t)
  BY DEF Pushes
<1>1. cs \in Seq(Frames) /\ Len(cs) \in Nat
  BY <1>0 DEF StackOK
<1> DEFINE n == Len(cs) + 1
<1>2. /\ ds \in Seq(Frames) /\ Len(ds) = n /\ ds[n] = t
      /\ \A k \in 1 .. Len(cs) : ds[k] = cs[k]
  BY <1>0, <1>1
<1>3. \A k \in 1 .. n : k \in 1 .. Len(cs) \/ k = n
  BY <1>1
<1>4. n \in 1 .. n /\ n \notin 1 .. Len(cs) /\ 1 .. Len(cs) \subseteq 1 .. n
  BY <1>1
<1> HIDE DEF n
<1>5. \A k \in 1 .. Len(cs) : cs[k].dir # t.dir
  BY <1>0 DEF DirsIn
<1>6. \A k \in 1 .. n : ds[k].left \subseteq Holds[ds[k].dir]
  BY <1>0, <1>2, <1>3 DEF StackOK
<1>7. ASSUME NEW j \in 1 .. n, NEW k \in 1 .. n, ds[j].dir = ds[k].dir PROVE j = k
  BY <1>0, <1>2, <1>3, <1>5, <1>7 DEF StackOK
<1>8. StackOK(ds)
  BY <1>2, <1>6, <1>7 DEF StackOK
<1>9. \A y : y \in LeftIn(ds) <=> y \in LeftIn(cs) \cup t.left
  BY <1>2, <1>3, <1>4 DEF LeftIn
<1>10. \A y : y \in DirsIn(ds) <=> y \in DirsIn(cs) \cup {t.dir}
  BY <1>2, <1>3, <1>4 DEF DirsIn
<1> QED BY <1>2, <1>8, <1>9, <1>10 DEF n

LEMMA PopFrame ==
    ASSUME NEW cs, NEW n, NEW g, NEW ds, Pops(cs, n, g, ds)
    PROVE /\ StackOK(ds) /\ Len(ds) = n - 1 /\ DirsIn(ds) \subseteq DirsIn(cs)
          /\ LeftIn(ds) = LeftIn(cs)
          /\ \A k \in 1 .. n - 2 : ds[k] = cs[k]
          /\ ds[n - 1].png_count = cs[n - 1].png_count + g
<1>0. /\ StackOK(cs) /\ n = Len(cs) /\ n > 1 /\ g \in Nat /\ cs[n].left = {}
      /\ ds = [SubSeq(cs, 1, n - 1) EXCEPT ![n - 1].png_count = @ + g]
  BY DEF Pops
<1>1. cs \in Seq(Frames) /\ n \in Nat /\ n - 1 \in Nat /\ n - 1 \in 1 .. n - 1
  BY <1>0 DEF StackOK
<1> DEFINE m == n - 1
           es == SubSeq(cs, 1, m)
<1>2. es \in Seq(Frames) /\ Len(es) = m /\ \A k \in 1 .. m : es[k] = cs[k]
  BY <1>0, <1>1
<1>3. cs[m] \in Frames /\ \A k \in 1 .. n : k \in 1 .. m \/ k = n
  BY <1>0, <1>1
<1> HIDE DEF m, es
<1>4. m \in 1 .. m
  BY <1>0, <1>1 DEF m
<1>5. ds = [es EXCEPT ![m].png_count = @ + g]
  BY <1>0 DEF m, es
<1>6. /\ Len(ds) = m /\ \A k \in 1 .. m : k # m => ds[k] = cs[k]
      /\ ds[m] = [cs[m] EXCEPT !.png_count = @ + g]
  BY <1>2, <1>4, <1>5
<1>7. ds[m] \in Frames /\ ds[m].left = cs[m].left /\ ds[m].dir = cs[m].dir
      /\ ds[m].png_count = cs[m].png_count + g
  <2>1. g \in Nat
    BY <1>0
  <2> QED BY <1>3, <1>6, <2>1 DEF Frames
<1>8. ds \in Seq(Frames)
  <2>1. ds = [es EXCEPT ![m] = ds[m]]
    BY <1>2, <1>4, <1>5
  <2>2. [es EXCEPT ![m] = ds[m]] \in Seq(Frames)
    BY <1>2, <1>4, <1>7, ExceptSeq
  <2> QED BY <2>1, <2>2
<1>9. \A k \in 1 .. m : ds[k].left = cs[k].left /\ ds[k].dir = cs[k].dir
  BY <1>6, <1>7
<1>10. 1 .. m \subseteq 1 .. n
  BY <1>0, <1>1 DEF m
<1>11. StackOK(ds)
  BY <1>0, <1>6, <1>8, <1>9, <1>10 DEF StackOK
<1>12. \A y : y \in LeftIn(ds) <=> y \in LeftIn(cs)
  BY <1>0, <1>3, <1>6, <1>9, <1>10 DEF LeftIn
<1>13. DirsIn(ds) \subseteq DirsIn(cs)
  BY <1>0, <1>6, <1>9, <1>10 DEF DirsIn
<1>14. \A k \in 1 .. n - 2 : k \in 1 .. m /\ k # m
  BY <1>0, <1>1 DEF m
<1> QED BY <1>6, <1>7, <1>11, <1>12, <1>13, <1>14 DEF m

-----------------------------------------------------------------------------
(* What they do to the directories not visited yet.                        *)

LEMMA FreshFile ==
    ASSUME IsTree, NEW U, NEW L, NEW A, NEW o, Fresh(U, L, A, o),
           NEW e \in Dirs, e \in A, NEW x \in Files, x \in L, x \in Holds[e]
    PROVE /\ x \notin Pngs => Fresh(U, L \ {x}, A, o)
          /\ x \in Pngs => Fresh(U, L \ {x}, A, o \cup {x})
<1>1. x \notin Dirs
  BY DEF IsTree
<1>2. e \notin U
  BY DEF Fresh
<1>3. \A d \in U : x \notin Holds[d]
  BY <1>2 DEF IsTree, Fresh
<1>4. U \subseteq Dirs
  BY DEF Fresh
<1>5. ASSUME x \notin Pngs PROVE Fresh(U, L \ {x}, A, o)
  BY <1>1, <1>4, <1>5 DEF Fresh
<1>6. ASSUME x \in Pngs PROVE Fresh(U, L \ {x}, A, o \cup {x})
  <2>1. (L \ {x}) \cap (o \cup {x}) = {}
    BY DEF Fresh
  <2>2. \A d \in U : Holds[d] \cap (o \cup {x}) = {}
    BY <1>3 DEF Fresh
  <2>3. \A d \in Dirs \ U : /\ Holds[d] \cap U \subseteq L \ {x}
                            /\ Holds[d] \cap Pngs \subseteq (L \ {x}) \cup (o \cup {x})
    BY <1>1, <1>4 DEF Fresh
  <2> QED BY <2>1, <2>2, <2>3 DEF Fresh
<1> QED BY <1>5, <1>6

LEMMA FreshDir ==
    ASSUME IsTree, NEW U, NEW L, NEW A, NEW o, Fresh(U, L, A, o),
           NEW e \in Dirs, e \in A, NEW x \in Dirs, x \in L, x \in Holds[e]
    PROVE x \notin A /\ Fresh(U \ {x}, (L \ {x}) \cup Holds[x], A \cup {x}, o)
<1>1. x \in U /\ e \notin U /\ e # x
  BY DEF Fresh
<1>2. \A d \in Dirs : d # e => x \notin Holds[d]
  BY DEF IsTree
<1>3. x \notin Holds[x]
  BY <1>1, <1>2
<1>4. Holds[x] \cap Dirs \subseteq U \ {x} /\ Holds[x] \cap o = {}
  BY <1>1, <1>3 DEF Fresh
<1>5. U \ {x} \subseteq Dirs \ {Root} /\ (U \ {x}) \cap (A \cup {x}) = {} /\ x \notin A
  BY <1>1 DEF Fresh
<1>6. \A d \in U \ {x} : Holds[d] \cap Dirs \subseteq U \ {x} /\ Holds[d] \cap o = {}
  BY <1>1, <1>2 DEF Fresh
<1>7. /\ ((L \ {x}) \cup Holds[x]) \cap Dirs \subseteq U \ {x}
      /\ ((L \ {x}) \cup Holds[x]) \cap o = {}
  BY <1>4 DEF Fresh
<1>8. ASSUME NEW d \in Dirs \ (U \ {x})
      PROVE /\ Holds[d] \cap (U \ {x}) \subseteq (L \ {x}) \cup Holds[x]
            /\ Holds[d] \cap Pngs \subseteq ((L \ {x}) \cup Holds[x]) \cup o
  <2>1. CASE d = x
    BY <2>1
  <2>2. CASE d # x
    <3>1. x \notin Pngs
      BY DEF Pngs, Of, IsTree
    <3>2. d \in Dirs \ U
      BY <1>8, <2>2
    <3>3. Holds[d] \cap U \subseteq L /\ Holds[d] \cap Pngs \subseteq L \cup o
      BY <3>2 DEF Fresh
    <3> QED BY <3>1, <3>3
  <2> QED BY <2>1, <2>2
<1> QED BY <1>5, <1>6, <1>7, <1>8 DEF Fresh

-----------------------------------------------------------------------------
(* What they do to the counts.                                             *)

LEMMA SumsTake ==
    ASSUME NEW cs, NEW v \in Nat, SumsTo(cs, v), NEW n, n = Len(cs), n \in Nat, n >= 1, NEW g \in Nat,
           NEW ds, Len(ds) = n, \A k \in 1 .. n - 1 : ds[k] = cs[k],
           ds[n].png_count = cs[n].png_count + g, cs[n].png_count \in Nat
    PROVE SumsTo(ds, v + g)
<1>1. PICK f : Sums(cs, f) /\ f[n] = v /\ \A k \in 0 .. n : f[k] <= v
  BY DEF SumsTo
<1> DEFINE h == [k \in 0 .. n |-> IF k = n THEN v + g ELSE f[k]]
<1>2. f \in [0 .. n -> Nat] /\ f[0] = 0 /\ \A k \in 1 .. n : f[k] = f[k - 1] + cs[k].png_count
  BY <1>1 DEF Sums
<1>3. h \in [0 .. n -> Nat] /\ h[0] = 0 /\ h[n] = v + g
  BY <1>2
<1>4. ASSUME NEW k \in 1 .. n PROVE h[k] = h[k - 1] + ds[k].png_count
  <2>1. k - 1 \in 0 .. n /\ k - 1 # n /\ h[k - 1] = f[k - 1] /\ f[k - 1] \in Nat
    <3>1. k - 1 \in 0 .. n /\ k - 1 # n
      OBVIOUS
    <3>2. f[k - 1] \in Nat
      <4> HIDE DEF h
      <4> QED BY <1>2, <3>1
    <3>3. h[k - 1] = f[k - 1]
      BY <3>1
    <3> QED BY <3>1, <3>2, <3>3
  <2>2. CASE k = n
    <3>1. f[n] = f[n - 1] + cs[n].png_count
      BY <1>2
    <3> QED BY <1>1, <1>3, <2>1, <2>2, <3>1
  <2>3. CASE k # n
    <3>1. k \in 1 .. n - 1 /\ k \in 0 .. n
      BY <2>3
    <3>2. f[k] = f[k - 1] + cs[k].png_count /\ ds[k] = cs[k] /\ h[k] = f[k]
      BY <1>2, <2>3, <3>1
    <3> QED BY <2>1, <3>2
  <2> QED BY <2>2, <2>3
<1>5. \A k \in 0 .. n : h[k] <= v + g
  <2>1. \A k \in 0 .. n : f[k] \in Nat /\ f[k] <= v
    BY <1>1, <1>2
  <2> QED BY <2>1
<1> HIDE DEF h
<1>6. Sums(ds, h)
  BY <1>3, <1>4 DEF Sums
<1> QED BY <1>3, <1>5, <1>6 DEF SumsTo

LEMMA SumsPush ==
    ASSUME NEW cs, NEW v \in Nat, SumsTo(cs, v), NEW n, n = Len(cs), n \in Nat,
           NEW ds, Len(ds) = n + 1, \A k \in 1 .. n : ds[k] = cs[k], ds[n + 1].png_count = 0
    PROVE SumsTo(ds, v)
<1>1. PICK f : Sums(cs, f) /\ f[n] = v /\ \A k \in 0 .. n : f[k] <= v
  BY DEF SumsTo
<1> DEFINE h == [k \in 0 .. n + 1 |-> IF k = n + 1 THEN v ELSE f[k]]
<1>2. f \in [0 .. n -> Nat] /\ f[0] = 0 /\ \A k \in 1 .. n : f[k] = f[k - 1] + cs[k].png_count
  BY <1>1 DEF Sums
<1>3. h \in [0 .. n + 1 -> Nat] /\ h[0] = 0 /\ h[n + 1] = v
  BY <1>2
<1>4. ASSUME NEW k \in 1 .. n + 1 PROVE h[k] = h[k - 1] + ds[k].png_count
  <2>1. k - 1 \in 0 .. n /\ h[k - 1] = f[k - 1] /\ f[k - 1] \in Nat
    BY <1>2
  <2>2. CASE k = n + 1
    BY <1>1, <1>3, <2>1, <2>2
  <2>3. CASE k # n + 1
    <3>1. k \in 1 .. n
      BY <2>3
    <3>2. f[k] = f[k - 1] + cs[k].png_count /\ ds[k] = cs[k] /\ h[k] = f[k]
      BY <1>2, <2>3, <3>1
    <3> QED BY <2>1, <3>2
  <2> QED BY <2>2, <2>3
<1>5. \A k \in 0 .. n + 1 : h[k] <= v
  <2>1. \A k \in 0 .. n + 1 : k = n + 1 \/ k \in 0 .. n
    OBVIOUS
  <2> QED BY <1>1, <2>1
<1> HIDE DEF h
<1>6. Sums(ds, h)
  BY <1>3, <1>4 DEF Sums
<1> QED BY <1>3, <1>5, <1>6 DEF SumsTo

LEMMA SumsPop ==
    ASSUME NEW cs, NEW v \in Nat, SumsTo(cs, v), NEW n, n = Len(cs), n \in Nat, n > 1,
           \A k \in 1 .. n : cs[k].png_count \in Nat,
           NEW ds, Len(ds) = n - 1, \A k \in 1 .. n - 2 : ds[k] = cs[k],
           ds[n - 1].png_count = cs[n - 1].png_count + cs[n].png_count
    PROVE SumsTo(ds, v)
<1>1. PICK f : Sums(cs, f) /\ f[n] = v /\ \A k \in 0 .. n : f[k] <= v
  BY DEF SumsTo
<1> DEFINE h == [k \in 0 .. n - 1 |-> IF k = n - 1 THEN v ELSE f[k]]
<1>2. f \in [0 .. n -> Nat] /\ f[0] = 0 /\ \A k \in 1 .. n : f[k] = f[k - 1] + cs[k].png_count
  BY <1>1 DEF Sums
<1>3. h \in [0 .. n - 1 -> Nat] /\ h[0] = 0 /\ h[n - 1] = v
  BY <1>2
<1>4. ASSUME NEW k \in 1 .. n - 1 PROVE h[k] = h[k - 1] + ds[k].png_count
  <2>1. k - 1 \in 0 .. n - 1 /\ k - 1 # n - 1 /\ h[k - 1] = f[k - 1] /\ f[k - 1] \in Nat
    <3>1. k - 1 \in 0 .. n - 1 /\ k - 1 # n - 1 /\ k - 1 \in 0 .. n
      OBVIOUS
    <3> QED BY <1>2, <3>1
  <2>2. CASE k = n - 1
    <3>1. f[n] = f[n - 1] + cs[n].png_count
      BY <1>2
    <3>2. f[n - 1] = f[(n - 1) - 1] + cs[n - 1].png_count
      <4>1. n - 1 \in 1 .. n
        OBVIOUS
      <4> QED BY <1>2, <4>1
    <3>3. cs[n].png_count \in Nat /\ cs[n - 1].png_count \in Nat
      <4>1. n - 1 \in 1 .. n /\ n \in 1 .. n
        OBVIOUS
      <4> QED BY <4>1
    <3> DEFINE a == f[(n - 1) - 1]
               b == cs[n - 1].png_count
               c == cs[n].png_count
    <3>4. a \in Nat /\ b \in Nat /\ c \in Nat /\ v = (a + b) + c
      BY <1>1, <2>1, <2>2, <3>1, <3>2, <3>3
    <3>5. h[k] = v /\ h[k - 1] = a /\ ds[k].png_count = b + c
      BY <1>3, <2>1, <2>2
    <3> HIDE DEF a, b, c
    <3> QED BY <3>4, <3>5
  <2>3. CASE k # n - 1
    <3>1. k \in 1 .. n - 2 /\ k \in 1 .. n
      BY <2>3
    <3>2. f[k] = f[k - 1] + cs[k].png_count /\ ds[k] = cs[k] /\ h[k] = f[k]
      BY <1>2, <2>3, <3>1
    <3> QED BY <2>1, <3>2
  <2> QED BY <2>2, <2>3
<1>5. \A k \in 0 .. n - 1 : h[k] <= v
  <2>1. \A k \in 0 .. n - 1 : k = n - 1 \/ k \in 0 .. n
    OBVIOUS
  <2> QED BY <1>1, <2>1
<1> HIDE DEF h
<1>6. Sums(ds, h)
  BY <1>3, <1>4 DEF Sums
<1> QED BY <1>3, <1>5, <1>6 DEF SumsTo

(* There is one function that has the sums, and Counts is its last value.  *)
LEMMA CountsIs ==
    ASSUME Len(calls) \in Nat, NEW v, SumsTo(calls, v)
    PROVE Counts = v
<1> DEFINE n == Len(calls)
           s == CHOOSE h : h = [k \in 0 .. n |-> IF k = 0 THEN 0 ELSE h[k - 1] + calls[k].png_count]
<1>1. PICK f : Sums(calls, f) /\ f[n] = v
  BY DEF SumsTo
<1>2. f \in [0 .. n -> Nat] /\ f[0] = 0 /\ \A k \in 1 .. n : f[k] = f[k - 1] + calls[k].png_count
  BY <1>1 DEF Sums
<1>3. f = [k \in 0 .. n |-> IF k = 0 THEN 0 ELSE f[k - 1] + calls[k].png_count]
  BY <1>2
<1>4. s = [k \in 0 .. n |-> IF k = 0 THEN 0 ELSE s[k - 1] + calls[k].png_count]
  BY <1>3
<1>5. Counts = s[n]
  BY DEF Counts
<1> HIDE DEF s
<1> DEFINE Same == {k \in Nat : k <= n => s[k] = f[k]}
<1>6. 0 \in Same
  BY <1>2, <1>4
<1>7. ASSUME NEW k \in Nat, k \in Same PROVE k + 1 \in Same
  <2> SUFFICES ASSUME k + 1 <= n PROVE s[k + 1] = f[k + 1]
    OBVIOUS
  <2>1. k <= n /\ k + 1 \in 1 .. n /\ k + 1 \in 0 .. n /\ k + 1 # 0 /\ (k + 1) - 1 = k
    OBVIOUS
  <2>2. s[k + 1] = s[k] + calls[k + 1].png_count
    BY <1>4, <2>1
  <2>3. f[k + 1] = f[k] + calls[k + 1].png_count
    BY <1>2, <2>1
  <2> QED BY <1>7, <2>1, <2>2, <2>3
<1>8. Nat \subseteq Same
  <2> HIDE DEF Same
  <2> QED BY <1>6, <1>7, Induction
<1>9. s[n] = f[n]
  BY <1>8
<1> QED BY <1>1, <1>5, <1>9

-----------------------------------------------------------------------------
(* The invariant.                                                          *)

LEMMA InitInv == ASSUME IsTree, Init PROVE IInv
<1>1. open = {} /\ printed = <<>> /\ descriptors \in Nat \ {0} /\ unreadable \subseteq Dirs \cup Files
  BY DEF Init, IsTree
<1>2. Printed = {} /\ Len(printed) = 0 /\ printed \in Seq(Files) /\ Cardinality(Printed) = 0
      /\ Cardinality(open) = 0
  BY <1>1, FS_EmptySet DEF Printed
<1>3. CASE Root \in unreadable
  <2>1. calls = <<>> /\ result = "exit" /\ unreadable # {} /\ Len(calls) = 0 /\ calls \in Seq(Frames)
    BY <1>3 DEF Init
  <2>2. StackOK(calls)
    BY <2>1 DEF StackOK
  <2>3. World /\ GivenUpForCause /\ Visits
    BY <1>1, <2>1 DEF World, GivenUpForCause, Visits
  <2>4. Opened
    BY <1>1, <1>2, <2>1 DEF Opened, InUse
  <2>5. SumsTo(calls, Len(printed))
    <3> DEFINE f == [k \in 0 .. 0 |-> 0]
    <3>1. Sums(calls, f) /\ f[0] = 0 /\ \A k \in 0 .. 0 : f[k] <= 0
      BY <2>1 DEF Sums
    <3> QED BY <1>2, <2>1, <3>1 DEF SumsTo
  <2> QED BY <2>2, <2>3, <2>4, <2>5 DEF IInv
<1>4. CASE Root \notin unreadable
  <2> DEFINE t == Call(Root)
  <2>1. calls = <<t>> /\ result = "searching"
    BY <1>4 DEF Init
  <2>2. /\ t \in Frames /\ t.dir = Root /\ t.left = Holds[Root] /\ t.png_count = 0
    BY DEF Call, Frames, IsTree
  <2> HIDE DEF t
  <2>3. calls \in Seq(Frames) /\ Len(calls) = 1 /\ calls[1] = t /\ 1 .. Len(calls) = {1} /\ calls # <<>>
    BY <2>1, <2>2
  <2>4. StackOK(calls)
    BY <2>2, <2>3 DEF StackOK
  <2>5. LeftIn(calls) = Holds[Root] /\ DirsIn(calls) = {Root}
    BY <2>2, <2>3 DEF LeftIn, DirsIn
  <2>6. Fresh(Dirs \ {Root}, Holds[Root], {Root}, {})
    <3>1. Root \in Dirs /\ \A d \in Dirs : Holds[d] \cap Dirs \subseteq Dirs \ {Root}
      BY DEF IsTree
    <3> QED BY <3>1 DEF Fresh
  <2>7. Visits
    BY <1>1, <2>5, <2>6 DEF Visits
  <2>8. World /\ GivenUpForCause
    BY <1>1, <2>1, <2>3 DEF World, GivenUpForCause
  <2>9. Opened
    BY <1>1, <1>2, <2>3 DEF Opened, InUse
  <2>10. SumsTo(calls, Len(printed))
    <3> DEFINE f == [k \in 0 .. 1 |-> 0]
    <3>1. Sums(calls, f) /\ f[1] = 0 /\ \A k \in 0 .. 1 : f[k] <= 0
      BY <2>2, <2>3 DEF Sums
    <3> HIDE DEF f
    <3> QED BY <1>2, <2>3, <3>1 DEF SumsTo
  <2> QED BY <2>4, <2>7, <2>8, <2>9, <2>10 DEF IInv
<1> QED BY <1>3, <1>4

LEMMA Basics ==
    ASSUME IsTree, IInv, Searching
    PROVE /\ calls \in Seq(Frames) /\ Len(calls) \in Nat /\ Len(calls) >= 1 /\ calls # <<>>
          /\ This \in Frames /\ This = calls[Len(calls)]
          /\ \A k \in 1 .. Len(calls) : calls[k] \in Frames
          /\ DirsIn(calls) \subseteq Dirs /\ LeftIn(calls) \subseteq Dirs \cup Files
          /\ \A x \in This.left : /\ Taken(x) \in Frames /\ Taken(x).dir = This.dir
                                  /\ Taken(x).left = This.left \ {x}
                                  /\ Taken(x).png_count = This.png_count
<1>1. calls \in Seq(Frames) /\ Len(calls) \in Nat /\ calls # <<>>
  BY DEF IInv, StackOK, World, Searching
<1>2. Len(calls) >= 1
  BY <1>1, EmptySeq
<1>3. \A k \in 1 .. Len(calls) : calls[k] \in Frames
  BY <1>1, ElementOfSeq
<1>4. This \in Frames /\ This = calls[Len(calls)]
  BY <1>1, <1>2, <1>3 DEF This
<1>5. DirsIn(calls) \subseteq Dirs /\ LeftIn(calls) \subseteq Dirs \cup Files
  BY <1>3 DEF DirsIn, LeftIn, Frames
<1>6. ASSUME NEW x \in This.left
      PROVE /\ Taken(x) \in Frames /\ Taken(x).dir = This.dir
            /\ Taken(x).left = This.left \ {x} /\ Taken(x).png_count = This.png_count
  <2>1. Taken(x) = [This EXCEPT !.left = @ \ {x}]
    BY DEF Taken
  <2> QED BY <1>4, <2>1 DEF Frames
<1> QED BY <1>1, <1>2, <1>3, <1>4, <1>5, <1>6

(* How many files are open, and how many calls there are.                  *)
LEMMA Numbers ==
    ASSUME IsTree, IInv
    PROVE /\ IsFiniteSet(open) /\ Cardinality(open) \in Nat /\ InUse \in Nat
          /\ IsFiniteSet(Pngs) /\ Cardinality(Pngs) \in Nat
          /\ IsFiniteSet(Dirs) /\ Cardinality(Dirs) \in Nat
          /\ InUse = Cardinality(open) + Len(calls) /\ Len(calls) \in Nat /\ descriptors \in Nat
<1>1. IsFiniteSet(Pngs) /\ IsFiniteSet(Dirs)
  <2>1. Pngs \subseteq Files
    BY DEF Pngs, Of
  <2> QED BY <2>1, FS_Subset DEF IsTree
<1>2. IsFiniteSet(open)
  BY <1>1, FS_Subset DEF IInv, Opened
<1>3. Len(calls) \in Nat
  BY DEF IInv, StackOK
<1> QED BY <1>1, <1>2, <1>3, FS_CardinalityType DEF InUse, IInv, World

LEMMA EnterStep ==
    ASSUME IsTree, IInv, NEW d \in Dirs, search_dir(d) PROVE IInv'
<1> DEFINE n == Len(calls)
           cs == [calls EXCEPT ![n] = Taken(d)]
           ds == Append(cs, Call(d))
<1>1. Searching /\ d \in This.left /\ CanOpen(d) /\ calls' = ds
      /\ UNCHANGED <<descriptors, unreadable, open, printed, result>>
  BY DEF search_dir, world
<1>2. /\ StackOK(cs) /\ Len(cs) = n /\ DirsIn(cs) = DirsIn(calls)
      /\ LeftIn(cs) = LeftIn(calls) \ {d} /\ d \in LeftIn(calls) /\ d \in Holds[This.dir]
      /\ This.dir \in DirsIn(calls)
  <2>1. Takes(calls, n, Taken(d), d, cs) /\ This = calls[n]
    BY <1>1, Basics DEF IInv, Takes
  <2> QED BY <2>1, TakeFrame
<1>3. n \in Nat /\ n >= 1 /\ This.dir \in Dirs
  BY <1>1, <1>2, Basics
<1>4. PICK U : Fresh(U, LeftIn(calls), DirsIn(calls), open)
  BY <1>1, Basics DEF IInv, Visits
<1>5. /\ d \notin DirsIn(calls)
      /\ Fresh(U \ {d}, (LeftIn(calls) \ {d}) \cup Holds[d], DirsIn(calls) \cup {d}, open)
  BY <1>2, <1>3, <1>4, FreshDir
<1>6. /\ Call(d) \in Frames /\ Call(d).dir = d /\ Call(d).left = Holds[d] /\ Call(d).png_count = 0
  BY DEF Call, Frames, IsTree
<1>7. /\ \A k \in 1 .. n - 1 : cs[k] = calls[k]
      /\ cs[n].png_count = calls[n].png_count /\ calls[n].png_count \in Nat
  <2>1. cs[n] = Taken(d) /\ \A k \in 1 .. n - 1 : cs[k] = calls[k]
    BY <1>1, <1>3, Basics
  <2> QED BY <1>1, <2>1, Basics DEF Frames
<1> HIDE DEF cs
<1>8. /\ StackOK(ds) /\ Len(ds) = n + 1 /\ DirsIn(ds) = DirsIn(calls) \cup {d}
      /\ LeftIn(ds) = (LeftIn(calls) \ {d}) \cup Holds[d]
      /\ \A k \in 1 .. n : ds[k] = cs[k]
      /\ ds[n + 1] = Call(d)
  <2>1. Pushes(cs, Call(d), ds)
    BY <1>2, <1>5, <1>6 DEF Pushes
  <2>2. /\ StackOK(ds) /\ Len(ds) = Len(cs) + 1 /\ DirsIn(ds) = DirsIn(cs) \cup {Call(d).dir}
        /\ LeftIn(ds) = LeftIn(cs) \cup Call(d).left
        /\ \A k \in 1 .. Len(cs) : ds[k] = cs[k]
        /\ ds[Len(cs) + 1] = Call(d)
    BY <2>1, PushFrame
  <2> HIDE DEF ds
  <2> QED BY <1>2, <1>6, <2>2
<1> HIDE DEF ds
<1>9. SumsTo(ds, Len(printed))
  <2>1. Len(printed) \in Nat /\ SumsTo(calls, Len(printed))
    BY DEF IInv, Opened
  <2>2. SumsTo(cs, Len(printed) + 0)
    <3>1. cs[n].png_count = calls[n].png_count + 0 /\ 0 \in Nat
      BY <1>7
    <3> QED BY <1>2, <1>3, <1>7, <2>1, <3>1, SumsTake
  <2>3. Len(printed) + 0 = Len(printed)
    BY <2>1
  <2>4. SumsTo(cs, Len(printed))
    BY <2>2, <2>3
  <2> QED BY <1>2, <1>3, <1>6, <1>8, <2>1, <2>4, SumsPush
<1>10. World'
  <2>1. calls' # <<>>
    BY <1>1, <1>3, <1>8, EmptySeq
  <2>2. result' = "searching"
    BY <1>1 DEF Searching
  <2> QED BY <1>1, <2>1, <2>2 DEF IInv, World
<1>11. Visits'
  BY <1>1, <1>5, <1>8 DEF Visits
<1>12. Opened'
  <2>1. InUse' = InUse + 1
    BY <1>1, <1>3, <1>8, Numbers DEF InUse
  <2>2. InUse' <= descriptors'
    BY <1>1, <2>1, Numbers DEF CanOpen
  <2>3. Printed' = Printed
    BY <1>1 DEF Printed
  <2> QED BY <1>1, <2>2, <2>3 DEF IInv, Opened
<1>13. GivenUpForCause'
  BY <1>1 DEF GivenUpForCause, Searching
<1> QED BY <1>1, <1>8, <1>9, <1>10, <1>11, <1>12, <1>13 DEF IInv

(* A file is taken from what the innermost call has left; yes says that it *)
(* is counted and printed.                                                 *)
TakesFile(f, g, ds, o) ==
    /\ Searching /\ f \in Files /\ f \in This.left /\ g \in Nat
    /\ ds = [calls EXCEPT ![Len(calls)] = [Taken(f) EXCEPT !.png_count = @ + g]]
    /\ o = IF f \in Pngs THEN open \cup {f} ELSE open

LEMMA TakeStep ==
    ASSUME IsTree, IInv, NEW f, NEW g, NEW ds, NEW o, TakesFile(f, g, ds, o)
    PROVE /\ StackOK(ds) /\ Len(ds) = Len(calls) /\ ds # <<>>
          /\ f \notin open
          /\ \E U : Fresh(U, LeftIn(ds), DirsIn(ds), o)
          /\ SumsTo(ds, Len(printed) + g)
<1> DEFINE n == Len(calls)
           t == [Taken(f) EXCEPT !.png_count = @ + g]
<1>0. Searching /\ f \in Files /\ f \in This.left /\ g \in Nat /\ ds = [calls EXCEPT ![n] = t]
      /\ o = IF f \in Pngs THEN open \cup {f} ELSE open
  BY DEF TakesFile
<1>1. t \in Frames /\ t.dir = This.dir /\ t.left = This.left \ {f} /\ t.png_count = This.png_count + g
  <2>1. /\ Taken(f) \in Frames /\ Taken(f).dir = This.dir
        /\ Taken(f).left = This.left \ {f} /\ Taken(f).png_count = This.png_count
    BY <1>0, Basics
  <2> QED BY <1>0, <2>1 DEF Frames
<1> HIDE DEF t
<1>2. Takes(calls, n, t, f, ds) /\ This = calls[n]
  BY <1>0, <1>1, Basics DEF IInv, Takes
<1>3. /\ StackOK(ds) /\ Len(ds) = n /\ DirsIn(ds) = DirsIn(calls)
      /\ LeftIn(ds) = LeftIn(calls) \ {f} /\ f \in LeftIn(calls) /\ f \in Holds[This.dir]
      /\ This.dir \in DirsIn(calls)
  <2>1. /\ StackOK(ds) /\ Len(ds) = n /\ DirsIn(ds) = DirsIn(calls)
        /\ LeftIn(ds) = LeftIn(calls) \ {f} /\ f \in LeftIn(calls) /\ f \in Holds[calls[n].dir]
        /\ calls[n].dir \in DirsIn(calls)
    BY <1>2, TakeFrame
  <2> QED BY <1>2, <2>1
<1>4. n \in Nat /\ n >= 1 /\ This.dir \in Dirs /\ ds # <<>>
  BY <1>0, <1>3, Basics, EmptySeq
<1>5. PICK U : Fresh(U, LeftIn(calls), DirsIn(calls), open)
  BY <1>0, Basics DEF IInv, Visits
<1>6. f \notin open
  BY <1>3, <1>5 DEF Fresh
<1>7. Fresh(U, LeftIn(ds), DirsIn(ds), o)
  <2>1. /\ f \notin Pngs => Fresh(U, LeftIn(calls) \ {f}, DirsIn(calls), open)
        /\ f \in Pngs => Fresh(U, LeftIn(calls) \ {f}, DirsIn(calls), open \cup {f})
    BY <1>0, <1>3, <1>4, <1>5, FreshFile
  <2> QED BY <1>0, <1>3, <2>1
<1>8. SumsTo(ds, Len(printed) + g)
  <2>1. ds[n] = t /\ \A k \in 1 .. n - 1 : ds[k] = calls[k]
    BY <1>0, <1>4, Basics
  <2>2. ds[n].png_count = calls[n].png_count + g /\ calls[n].png_count \in Nat
    BY <1>1, <1>2, <2>1, <1>0, Basics DEF Frames
  <2>3. Len(printed) \in Nat /\ SumsTo(calls, Len(printed))
    BY DEF IInv, Opened
  <2> QED BY <1>3, <1>4, <2>1, <2>2, <2>3, <1>0, SumsTake
<1> QED BY <1>3, <1>4, <1>6, <1>7, <1>8

LEMMA SkipStep ==
    ASSUME IsTree, IInv, NEW f \in Files, Skip(f) PROVE IInv'
<1>1. Searching /\ f \in This.left /\ Content[f] = "skip"
      /\ calls' = [calls EXCEPT ![Len(calls)] = Taken(f)]
      /\ UNCHANGED <<descriptors, unreadable, open, printed, result>>
  BY DEF Skip, world
<1>2. [Taken(f) EXCEPT !.png_count = @ + 0] = Taken(f)
  BY <1>1, Basics DEF Frames
<1>3. (IF f \in Pngs THEN open \cup {f} ELSE open) = open
  BY <1>1 DEF Pngs, Of
<1>4. /\ StackOK(calls') /\ Len(calls') = Len(calls) /\ calls' # <<>>
      /\ \E U : Fresh(U, LeftIn(calls'), DirsIn(calls'), open)
      /\ SumsTo(calls', Len(printed) + 0)
  <2>1. TakesFile(f, 0, calls', open)
    BY <1>1, <1>2, <1>3 DEF TakesFile
  <2> QED BY <2>1, TakeStep
<1>5. Len(printed) + 0 = Len(printed)
  BY DEF IInv, Opened
<1>6. World' /\ Visits' /\ SumsTo(calls, Len(printed))'
  BY <1>1, <1>4, <1>5 DEF IInv, World, Visits, Searching
<1>7. Opened'
  <2>1. InUse' = InUse /\ Printed' = Printed
    BY <1>1, <1>4 DEF InUse, Printed
  <2> QED BY <1>1, <2>1 DEF IInv, Opened
<1>8. GivenUpForCause'
  BY <1>1 DEF GivenUpForCause, Searching
<1> QED BY <1>4, <1>6, <1>7, <1>8 DEF IInv

LEMMA LookStep ==
    ASSUME IsTree, IInv, NEW f \in Files, Look(f) PROVE IInv'
<1>1. PICK yes \in is_png(f) :
         /\ Searching /\ f \in This.left /\ Content[f] # "skip" /\ CanOpen(f)
         /\ open' = open \cup {f}
         /\ calls' = [calls EXCEPT ![Len(calls)] =
                         [Taken(f) EXCEPT !.png_count = @ + IF yes THEN 1 ELSE 0]]
         /\ printed' = IF yes THEN Append(printed, f) ELSE printed
         /\ UNCHANGED <<descriptors, unreadable, result>>
  BY DEF Look, world
<1>2. Content[f] \in Kinds /\ f \in Pngs
  BY <1>1 DEF IsTree, Kinds, Pngs, Of
<1>3. yes \in BOOLEAN /\ (Content[f] = "png" => yes) /\ (yes => Content[f] \in {"png", "blank"})
  BY <1>1, <1>2 DEF is_png, Kinds
<1> DEFINE g == IF yes THEN 1 ELSE 0
<1>4. g \in Nat
  OBVIOUS
<1> HIDE DEF g
<1>5. /\ StackOK(calls') /\ Len(calls') = Len(calls) /\ calls' # <<>>
      /\ f \notin open
      /\ \E U : Fresh(U, LeftIn(calls'), DirsIn(calls'), open')
      /\ SumsTo(calls', Len(printed) + g)
  <2>1. calls' = [calls EXCEPT ![Len(calls)] = [Taken(f) EXCEPT !.png_count = @ + g]]
    BY <1>1 DEF g
  <2>2. open' = IF f \in Pngs THEN open \cup {f} ELSE open
    BY <1>1, <1>2
  <2>3. TakesFile(f, g, calls', open')
    BY <1>1, <1>4, <2>1, <2>2 DEF TakesFile
  <2> QED BY <2>3, TakeStep
<1>6. printed \in Seq(Files) /\ Len(printed) = Cardinality(Printed) /\ Printed \subseteq open
  BY DEF IInv, Opened
<1>7. /\ printed' \in Seq(Files) /\ Len(printed') = Len(printed) + g
      /\ Printed' = IF yes THEN Printed \cup {f} ELSE Printed
  <2>1. CASE yes
    <3>1. printed' = Append(printed, f) /\ g = 1
      BY <1>1, <2>1 DEF g
    <3>2. /\ printed' \in Seq(Files) /\ Len(printed') = Len(printed) + 1
          /\ \A k \in 1 .. Len(printed) : printed'[k] = printed[k]
          /\ printed'[Len(printed) + 1] = f
      BY <1>6, <3>1
    <3>3. DOMAIN printed = 1 .. Len(printed) /\ DOMAIN printed' = 1 .. (Len(printed) + 1)
          /\ Len(printed) \in Nat
      BY <1>6, <3>2
    <3>4. \A k : k \in DOMAIN printed' <=> k \in DOMAIN printed \/ k = Len(printed) + 1
      BY <3>3
    <3>5. \A y : y \in Printed' <=> y \in Printed \cup {f}
      BY <3>2, <3>3, <3>4 DEF Printed
    <3> QED BY <2>1, <3>1, <3>2, <3>5
  <2>2. CASE ~yes
    <3>1. printed' = printed /\ g = 0
      BY <1>1, <2>2 DEF g
    <3> QED BY <1>6, <2>2, <3>1 DEF Printed
  <2> QED BY <2>1, <2>2
<1>8. IsFiniteSet(Printed)
  BY <1>6, Numbers, FS_Subset
<1>9. Len(printed') = Cardinality(Printed')
  <2>1. CASE yes
    <3>1. Cardinality(Printed \cup {f}) = Cardinality(Printed) + 1
      BY <1>5, <1>6, <1>8, FS_AddElement
    <3> QED BY <1>6, <1>7, <2>1, <3>1 DEF g
  <2>2. CASE ~yes
    BY <1>1, <1>6, <1>7, <2>2
  <2> QED BY <2>1, <2>2
<1>10. Opened'
  <2>1. InUse' <= descriptors'
    <3>1. Cardinality(open \cup {f}) = Cardinality(open) + 1
      BY <1>5, Numbers, FS_AddElement
    <3>2. InUse < descriptors
      BY <1>1 DEF CanOpen
    <3>3. InUse' = InUse + 1
      BY <1>1, <1>5, <3>1, Numbers DEF InUse
    <3> QED BY <1>1, <3>2, <3>3, Numbers
  <2>2. open' \subseteq Pngs /\ Printed' \subseteq open'
    BY <1>1, <1>2, <1>7 DEF IInv, Opened
  <2>3. open' \cap Of({"png"}) \subseteq Printed'
    <3>1. f \in Of({"png"}) => yes
      BY <1>3 DEF Of
    <3> QED BY <1>1, <1>7, <3>1 DEF IInv, Opened
  <2>4. Printed' \subseteq Of({"png", "blank"})
    <3>1. yes => f \in Of({"png", "blank"})
      BY <1>3 DEF Of
    <3> QED BY <1>7, <3>1 DEF IInv, Opened
  <2> QED BY <1>7, <1>9, <2>1, <2>2, <2>3, <2>4 DEF Opened
<1>11. World' /\ Visits' /\ SumsTo(calls, Len(printed))'
  BY <1>1, <1>5, <1>7 DEF IInv, World, Visits, Searching
<1>12. GivenUpForCause'
  BY <1>1 DEF GivenUpForCause, Searching
<1> QED BY <1>5, <1>10, <1>11, <1>12 DEF IInv

LEMMA ReturnStep == ASSUME IsTree, IInv, Return PROVE IInv'
<1> DEFINE n == Len(calls)
           g == This.png_count
<1>1. /\ Searching /\ n > 1 /\ This.left = {}
      /\ calls' = [SubSeq(calls, 1, n - 1) EXCEPT ![n - 1].png_count = @ + g]
      /\ UNCHANGED <<descriptors, unreadable, open, printed, result>>
  BY DEF Return, world
<1>2. g \in Nat /\ This = calls[n] /\ n \in Nat
  BY <1>1, Basics DEF Frames
<1>3. g = calls[n].png_count
  BY <1>2
<1> HIDE DEF g
<1>4. Pops(calls, n, g, calls')
  BY <1>1, <1>2 DEF IInv, Pops
<1>5. /\ StackOK(calls') /\ Len(calls') = n - 1 /\ DirsIn(calls') \subseteq DirsIn(calls)
      /\ LeftIn(calls') = LeftIn(calls)
      /\ \A k \in 1 .. n - 2 : calls'[k] = calls[k]
      /\ calls'[n - 1].png_count = calls[n - 1].png_count + g
  BY <1>4, PopFrame
<1>6. SumsTo(calls', Len(printed))
  <2>1. Len(printed) \in Nat /\ SumsTo(calls, Len(printed))
    BY DEF IInv, Opened
  <2>2. \A k \in 1 .. n : calls[k].png_count \in Nat
    BY <1>1, Basics DEF Frames
  <2>3. calls'[n - 1].png_count = calls[n - 1].png_count + calls[n].png_count
    BY <1>3, <1>5
  <2> QED BY <1>1, <1>2, <1>5, <2>1, <2>2, <2>3, SumsPop
<1>7. calls' # <<>>
  <2>1. Len(calls') # 0
    BY <1>1, <1>2, <1>5
  <2> QED BY <2>1
<1>8. Visits'
  <2>1. PICK U : Fresh(U, LeftIn(calls), DirsIn(calls), open)
    BY <1>1, Basics DEF IInv, Visits
  <2>2. Fresh(U, LeftIn(calls'), DirsIn(calls'), open')
    BY <1>1, <1>5, <2>1 DEF Fresh
  <2> QED BY <2>2 DEF Visits
<1>9. World'
  BY <1>1, <1>7 DEF IInv, World, Searching
<1>10. Opened'
  <2>1. InUse' <= descriptors' /\ Printed' = Printed
    BY <1>1, <1>2, <1>5, Numbers DEF InUse, Printed, IInv, Opened
  <2> QED BY <1>1, <2>1 DEF IInv, Opened
<1>11. GivenUpForCause'
  BY <1>1 DEF GivenUpForCause, Searching
<1> QED BY <1>1, <1>5, <1>6, <1>8, <1>9, <1>10, <1>11 DEF IInv

(* The steps that only set the result.                                     *)
LEMMA ResultStep ==
    ASSUME IInv, UNCHANGED <<descriptors, unreadable, calls, open, printed>>,
           result' \in {"done", "exit"},
           result' = "done" => calls # <<>> /\ LeftIn(calls) = {},
           GivenUpForCause'
    PROVE IInv'
<1>1. StackOK(calls') /\ SumsTo(calls, Len(printed))' /\ World' /\ Visits'
  BY DEF IInv, World, Visits
<1>2. Opened'
  <2>1. InUse' = InUse /\ Printed' = Printed
    BY DEF InUse, Printed
  <2> QED BY <2>1 DEF IInv, Opened
<1> QED BY <1>1, <1>2 DEF IInv

LEMMA DoneStep == ASSUME IsTree, IInv, Done PROVE IInv'
<1>1. /\ Searching /\ Len(calls) = 1 /\ This.left = {} /\ result' = "done"
      /\ UNCHANGED <<descriptors, unreadable, calls, open, printed>>
  BY DEF Done, world
<1>2. calls # <<>> /\ This = calls[1]
  BY <1>1, Basics
<1>3. LeftIn(calls) = {}
  BY <1>1, <1>2 DEF LeftIn
<1>4. GivenUpForCause'
  BY <1>1 DEF GivenUpForCause
<1> QED BY <1>1, <1>2, <1>3, <1>4, ResultStep

(* There are as many calls as directories they are for.                    *)
LEMMA CallsAreDirs ==
    ASSUME StackOK(calls), NEW S, IsFiniteSet(S), DirsIn(calls) \subseteq S
    PROVE Len(calls) <= Cardinality(S)
<1> DEFINE n == Len(calls)
           f == [k \in 1 .. n |-> calls[k].dir]
<1>1. n \in Nat /\ \A j, k \in 1 .. n : calls[j].dir = calls[k].dir => j = k
  BY DEF StackOK
<1>2. IsFiniteSet(1 .. n) /\ Cardinality(1 .. n) = n
  <2> HIDE DEF n
  <2>1. 1 \in Int /\ n \in Int /\ n - 1 + 1 = n /\ (1 > n => n = 0)
    BY <1>1
  <2>2. IsFiniteSet(1 .. n) /\ Cardinality(1 .. n) = IF 1 > n THEN 0 ELSE n - 1 + 1
    BY <2>1, FS_Interval
  <2> QED BY <2>1, <2>2
<1>3. f \in [1 .. n -> S] /\ \A j, k \in 1 .. n : f[j] = f[k] => j = k
  BY <1>1 DEF DirsIn
<1>4. f \in Injection(1 .. n, S)
  <2> HIDE DEF f, n
  <2> QED BY <1>3, Zenon DEF Injection, IsInjective
<1>5. Cardinality(1 .. n) <= Cardinality(S)
  <2> HIDE DEF f
  <2> QED BY <1>4, FS_Injection
<1> QED BY <1>2, <1>5

(* A search is given up at x, which was not opened before: if it may be    *)
(* opened the descriptors are used up, by others.                          *)
LEMMA GivesUpStep ==
    ASSUME IsTree, IInv, Searching, GivesUp, NEW x \in This.left, ~CanOpen(x), x \in Dirs \cup Pngs
    PROVE IInv'
<1>1. result' = "exit" /\ UNCHANGED <<descriptors, unreadable, calls, open, printed>>
  BY DEF GivesUp, world
<1>2. PICK U : Fresh(U, LeftIn(calls), DirsIn(calls), open)
  BY Basics DEF IInv, Visits
<1>3. x \in LeftIn(calls)
  BY Basics DEF LeftIn
<1>4. /\ x \in Dirs => x \notin DirsIn(calls)
      /\ x \notin open
  BY <1>2, <1>3 DEF Fresh
<1>5. ASSUME unreadable = {} PROVE Cardinality(Pngs) + Cardinality(Dirs) > descriptors
  <2>1. InUse >= descriptors
    BY <1>5, Numbers DEF CanOpen
  <2>2. DirsIn(calls) \subseteq Dirs /\ open \subseteq Pngs /\ StackOK(calls)
    BY Basics DEF IInv, Opened
  <2>3. CASE x \in Dirs
    <3>1. IsFiniteSet(Dirs \ {x}) /\ Cardinality(Dirs \ {x}) = Cardinality(Dirs) - 1
      BY <2>3, Numbers, FS_RemoveElement
    <3>2. Len(calls) <= Cardinality(Dirs) - 1
      <4>1. DirsIn(calls) \subseteq Dirs \ {x}
        BY <1>4, <2>2, <2>3
      <4> QED BY <2>2, <3>1, <4>1, CallsAreDirs
    <3>3. Cardinality(open) <= Cardinality(Pngs)
      BY <2>2, Numbers, FS_Subset
    <3> QED BY <2>1, <3>2, <3>3, Numbers
  <2>4. CASE x \in Pngs
    <3>1. IsFiniteSet(Pngs \ {x}) /\ Cardinality(Pngs \ {x}) = Cardinality(Pngs) - 1
      BY <2>4, Numbers, FS_RemoveElement
    <3>2. Len(calls) <= Cardinality(Dirs)
      BY <2>2, Numbers, CallsAreDirs
    <3>3. Cardinality(open) <= Cardinality(Pngs) - 1
      <4>1. open \subseteq Pngs \ {x}
        BY <1>4, <2>2
      <4> QED BY <3>1, <4>1, FS_Subset
    <3> QED BY <2>1, <3>2, <3>3, Numbers
  <2> QED BY <2>3, <2>4
<1>6. GivenUpForCause'
  BY <1>1, <1>5 DEF GivenUpForCause, Pngs
<1> QED BY <1>1, <1>6, ResultStep

LEMMA NextInv == ASSUME IsTree, IInv, [Next]_vars PROVE IInv'
<1>1. CASE UNCHANGED vars
  <2>1. UNCHANGED <<descriptors, unreadable, calls, open, printed, result>>
    BY <1>1 DEF vars, world
  <2>2. World' /\ Visits' /\ GivenUpForCause'
    BY <2>1 DEF IInv, World, Visits, GivenUpForCause
  <2>3. InUse' = InUse /\ Printed' = Printed
    BY <2>1 DEF InUse, Printed
  <2> QED BY <2>1, <2>2, <2>3 DEF IInv, Opened
<1>2. ASSUME NEW d \in Dirs, opendirFails(d) PROVE IInv'
  <2>1. Searching /\ GivesUp /\ d \in This.left /\ ~CanOpen(d)
    BY <1>2 DEF opendirFails
  <2> QED BY <2>1, GivesUpStep
<1>3. ASSUME NEW f \in Files, fopenFails(f) PROVE IInv'
  <2>1. Searching /\ GivesUp /\ f \in This.left /\ ~CanOpen(f) /\ Content[f] # "skip"
    BY <1>3 DEF fopenFails
  <2>2. f \in Pngs
    BY <2>1 DEF IsTree, Kinds, Pngs, Of
  <2> QED BY <2>1, <2>2, GivesUpStep
<1>4. CASE Next
  BY <1>2, <1>3, <1>4, EnterStep, SkipStep, LookStep, ReturnStep, DoneStep DEF Next
<1> QED BY <1>1, <1>4

LEMMA IInvHolds == IsTree => (Spec => []IInv)
<1>1. IsTree /\ Init => IInv
  BY InitInv
<1>2. IsTree /\ IInv /\ [Next]_vars => IInv'
  BY NextInv
<1> SUFFICES ASSUME IsTree PROVE Spec => []IInv
  OBVIOUS
<1>3. Init => IInv
  BY <1>1
<1>4. IInv /\ [Next]_vars => IInv'
  BY <1>2
<1> QED BY <1>3, <1>4, PTL DEF Spec

(* The variables of findpng keep their types, no call counts more than     *)
(* there are files, and no more is open than may be.                       *)
THEOREM TypeCorrect == IsTree => (Spec => []TypeOK)
<1>1. ASSUME IsTree, IInv PROVE TypeOK
  <2>1. calls \in Seq(Frames) /\ DOMAIN calls = 1 .. Len(calls)
    BY <1>1 DEF IInv, StackOK
  <2>2. \A k \in 1 .. Len(calls) : calls[k] \in Frames
    BY <2>1, ElementOfSeq
  <2>3. Len(printed) <= Cardinality(Files) /\ Len(printed) \in Nat /\ Cardinality(Files) \in Nat
    <3>1. Printed \subseteq Files /\ Len(printed) = Cardinality(Printed) /\ Len(printed) \in Nat
      BY <1>1 DEF IInv, Opened, Of
    <3> QED BY <1>1, <3>1, FS_Subset, FS_CardinalityType DEF IsTree
  <2>4. PICK f : Sums(calls, f) /\ \A k \in 0 .. Len(calls) : f[k] <= Len(printed)
    BY <1>1 DEF IInv, SumsTo
  <2>5. ASSUME NEW k \in 1 .. Len(calls) PROVE calls[k].png_count \in 0 .. Cardinality(Files)
    <3>1. k \in 0 .. Len(calls) /\ k - 1 \in 0 .. Len(calls)
      BY <2>1
    <3>2. f[k] \in Nat /\ f[k - 1] \in Nat /\ f[k] = f[k - 1] + calls[k].png_count
      BY <2>4, <3>1 DEF Sums
    <3>3. f[k] <= Len(printed)
      BY <2>4, <3>1
    <3>4. calls[k].png_count \in Nat
      BY <2>2 DEF Frames
    <3> QED BY <2>3, <3>2, <3>3, <3>4
  <2>6. \A k \in 1 .. Len(calls) : calls[k].dir \in Dirs /\ calls[k].left \subseteq Holds[calls[k].dir]
    BY <1>1, <2>2 DEF Frames, IInv, StackOK
  <2> QED BY <1>1, <2>1, <2>5, <2>6 DEF TypeOK, IInv, World, Opened, Pngs, Of
<1>2. IsTree => (IInv => TypeOK)
  BY <1>1
<1> SUFFICES ASSUME IsTree PROVE Spec => []TypeOK
  OBVIOUS
<1>3. IInv => TypeOK
  BY <1>2
<1>4. Spec => []IInv
  BY IInvHolds
<1> QED BY <1>3, <1>4, PTL

(* When no call has anything left every directory was visited.             *)
LEMMA AllVisited ==
    ASSUME IsTree, NEW U, NEW A, Fresh(U, {}, A, open)
    PROVE U = {} /\ Pngs \subseteq open
<1>1. Root \in Dirs \ U /\ U \subseteq Dirs
  BY DEF Fresh, IsTree
<1>2. \A d \in Dirs \ U : Holds[d] \cap Dirs \subseteq Dirs \ U
  BY DEF Fresh
<1>3. Dirs \ U = Dirs
  BY <1>1, <1>2 DEF IsTree
<1>4. U = {}
  BY <1>1, <1>3
<1>5. ASSUME NEW x \in Pngs PROVE x \in open
  <2>1. PICK d \in Dirs : x \in Holds[d]
    BY DEF Pngs, Of, IsTree
  <2> QED BY <1>3, <2>1 DEF Fresh
<1> QED BY <1>4, <1>5

(* search_dir goes through every tree: the counts of its calls are what    *)
(* was printed, a search that ends has printed every PNG once, and one     *)
(* that is given up met something that may not be opened or a tree with    *)
(* more than there are descriptors.                                        *)
THEOREM SearchIsComplete == IsTree => (Spec => []SearchComplete)
<1>1. ASSUME IsTree, IInv PROVE SearchComplete
  <2>1. CountsAgree
    <3>1. Len(calls) \in Nat /\ SumsTo(calls, Len(printed))
      BY <1>1 DEF IInv, StackOK
    <3> QED BY <3>1, CountsIs DEF CountsAgree
  <2>2. ASSUME result = "done"
        PROVE /\ Of({"png"}) \subseteq Printed /\ Printed \subseteq Of({"png", "blank"})
              /\ Len(printed) = Cardinality(Printed)
    <3>1. calls # <<>> /\ LeftIn(calls) = {}
      BY <1>1, <2>2 DEF IInv, World
    <3>2. PICK U : Fresh(U, {}, DirsIn(calls), open)
      BY <1>1, <3>1 DEF IInv, Visits
    <3>3. Pngs \subseteq open
      BY <1>1, <3>2, AllVisited
    <3>4. Of({"png"}) \subseteq Pngs
      BY DEF Of, Pngs
    <3> QED BY <1>1, <3>3, <3>4 DEF IInv, Opened
  <2>3. GivenUpForCause
    BY <1>1 DEF IInv
  <2> QED BY <2>1, <2>2, <2>3 DEF SearchComplete, AllFound
<1>2. IsTree => (IInv => SearchComplete)
  BY <1>1
<1> SUFFICES ASSUME IsTree PROVE Spec => []SearchComplete
  OBVIOUS
<1>3. IInv => SearchComplete
  BY <1>2
<1>4. Spec => []IInv
  BY IInvHolds
<1> QED BY <1>3, <1>4, PTL

=============================================================================
