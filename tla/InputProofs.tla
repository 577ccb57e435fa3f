---------------------------- MODULE InputProofs ----------------------------
(***************************************************************************)
(* Theorems about what the programs read: the lines of the console in the  *)
(* main loop of the bank, for any number of them, and the text of command  *)
(* lines, numbers, keys and requests, for texts of any length.             *)
(***************************************************************************)
EXTENDS Text, BankLoop, TLAPS, FiniteSetTheorems, SequenceTheorems

-----------------------------------------------------------------------------
(* The main loop of the bank.                                              *)

\* Every line typed is processed, in the buffer of stdio or in the kernel; select()
\* calls a terminal ready only for lines that fgets has not read ahead; and the loop
\* ends with both buffers empty, after which no more is typed.
LoopInv ==
  /\ inKernel \in Nat /\ inStdio \in Nat /\ onSocket \in Nat
  /\ typed \in Nat /\ processed \in Nat /\ arrived \in Nat
  /\ typed = processed + inStdio + inKernel
  /\ terminal => inStdio = 0
  /\ ~running => inStdio = 0 /\ inKernel = 0

LEMMA LoopInvHolds == LoopSpec => []LoopInv
<1>1. LoopInit => LoopInv
  BY DEF LoopInit, LoopInv
<1>2. LoopInv /\ [LoopNext]_loopVars => LoopInv'
  <2>. SUFFICES ASSUME LoopInv, [LoopNext]_loopVars PROVE LoopInv'
    OBVIOUS
  <2>1. CASE TypeLine \/ Close \/ Arrive
    BY <2>1 DEF LoopInv, TypeLine, Close, Arrive
  <2>2. CASE NextBuffered
    BY <2>2 DEF LoopInv, NextBuffered, ConsoleReady
  <2>3. CASE Fill
    BY <2>3 DEF LoopInv, Fill, ConsoleReady
  <2>4. CASE Exit
    BY <2>4 DEF LoopInv, Exit, ConsoleReady
  <2>5. CASE ServeRequest
    BY <2>5 DEF LoopInv, ServeRequest, ConsoleReady
  <2>6. CASE UNCHANGED loopVars
    BY <2>6 DEF LoopInv, loopVars
  <2>. QED
    BY <2>1, <2>2, <2>3, <2>4, <2>5, <2>6 DEF LoopNext, ServeConsole
<1>. QED
  BY <1>1, <1>2, PTL DEF LoopSpec

\* main returns only after every line that was ever written to stdin was processed.
THEOREM NothingIsLost == LoopSpec => []NothingLostAtEof
<1>1. LoopInv => NothingLostAtEof
  BY DEF LoopInv, NothingLostAtEof
<1>. QED
  BY <1>1, LoopInvHolds, PTL

-----------------------------------------------------------------------------
(* Induction and recursion.                                                *)

LEMMA SmallestNumber ==
  ASSUME NEW T, T \subseteq Nat, T # {}
  PROVE  \E x \in T : \A y \in T : x <= y
<1>. DEFINE R == {ss \in Nat \X Nat : ss[1] < ss[2]}
<1>1. IsWellFoundedOn(R, Nat)
  BY NatLessThanWellFounded DEF OpToRel
<1>2. \A x, y \in Nat : x < y => <<x, y>> \in R
  OBVIOUS
<1>. HIDE DEF R
<1>3. PICK x \in T : \A y \in T : ~ (<<y, x>> \in R)
  BY <1>1, WFMin
<1>4. \A y \in T : ~ (y < x)
  BY <1>2, <1>3
<1>. QED
  BY <1>4

LEMMA StrongInduction ==
  ASSUME NEW S, \A n \in Nat : (\A m \in Nat : m < n => m \in S) => n \in S
  PROVE  Nat \subseteq S
<1>. SUFFICES ASSUME {n \in Nat : n \notin S} # {} PROVE FALSE
  OBVIOUS
<1>1. PICK x \in {n \in Nat : n \notin S} : \A y \in {n \in Nat : n \notin S} : x <= y
  BY SmallestNumber
<1>. QED
  BY <1>1

LEMMA StepInduction ==
  ASSUME NEW S, 0 \in S, \A n \in Nat : n \in S => n + 1 \in S
  PROVE  Nat \subseteq S
<1>1. ASSUME NEW n \in Nat, \A m \in Nat : m < n => m \in S PROVE n \in S
  <2>1. CASE n = 0
    BY <2>1
  <2>2. CASE n # 0
    <3>1. n - 1 \in Nat /\ n - 1 < n /\ (n - 1) + 1 = n
      BY <2>2
    <3>. QED
      BY <1>1, <3>1
  <2>. QED
    BY <2>1, <2>2
<1>. QED
  BY <1>1, StrongInduction

\* A set of texts that holds the empty one, and with each text all those that are one
\* character longer, holds every text.
LEMMA TextInduction ==
  ASSUME NEW C, NEW S, <<>> \in S,
         \A t \in Seq(C) : t \in S => \A c \in C : Append(t, c) \in S
  PROVE  Seq(C) \subseteq S
<1>. DEFINE N == {n \in Nat : \A t \in Seq(C) : Len(t) = n => t \in S}
<1>1. 0 \in N
  BY EmptySeq
<1>2. ASSUME NEW n \in Nat, n \in N PROVE n + 1 \in N
  <2>. SUFFICES ASSUME NEW t \in Seq(C), Len(t) = n + 1 PROVE t \in S
    OBVIOUS
  <2>1. t # <<>>
    BY EmptySeq
  <2>2. PICK u \in Seq(C), c \in C : t = Append(u, c)
    BY <2>1, SequenceEmptyOrAppend
  <2>3. Len(u) = n
    BY <2>2, AppendProperties, LenProperties
  <2>. QED
    BY <1>2, <2>2, <2>3
<1>. HIDE DEF N
<1>3. Nat \subseteq N
  BY <1>1, <1>2, StepInduction
<1>. QED
  BY <1>3, LenProperties DEF N

\* A function on D may be defined by what it is at a smaller element.
Descends(D, Acc, leaf, bound, rank, down, first, step) ==
  /\ bound \in Nat /\ rank \in [D -> Nat] /\ down \in [D -> D]
  /\ first \in [D -> Acc] /\ step \in [Acc \X D -> Acc]
  /\ \A x \in D : rank[x] <= bound
  /\ \A x \in D : x \notin leaf => rank[down[x]] < rank[x]

IsDefined(D, Acc, leaf, down, first, step) ==
  \E g \in [D -> Acc] : \A x \in D :
    g[x] = IF x \in leaf THEN first[x] ELSE step[<<g[down[x]], x>>]

LEMMA Recursion ==
  ASSUME NEW D, NEW Acc, NEW leaf, NEW bound, NEW rank, NEW down, NEW first, NEW step,
         Descends(D, Acc, leaf, bound, rank, down, first, step)
  PROVE  IsDefined(D, Acc, leaf, down, first, step)
<1>. USE DEF Descends
<1>. DEFINE Below(n) == {x \in D : rank[x] < n}
            Next(g, x) == IF x \in leaf THEN first[x] ELSE step[<<g[down[x]], x>>]
            N == {n \in Nat : \E g \in [Below(n) -> Acc] : \A x \in Below(n) : g[x] = Next(g, x)}
<1>1. 0 \in N
  <2>1. Below(0) = {}
    OBVIOUS
  <2>. DEFINE g == [x \in Below(0) |-> first[x]]
  <2>2. g \in [Below(0) -> Acc] /\ \A x \in Below(0) : g[x] = Next(g, x)
    BY <2>1
  <2>. QED
    BY <2>2
<1>2. ASSUME NEW n \in Nat, n \in N PROVE n + 1 \in N
  <2>1. PICK g \in [Below(n) -> Acc] : \A x \in Below(n) : g[x] = Next(g, x)
    BY <1>2
  <2>. DEFINE h == [x \in Below(n + 1) |-> Next(g, x)]
  <2>2. ASSUME NEW x \in Below(n + 1), x \notin leaf
        PROVE  down[x] \in Below(n) /\ down[x] \in Below(n + 1)
    BY <2>2
  <2>3. ASSUME NEW x \in Below(n + 1) PROVE Next(g, x) \in Acc
    BY <2>2
  <2>4. ASSUME NEW x \in Below(n + 1) PROVE Next(g, x) = Next(h, x)
    <3>1. CASE x \in leaf
      BY <3>1
    <3>2. CASE x \notin leaf
      <4>1. down[x] \in Below(n) /\ down[x] \in Below(n + 1)
        BY <2>2, <3>2
      <4>2. h[down[x]] = g[down[x]]
        BY <2>1, <4>1
      <4>. HIDE DEF h
      <4>. QED
        BY <3>2, <4>2
    <3>. QED
      BY <3>1, <3>2
  <2>5. h \in [Below(n + 1) -> Acc] /\ \A x \in Below(n + 1) : h[x] = Next(h, x)
    <3>1. h \in [Below(n + 1) -> Acc]
      BY <2>3
    <3>2. \A x \in Below(n + 1) : h[x] = Next(g, x)
      OBVIOUS
    <3>. HIDE DEF h, Next, Below
    <3>. QED
      BY <2>4, <3>1, <3>2
  <2>. HIDE DEF h, Next, Below
  <2>. QED
    BY <2>5
<1>. HIDE DEF N
<1>3. bound + 1 \in N
  BY <1>1, <1>2, StepInduction
<1>4. Below(bound + 1) = D
  OBVIOUS
<1>5. \E g \in [Below(bound + 1) -> Acc] : \A x \in Below(bound + 1) : g[x] = Next(g, x)
  BY <1>3 DEF N
<1>. HIDE DEF Below
<1>. QED
  BY <1>4, <1>5 DEF IsDefined

\* A fold over a finite set, whichever element it takes first.
Folds(D, Acc, base, pick, step) ==
  /\ IsFiniteSet(D) /\ base \in Acc /\ step \in [Acc \X D -> Acc]
  /\ \A s \in SUBSET D : s # {} => pick[s] \in s

IsFolded(D, Acc, base, pick, step) ==
  \E g \in [SUBSET D -> Acc] : \A s \in SUBSET D :
    g[s] = IF s = {} THEN base ELSE step[<<g[s \ {pick[s]}], pick[s]>>]

LEMMA SetRecursion ==
  ASSUME NEW D, NEW Acc, NEW base, NEW pick, NEW step, Folds(D, Acc, base, pick, step)
  PROVE  IsFolded(D, Acc, base, pick, step)
<1>. DEFINE rank  == [s \in SUBSET D |-> Cardinality(s)]
            down  == [s \in SUBSET D |-> IF s = {} THEN {} ELSE s \ {pick[s]}]
            first == [s \in SUBSET D |-> base]
            more  == [p \in Acc \X SUBSET D |->
                        IF p[2] = {} THEN base ELSE step[<<p[1], pick[p[2]]>>]]
<1>. USE DEF Folds
<1>1. ASSUME NEW s \in SUBSET D
      PROVE  /\ IsFiniteSet(s) /\ Cardinality(s) \in Nat /\ Cardinality(s) <= Cardinality(D)
  BY FS_Subset, FS_CardinalityType
<1>2. /\ rank \in [SUBSET D -> Nat] /\ Cardinality(D) \in Nat
      /\ \A s \in SUBSET D : rank[s] <= Cardinality(D)
  BY <1>1, FS_CardinalityType
<1>3. down \in [SUBSET D -> SUBSET D] /\ first \in [SUBSET D -> Acc]
  OBVIOUS
<1>4. more \in [Acc \X SUBSET D -> Acc]
  OBVIOUS
<1>5. ASSUME NEW s \in SUBSET D, s \notin {{}} PROVE rank[down[s]] < rank[s]
  <2>1. down[s] = s \ {pick[s]} /\ pick[s] \in s /\ down[s] \in SUBSET D
    BY <1>5
  <2>2. Cardinality(s \ {pick[s]}) = Cardinality(s) - 1
    BY <1>1, <2>1, FS_RemoveElement
  <2>3. rank[down[s]] = Cardinality(s \ {pick[s]}) /\ rank[s] = Cardinality(s)
    BY <2>1
  <2>. QED
    BY <1>1, <2>2, <2>3
<1>. HIDE DEF rank, down, first, more
<1>6. PICK g \in [SUBSET D -> Acc] : \A s \in SUBSET D :
        g[s] = IF s \in {{}} THEN first[s] ELSE more[<<g[down[s]], s>>]
  <2>1. Descends(SUBSET D, Acc, {{}}, Cardinality(D), rank, down, first, more)
    BY <1>2, <1>3, <1>4, <1>5 DEF Descends
  <2>2. IsDefined(SUBSET D, Acc, {{}}, down, first, more)
    BY <2>1, Recursion
  <2>. QED
    BY <2>2 DEF IsDefined
<1>7. ASSUME NEW s \in SUBSET D
      PROVE  g[s] = IF s = {} THEN base ELSE step[<<g[s \ {pick[s]}], pick[s]>>]
  <2>1. CASE s = {}
    BY <1>6, <2>1 DEF first
  <2>2. CASE s # {}
    <3>1. g[s] = more[<<g[down[s]], s>>] /\ down[s] = s \ {pick[s]}
      BY <1>6, <2>2 DEF down
    <3>2. g[s \ {pick[s]}] \in Acc
      OBVIOUS
    <3>. QED
      BY <2>2, <3>1, <3>2 DEF more
  <2>. QED
    BY <2>1, <2>2
<1>. QED
  BY <1>7 DEF IsFolded

\* The elements that FoldLeft and MapThenSumSet take first.
LEMMA MaxIsTaken ==
  ASSUME NEW n \in Nat, NEW s \in SUBSET (1 .. n), s # {}
  PROVE  Max(s) \in s
<1>. DEFINE T == {n - x : x \in s}
<1>1. T \subseteq Nat /\ T # {}
  <2>1. \A x \in s : n - x \in Nat
    OBVIOUS
  <2>2. PICK x \in s : TRUE
    OBVIOUS
  <2>3. n - x \in T
    OBVIOUS
  <2>. QED
    BY <2>1, <2>3
<1>2. PICK x \in T : \A y \in T : x <= y
  BY <1>1, SmallestNumber
<1>3. \A y \in s : n - x >= y
  BY <1>2
<1>4. n - x \in s
  BY <1>2
<1>. QED
  BY <1>3, <1>4 DEF Max

LEMMA LastIsMax ==
  ASSUME NEW n \in Nat \ {0}
  PROVE  Max(1 .. n) = n /\ (1 .. n) \ {n} = 1 .. n - 1 /\ 1 .. n # {}
<1>1. n \in 1 .. n /\ \A y \in 1 .. n : n >= y
  OBVIOUS
<1>2. \A x \in 1 .. n : (\A y \in 1 .. n : x >= y) => x = n
  BY <1>1
<1>3. Max(1 .. n) = n
  BY <1>1, <1>2 DEF Max
<1>. QED
  BY <1>1, <1>3

-----------------------------------------------------------------------------
(* The loops of split and parse_amount, character by character.            *)

ScanStart == [words |-> <<>>, word |-> <<>>]

Scans(t, g) ==
  g = [s \in SUBSET DOMAIN t |->
         IF s = {} THEN ScanStart ELSE ScanStep(g[s \ {Max(s)}], t[Max(s)])]

Scan(C) == [words : Seq(Seq(C)), word : Seq(C)]

LEMMA ScanStepType ==
  ASSUME NEW C, NEW acc \in Scan(C), NEW c \in C
  PROVE  ScanStep(acc, c) \in Scan(C)
<1>1. acc.words \in Seq(Seq(C)) /\ acc.word \in Seq(C)
  BY DEF Scan
<1>2. Append(acc.word, c) \in Seq(C) /\ Append(acc.words, acc.word) \in Seq(Seq(C))
  BY <1>1
<1>3. <<>> \in Seq(C)
  OBVIOUS
<1>. QED
  BY <1>1, <1>2, <1>3 DEF Scan, ScanStep

LEMMA ScanExists ==
  ASSUME NEW C, NEW t \in Seq(C)
  PROVE  \E g : Scans(t, g)
<1>. DEFINE D == DOMAIN t
            pick == [s \in SUBSET D |-> Max(s)]
            step == [p \in Scan(C) \X D |-> ScanStep(p[1], t[p[2]])]
<1>1. D = 1 .. Len(t) /\ Len(t) \in Nat /\ \A i \in D : t[i] \in C
  OBVIOUS
<1>2. IsFiniteSet(D)
  BY <1>1, FS_Interval
<1>3. \A s \in SUBSET D : s # {} => pick[s] \in s
  BY <1>1, MaxIsTaken
<1>4. ScanStart \in Scan(C)
  BY DEF ScanStart, Scan
<1>5. step \in [Scan(C) \X D -> Scan(C)]
  BY <1>1, ScanStepType
<1>. HIDE DEF step, pick, D
<1>6. PICK g \in [SUBSET D -> Scan(C)] : \A s \in SUBSET D :
        g[s] = IF s = {} THEN ScanStart ELSE step[<<g[s \ {pick[s]}], pick[s]>>]
  <2>1. Folds(D, Scan(C), ScanStart, pick, step)
    BY <1>2, <1>3, <1>4, <1>5 DEF Folds
  <2>2. IsFolded(D, Scan(C), ScanStart, pick, step)
    BY <2>1, SetRecursion
  <2>. QED
    BY <2>2 DEF IsFolded
<1>7. ASSUME NEW s \in SUBSET D
      PROVE  g[s] = IF s = {} THEN ScanStart ELSE ScanStep(g[s \ {Max(s)}], t[Max(s)])
  <2>1. CASE s = {}
    BY <1>6, <2>1
  <2>2. CASE s # {}
    <3>1. pick[s] = Max(s) /\ Max(s) \in D /\ g[s \ {Max(s)}] \in Scan(C)
      BY <1>3, <2>2 DEF pick
    <3>2. g[s] = step[<<g[s \ {Max(s)}], Max(s)>>]
      BY <1>6, <2>2, <3>1
    <3>. QED
      BY <2>2, <3>1, <3>2 DEF step
  <2>. QED
    BY <2>1, <2>2
<1>. QED
  <2>1. g = [s \in SUBSET D |->
              IF s = {} THEN ScanStart ELSE ScanStep(g[s \ {Max(s)}], t[Max(s)])]
    BY <1>7
  <2>. QED
    BY <2>1 DEF Scans, D

LEMMA ScannedFolds ==
  ASSUME NEW C, NEW t \in Seq(C)
  PROVE  \E g : Scans(t, g) /\ Scanned(t) = g[DOMAIN t]
<1>. DEFINE g == CHOOSE g : Scans(t, g)
<1>1. Scans(t, g)
  BY ScanExists
<1>2. Scanned(t) = g[DOMAIN t]
  BY DEF Scanned, FoldLeft, MapThenFoldSet, Scans, ScanStart
<1>. QED
  BY <1>1, <1>2

LEMMA ScannedEmpty == Scanned(<<>>) = ScanStart
<1>1. <<>> \in Seq({}) /\ DOMAIN <<>> = {}
  OBVIOUS
<1>2. PICK g : Scans(<<>>, g) /\ Scanned(<<>>) = g[DOMAIN <<>>]
  BY <1>1, ScannedFolds
<1>. QED
  BY <1>1, <1>2 DEF Scans

LEMMA ScannedAppend ==
  ASSUME NEW C, NEW t \in Seq(C), NEW c \in C
  PROVE  Scanned(Append(t, c)) = ScanStep(Scanned(t), c)
<1>. DEFINE u == Append(t, c)
            n == Len(t)
<1>1. /\ u \in Seq(C) /\ n \in Nat /\ DOMAIN t = 1 .. n /\ DOMAIN u = 1 .. n + 1
      /\ u[n + 1] = c /\ \A i \in 1 .. n : u[i] = t[i]
  BY AppendProperties
<1>2. PICK g : Scans(t, g) /\ Scanned(t) = g[DOMAIN t]
  BY ScannedFolds
<1>3. PICK h : Scans(u, h) /\ Scanned(u) = h[DOMAIN u]
  BY <1>1, ScannedFolds
<1>. HIDE DEF u, n
<1>4. ASSUME NEW k \in Nat \ {0}
      PROVE  /\ k <= n => g[1 .. k] = ScanStep(g[1 .. k - 1], t[k])
             /\ k <= n + 1 => h[1 .. k] = ScanStep(h[1 .. k - 1], u[k])
  <2>1. k <= n => 1 .. k \in SUBSET DOMAIN t
    BY <1>1
  <2>2. k <= n + 1 => 1 .. k \in SUBSET DOMAIN u
    BY <1>1
  <2>. QED
    BY <1>2, <1>3, <2>1, <2>2, LastIsMax DEF Scans
<1>. DEFINE N == {k \in Nat : k <= n => g[1 .. k] = h[1 .. k]}
<1>5. 0 \in N
  <2>1. 1 .. 0 = {}
    OBVIOUS
  <2>2. g[{}] = ScanStart /\ h[{}] = ScanStart
    BY <1>2, <1>3 DEF Scans
  <2>. QED
    BY <2>1, <2>2
<1>6. ASSUME NEW k \in Nat, k \in N PROVE k + 1 \in N
  <2>. SUFFICES ASSUME k + 1 <= n PROVE g[1 .. k + 1] = h[1 .. k + 1]
    OBVIOUS
  <2>1. g[1 .. k] = h[1 .. k] /\ (k + 1) - 1 = k /\ k + 1 \in Nat \ {0} /\ k + 1 <= n + 1
    BY <1>1, <1>6
  <2>2. u[k + 1] = t[k + 1]
    BY <1>1
  <2>3. /\ g[1 .. k + 1] = ScanStep(g[1 .. k], t[k + 1])
        /\ h[1 .. k + 1] = ScanStep(h[1 .. k], u[k + 1])
    BY <1>4, <2>1
  <2>. QED
    BY <2>1, <2>2, <2>3
<1>. HIDE DEF N
<1>7. g[1 .. n] = h[1 .. n]
  <2>1. Nat \subseteq N
    BY <1>5, <1>6, StepInduction
  <2>2. n \in N
    BY <1>1, <2>1
  <2>. QED
    BY <1>1, <2>2 DEF N
<1>8. h[1 .. n + 1] = ScanStep(h[1 .. n], c)
  <2>1. n + 1 \in Nat \ {0} /\ (n + 1) - 1 = n
    BY <1>1
  <2>. QED
    BY <1>1, <1>4, <2>1
<1>. QED
  BY <1>1, <1>2, <1>3, <1>7, <1>8 DEF u

-----------------------------------------------------------------------------
(* Words.                                                                  *)

LEMMA ScannedType ==
  ASSUME NEW C, NEW t \in Seq(C)
  PROVE  Scanned(t) \in Scan(C)
<1>. DEFINE S == {u \in Seq(C) : Scanned(u) \in Scan(C)}
<1>1. <<>> \in S
  <2>1. <<>> \in Seq(C) /\ <<>> \in Seq(Seq(C))
    BY EmptySeq
  <2>2. ScanStart \in Scan(C)
    BY <2>1 DEF ScanStart, Scan
  <2>. QED
    BY <2>1, <2>2, ScannedEmpty
<1>2. ASSUME NEW u \in Seq(C), u \in S, NEW c \in C PROVE Append(u, c) \in S
  <2>1. Scanned(Append(u, c)) = ScanStep(Scanned(u), c) /\ Append(u, c) \in Seq(C)
    BY ScannedAppend
  <2>2. ScanStep(Scanned(u), c) \in Scan(C)
    BY <1>2, ScanStepType
  <2>. QED
    BY <2>1, <2>2
<1>. HIDE DEF S
<1>3. Seq(C) \subseteq S
  BY <1>1, <1>2, TextInduction
<1>. QED
  BY <1>3 DEF S

\* The runs that a separator ends, and the k characters of the one that is not ended.
Closed(t) == {r \in Runs(t) : r[2] < Len(t)}

OpenRun(t, k) ==
  /\ k \in 0 .. Len(t)
  /\ \A i \in Len(t) - k + 1 .. Len(t) : t[i] \notin Separator
  /\ Len(t) - k >= 1 => t[Len(t) - k] \in Separator

LEMMA ClosedIsBefore ==
  ASSUME NEW C, NEW t \in Seq(C), NEW k, OpenRun(t, k), NEW r \in Closed(t)
  PROVE  /\ r \in Nat \X Nat /\ r = <<r[1], r[2]>> /\ 1 <= r[1] /\ r[1] <= r[2]
         /\ r[2] < Len(t) - k + 1
<1>1. Len(t) \in Nat /\ k \in 0 .. Len(t)
  BY LenProperties DEF OpenRun
<1>2. /\ r \in (1 .. Len(t)) \X (1 .. Len(t)) /\ r[1] <= r[2] /\ r[2] < Len(t)
      /\ t[r[2] + 1] \in Separator
  BY DEF Closed, Runs
<1>3. ~ (r[2] + 1 \in Len(t) - k + 1 .. Len(t))
  BY <1>2 DEF OpenRun
<1>. QED
  BY <1>1, <1>2, <1>3

LEMMA RunAtTheEnd ==
  ASSUME NEW C, NEW t \in Seq(C), NEW k, OpenRun(t, k)
  PROVE  Runs(t) = IF k > 0 THEN Closed(t) \cup {<<Len(t) - k + 1, Len(t)>>} ELSE Closed(t)
<1>. DEFINE n == Len(t)
            x == <<n - k + 1, n>>
<1>1. n \in Nat /\ k \in 0 .. n
  BY LenProperties DEF OpenRun
<1>2. k > 0 => x \in Runs(t)
  BY <1>1 DEF OpenRun, Runs
<1>3. ASSUME NEW r \in Runs(t), r[2] >= n PROVE k > 0 /\ r = x
  <2>1. /\ r \in (1 .. n) \X (1 .. n) /\ r[1] <= r[2] /\ r = <<r[1], r[2]>>
        /\ \A i \in r[1] .. r[2] : t[i] \notin Separator
        /\ r[1] > 1 => t[r[1] - 1] \in Separator
    BY DEF Runs
  <2>2. r[2] = n
    BY <1>3, <2>1
  <2>3. ~ (r[1] <= n - k)
    <3>. SUFFICES ASSUME r[1] <= n - k PROVE FALSE
      OBVIOUS
    <3>1. n - k \in r[1] .. r[2] /\ n - k >= 1
      BY <1>1, <2>1, <2>2
    <3>. QED
      BY <2>1, <3>1 DEF OpenRun
  <2>4. ~ (r[1] > n - k + 1)
    <3>. SUFFICES ASSUME r[1] > n - k + 1 PROVE FALSE
      OBVIOUS
    <3>1. r[1] - 1 \in n - k + 1 .. n /\ r[1] > 1
      BY <1>1, <2>1, <2>2
    <3>. QED
      BY <2>1, <3>1 DEF OpenRun
  <2>5. r[1] = n - k + 1
    BY <1>1, <2>1, <2>3, <2>4
  <2>. QED
    BY <1>1, <2>1, <2>2, <2>5
<1>4. \A r \in Runs(t) : r[2] \in 1 .. n
  BY DEF Runs
<1>. HIDE DEF x
<1>5. \A r \in Runs(t) : r \in Closed(t) \/ (k > 0 /\ r = x)
  BY <1>1, <1>3, <1>4 DEF Closed
<1>6. Closed(t) \subseteq Runs(t)
  BY DEF Closed
<1>. QED
  BY <1>2, <1>5, <1>6 DEF x

\* A character more: a separator ends the run that was open, anything else ends none.
LEMMA ClosedAppend ==
  ASSUME NEW C, NEW t \in Seq(C), NEW c \in C
  PROVE  Closed(Append(t, c)) = IF c \in Separator THEN Runs(t) ELSE Closed(t)
<1>. DEFINE u == Append(t, c)
            n == Len(t)
<1>1. /\ n \in Nat /\ Len(u) = n + 1 /\ u[n + 1] = c /\ \A i \in 1 .. n : u[i] = t[i]
  BY AppendProperties, LenProperties
<1>. HIDE DEF u
<1>2. ASSUME NEW r \in (1 .. n) \X (1 .. n), r[1] <= r[2]
      PROVE  /\ (\A i \in r[1] .. r[2] : u[i] \notin Separator)
                  <=> (\A i \in r[1] .. r[2] : t[i] \notin Separator)
             /\ r[1] > 1 => u[r[1] - 1] = t[r[1] - 1]
             /\ r[2] < n => u[r[2] + 1] = t[r[2] + 1]
             /\ r[2] < n \/ (r[2] = n /\ u[r[2] + 1] = c)
  <2>1. \A i \in r[1] .. r[2] : i \in 1 .. n
    BY <1>1
  <2>2. r[1] > 1 => r[1] - 1 \in 1 .. n
    BY <1>1
  <2>3. r[2] < n => r[2] + 1 \in 1 .. n
    BY <1>1
  <2>. QED
    BY <1>1, <2>1, <2>2, <2>3
<1>3. ASSUME NEW r \in Closed(u)
      PROVE  r \in Runs(t) /\ (c \in Separator \/ r \in Closed(t))
  <2>1. /\ r \in (1 .. n) \X (1 .. n) /\ r[1] <= r[2]
        /\ \A i \in r[1] .. r[2] : u[i] \notin Separator
        /\ r[1] > 1 => u[r[1] - 1] \in Separator
        /\ u[r[2] + 1] \in Separator
    BY <1>1 DEF Closed, Runs
  <2>. QED
    BY <1>2, <2>1 DEF Closed, Runs
<1>4. ASSUME NEW r \in Runs(t), c \in Separator \/ r \in Closed(t)
      PROVE  r \in Closed(u)
  <2>1. /\ r \in (1 .. n) \X (1 .. n) /\ r[1] <= r[2]
        /\ \A i \in r[1] .. r[2] : t[i] \notin Separator
        /\ r[1] > 1 => t[r[1] - 1] \in Separator
        /\ r[2] < n => t[r[2] + 1] \in Separator
        /\ c \in Separator \/ r[2] < n
    BY <1>4 DEF Closed, Runs
  <2>2. /\ \A i \in r[1] .. r[2] : u[i] \notin Separator
        /\ r[1] > 1 => u[r[1] - 1] \in Separator
        /\ u[r[2] + 1] \in Separator
    BY <1>2, <2>1
  <2>3. r \in (1 .. n + 1) \X (1 .. n + 1) /\ r[2] < n + 1
    BY <1>1, <2>1
  <2>. QED
    BY <1>1, <2>1, <2>2, <2>3 DEF Closed, Runs
<1>5. Closed(t) \subseteq Runs(t)
  BY DEF Closed
<1>. QED
  BY <1>3, <1>4, <1>5 DEF u

LEMMA SubSeqOfLonger ==
  ASSUME NEW C, NEW t \in Seq(C), NEW c \in C, NEW m \in Nat \ {0}, NEW n \in 0 .. Len(t)
  PROVE  SubSeq(Append(t, c), m, n) = SubSeq(t, m, n)
<1>. DEFINE u == Append(t, c)
<1>1. /\ Len(t) \in Nat /\ u \in Seq(C) /\ \A i \in 1 .. Len(t) : u[i] = t[i] /\ t[i] \in C
  BY AppendProperties, LenProperties
<1>. HIDE DEF u
<1>2. \A i \in m .. n : i \in 1 .. Len(t)
  BY <1>1
<1>3. \A i \in m .. n : t[i] \in C /\ u[i] \in C
  BY <1>1, <1>2
<1>4. /\ SubSeq(t, m, n) \in Seq(C) /\ Len(SubSeq(t, m, n)) = (IF m <= n THEN n - m + 1 ELSE 0)
      /\ \A i \in 1 .. n - m + 1 : SubSeq(t, m, n)[i] = t[m + i - 1]
  BY <1>1, <1>3, SubSeqProperties
<1>5. /\ SubSeq(u, m, n) \in Seq(C) /\ Len(SubSeq(u, m, n)) = (IF m <= n THEN n - m + 1 ELSE 0)
      /\ \A i \in 1 .. n - m + 1 : SubSeq(u, m, n)[i] = u[m + i - 1]
  BY <1>1, <1>3, SubSeqProperties
<1>6. \A i \in 1 .. Len(SubSeq(t, m, n)) : SubSeq(t, m, n)[i] = SubSeq(u, m, n)[i]
  <2>1. \A i \in 1 .. n - m + 1 : m + i - 1 \in 1 .. Len(t)
    BY <1>1
  <2>. QED
    BY <1>1, <1>4, <1>5, <2>1
<1>. QED
  BY <1>4, <1>5, <1>6, SeqEqual DEF u

\* The words are the runs in their order.
Lists(t, runs, words) ==
  /\ IsFiniteSet(runs) /\ Cardinality(runs) = Len(words)
  /\ \A r \in runs : Nth(runs, r) \in 1 .. Len(words)
                       /\ words[Nth(runs, r)] = SubSeq(t, r[1], r[2])

LEMMA Appended ==
  ASSUME NEW C, NEW s \in Seq(C), NEW c \in C
  PROVE  /\ Len(s) \in Nat /\ Len(Append(s, c)) = Len(s) + 1
         /\ Append(s, c)[Len(s) + 1] = c
         /\ \A i \in 1 .. Len(s) : Append(s, c)[i] = s[i]
BY AppendProperties, LenProperties

LEMMA ListsOneMore ==
  ASSUME NEW C, NEW t, NEW runs, NEW words \in Seq(C), NEW x, NEW w \in C,
         Lists(t, runs, words), w = SubSeq(t, x[1], x[2]),
         x[1] \in Nat, \A r \in runs : r[1] \in Nat /\ r[1] < x[1]
  PROVE  Lists(t, runs \cup {x}, Append(words, w))
<1>. DEFINE more == runs \cup {x}
            now  == Append(words, w)
<1>1. /\ Len(words) \in Nat /\ Len(now) = Len(words) + 1 /\ now[Len(words) + 1] = w
      /\ \A i \in 1 .. Len(words) : now[i] = words[i]
  BY Appended, ZenonT(30)
<1>2. x \notin runs
  OBVIOUS
<1>3. IsFiniteSet(more) /\ Cardinality(more) = Cardinality(runs) + 1
  BY <1>2, FS_AddElement DEF Lists
<1>4. ASSUME NEW r \in runs PROVE Nth(more, r) = Nth(runs, r)
  <2>1. {q \in more : q[1] <= r[1]} = {q \in runs : q[1] <= r[1]}
    OBVIOUS
  <2>. QED
    BY <2>1 DEF Nth
<1>5. Nth(more, x) = Cardinality(more)
  <2>1. {q \in more : q[1] <= x[1]} = more
    OBVIOUS
  <2>. QED
    BY <2>1 DEF Nth
<1>6. Cardinality(more) = Len(now) /\ Nth(more, x) = Len(words) + 1
  BY <1>1, <1>3, <1>5 DEF Lists
<1>. HIDE DEF more, now
<1>7. ASSUME NEW r \in more
      PROVE  Nth(more, r) \in 1 .. Len(now) /\ now[Nth(more, r)] = SubSeq(t, r[1], r[2])
  <2>1. CASE r \in runs
    BY <1>1, <1>4, <2>1 DEF Lists
  <2>2. CASE r = x
    BY <1>1, <1>6, <2>2
  <2>. QED
    BY <2>1, <2>2 DEF more
<1>8. Lists(t, more, now)
  BY <1>3, <1>6, <1>7 DEF Lists
<1>. QED
  BY <1>8 DEF more, now

LEMMA ListsLonger ==
  ASSUME NEW C, NEW t \in Seq(C), NEW c \in C, NEW runs, NEW words, Lists(t, runs, words),
         \A r \in runs : r[1] \in Nat \ {0} /\ r[2] \in 0 .. Len(t)
  PROVE  Lists(Append(t, c), runs, words)
<1>1. ASSUME NEW r \in runs PROVE SubSeq(Append(t, c), r[1], r[2]) = SubSeq(t, r[1], r[2])
  <2>1. PICK m \in Nat \ {0}, n \in 0 .. Len(t) : m = r[1] /\ n = r[2]
    OBVIOUS
  <2>2. SubSeq(Append(t, c), m, n) = SubSeq(t, m, n)
    BY SubSeqOfLonger
  <2>. QED
    BY <2>1, <2>2
<1>. QED
  BY <1>1 DEF Lists

LEMMA OpenRunLonger ==
  ASSUME NEW C, NEW t \in Seq(C), NEW c \in C, NEW k, OpenRun(t, k)
  PROVE  OpenRun(Append(t, c), IF c \in Separator THEN 0 ELSE k + 1)
<1>. DEFINE v == Append(t, c)
            n == Len(t)
<1>1. /\ n \in Nat /\ Len(v) = n + 1 /\ v[n + 1] = c /\ \A i \in 1 .. n : v[i] = t[i]
  BY AppendProperties, LenProperties
<1>2. /\ k \in 0 .. n /\ \A i \in n - k + 1 .. n : t[i] \notin Separator
      /\ n - k >= 1 => t[n - k] \in Separator
  BY DEF OpenRun
<1>. HIDE DEF v, n
<1>3. CASE c \in Separator
  <2>1. OpenRun(v, 0)
    BY <1>1, <1>3 DEF OpenRun
  <2>. QED
    BY <1>3, <2>1 DEF v
<1>4. CASE c \notin Separator
  <2>1. /\ k + 1 \in 0 .. n + 1 /\ (n + 1) - (k + 1) + 1 = n - k + 1
        /\ (n + 1) - (k + 1) = n - k
    BY <1>1, <1>2
  <2>2. ASSUME NEW i \in n - k + 1 .. n + 1 PROVE v[i] \notin Separator
    <3>1. i = n + 1 \/ (i \in n - k + 1 .. n /\ i \in 1 .. n)
      BY <1>1, <1>2
    <3>. QED
      BY <1>1, <1>2, <1>4, <3>1
  <2>3. n - k >= 1 => v[n - k] \in Separator
    <3>1. n - k >= 1 => n - k \in 1 .. n
      BY <1>1, <1>2
    <3>. QED
      BY <1>1, <1>2, <3>1
  <2>4. OpenRun(v, k + 1)
    BY <1>1, <2>1, <2>2, <2>3 DEF OpenRun
  <2>. QED
    BY <1>4, <2>4 DEF v
<1>. QED
  BY <1>3, <1>4

\* What strtok has found in a text, and what it is in.
ScanInv(t) ==
  LET acc == Scanned(t)
      k   == Len(acc.word)
  IN  /\ OpenRun(t, k)
      /\ acc.word = SubSeq(t, Len(t) - k + 1, Len(t))
      /\ Lists(t, Closed(t), acc.words)

\* The words that are found when the open run counts.
Found(acc) == IF acc.word = <<>> THEN acc.words ELSE Append(acc.words, acc.word)

LEMMA FoundRuns ==
  ASSUME NEW C, NEW t \in Seq(C), ScanInv(t)
  PROVE  Found(Scanned(t)) \in Seq(Seq(C)) /\ Lists(t, Runs(t), Found(Scanned(t)))
<1>. DEFINE acc == Scanned(t)
            k   == Len(acc.word)
            x   == <<Len(t) - k + 1, Len(t)>>
<1>1. acc.words \in Seq(Seq(C)) /\ acc.word \in Seq(C) /\ k \in Nat /\ Len(t) \in Nat
  BY ScannedType, LenProperties DEF Scan
<1>2. /\ OpenRun(t, k) /\ acc.word = SubSeq(t, Len(t) - k + 1, Len(t))
      /\ Lists(t, Closed(t), acc.words)
  BY DEF ScanInv
<1>. HIDE DEF acc
<1>3. CASE acc.word = <<>>
  <2>1. Runs(t) = Closed(t)
    BY <1>2, <1>3, RunAtTheEnd, EmptySeq
  <2>. QED
    BY <1>1, <1>2, <1>3, <2>1 DEF Found, acc
<1>4. CASE acc.word # <<>>
  <2>1. k > 0
    BY <1>1, <1>4, EmptySeq
  <2>2. Runs(t) = Closed(t) \cup {x}
    BY <1>2, <2>1, RunAtTheEnd
  <2>3. x[1] \in Nat /\ x[1] = Len(t) - k + 1 /\ x[2] = Len(t)
    BY <1>1, <1>2 DEF OpenRun
  <2>. HIDE DEF x, k
  <2>4. ASSUME NEW r \in Closed(t) PROVE r[1] \in Nat /\ r[1] < x[1]
    <3>1. /\ r \in Nat \X Nat /\ r = <<r[1], r[2]>> /\ r[1] <= r[2]
          /\ r[2] < Len(t) - k + 1
      BY <1>2, ClosedIsBefore
    <3>2. r[1] \in Nat /\ r[2] \in Nat
      BY <3>1
    <3>. QED
      BY <1>1, <2>3, <3>1, <3>2
  <2>5. Lists(t, Closed(t) \cup {x}, Append(acc.words, acc.word))
    <3>1. acc.word = SubSeq(t, x[1], x[2])
      BY <1>2, <2>3
    <3>2. Lists(t, Closed(t), acc.words) /\ x[1] \in Nat
      BY <1>2, <2>3
    <3>. QED
      BY <1>1, <2>4, <3>1, <3>2, ListsOneMore
  <2>. QED
    BY <1>1, <1>4, <2>2, <2>5 DEF Found, acc
<1>. QED
  BY <1>3, <1>4

LEMMA ScanInvHolds ==
  ASSUME NEW C, NEW t \in Seq(C)
  PROVE  ScanInv(t)
<1>. DEFINE S == {u \in Seq(C) : ScanInv(u)}
<1>1. <<>> \in S
  <2>1. <<>> \in Seq(C) /\ Len(<<>>) = 0 /\ Scanned(<<>>) = ScanStart
    BY EmptySeq, ScannedEmpty
  <2>2. OpenRun(<<>>, 0) /\ SubSeq(<<>>, 1, 0) = <<>>
    BY <2>1, SubSeqEmpty DEF OpenRun
  <2>3. Closed(<<>>) = {}
    BY <2>1 DEF Closed, Runs
  <2>4. Lists(<<>>, {}, <<>>)
    BY <2>1, FS_EmptySet DEF Lists
  <2>5. ScanStart.word = <<>> /\ ScanStart.words = <<>> /\ 0 - 0 + 1 = 1
    BY DEF ScanStart
  <2>6. ScanInv(<<>>)
    BY <2>1, <2>2, <2>3, <2>4, <2>5 DEF ScanInv
  <2>. QED
    BY <2>1, <2>6
<1>2. ASSUME NEW u \in Seq(C), u \in S, NEW c \in C PROVE Append(u, c) \in S
  <2>. DEFINE v == Append(u, c)
              n == Len(u)
              acc == Scanned(u)
              next == Scanned(v)
              k == Len(acc.word)
  <2>1. /\ v \in Seq(C) /\ n \in Nat /\ Len(v) = n + 1 /\ v[n + 1] = c
        /\ \A i \in 1 .. n : v[i] = u[i]
    BY AppendProperties, LenProperties
  <2>2. next = ScanStep(acc, c)
    BY ScannedAppend
  <2>3. acc.words \in Seq(Seq(C)) /\ acc.word \in Seq(C) /\ k \in Nat /\ acc \in Scan(C)
    BY ScannedType, LenProperties DEF Scan
  <2>4. OpenRun(u, k) /\ acc.word = SubSeq(u, n - k + 1, n) /\ Lists(u, Closed(u), acc.words)
    BY <1>2 DEF ScanInv
  <2>5. ASSUME NEW runs, NEW words, runs \subseteq Runs(u), Lists(u, runs, words)
        PROVE  Lists(v, runs, words)
    <3>1. \A r \in runs : r[1] \in Nat \ {0} /\ r[2] \in 0 .. n
      BY <2>5 DEF Runs
    <3>. QED
      BY <2>5, <3>1, ListsLonger
  <2>6. CASE c \notin Separator
    <3>1. next.words = acc.words /\ next.word = Append(acc.word, c)
      BY <2>2, <2>3, <2>6 DEF ScanStep, Scan
    <3>2. Len(next.word) = k + 1
      BY <2>3, <3>1, AppendProperties
    <3>3. OpenRun(v, k + 1)
      BY <2>4, <2>6, OpenRunLonger
    <3>4. Append(acc.word, c) = SubSeq(v, n - k + 1, n + 1)
      <4>1. k \in 0 .. n
        BY <2>4 DEF OpenRun
      <4>. HIDE DEF v, n, acc, k
      <4>2. n - k + 1 \in 1 .. Len(v) /\ n + 1 \in n - k + 1 .. Len(v)
        BY <2>1, <4>1
      <4>3. SubSeq(v, n - k + 1, n + 1) = SubSeq(v, n - k + 1, (n + 1) - 1) \o <<v[n + 1]>>
        BY <2>1, <4>2, SubSeqRecursiveSecond
      <4>4. (n + 1) - 1 = n /\ n - k + 1 \in Nat \ {0} /\ n \in 0 .. n
        BY <2>1, <4>1
      <4>5. SubSeq(v, n - k + 1, n) = acc.word
        <5>1. SubSeq(v, n - k + 1, n) = SubSeq(u, n - k + 1, n)
          BY <4>4, SubSeqOfLonger DEF v, n
        <5>. QED
          BY <2>4, <5>1
      <4>6. Append(acc.word, c) = acc.word \o <<c>>
        BY <2>3, AppendIsConcat
      <4>. QED
        BY <2>1, <4>3, <4>4, <4>5, <4>6
    <3>5. Lists(v, Closed(v), acc.words)
      <4>1. Closed(v) = Closed(u) /\ Closed(u) \subseteq Runs(u)
        BY <2>6, ClosedAppend DEF Closed
      <4>. QED
        BY <2>4, <2>5, <4>1
    <3>6. (n + 1) - (k + 1) + 1 = n - k + 1
      BY <2>1, <2>3
    <3>. HIDE DEF v, n, acc, next, k
    <3>7. ScanInv(v)
      BY <2>1, <3>1, <3>2, <3>3, <3>4, <3>5, <3>6 DEF ScanInv, next
    <3>. QED
      BY <2>1, <3>7 DEF v
  <2>7. CASE c \in Separator
    <3>1. next = [words |-> Found(acc), word |-> <<>>]
      BY <2>2, <2>3, <2>7 DEF ScanStep, Scan, Found
    <3>2. Len(next.word) = 0 /\ next.word = <<>> /\ next.words = Found(acc)
      BY <3>1, EmptySeq
    <3>3. OpenRun(v, 0)
      BY <2>4, <2>7, OpenRunLonger
    <3>4. SubSeq(v, (n + 1) - 0 + 1, n + 1) = <<>>
      BY <2>1, SubSeqEmpty
    <3>5. Closed(v) = Runs(u)
      BY <2>7, ClosedAppend
    <3>6. Lists(v, Closed(v), Found(acc))
      BY <1>2, <2>5, <3>5, FoundRuns
    <3>. HIDE DEF v, n, acc, next, k
    <3>7. ScanInv(v)
      BY <2>1, <3>2, <3>3, <3>4, <3>6 DEF ScanInv, next
    <3>. QED
      BY <2>1, <3>7 DEF v
  <2>. QED
    BY <2>6, <2>7
<1>. HIDE DEF S
<1>3. Seq(C) \subseteq S
  BY <1>1, <1>2, TextInduction
<1>. QED
  BY <1>3 DEF S

LEMMA WordsAreRuns ==
  ASSUME NEW C, NEW t \in Seq(C)
  PROVE  Words(t) \in Seq(Seq(C)) /\ Lists(t, Runs(t), Words(t))
<1>1. Words(t) = Found(Scanned(t))
  BY DEF Words, Found
<1>. QED
  BY <1>1, ScanInvHolds, FoundRuns

LEMMA SplitIsRight ==
  ASSUME NEW C, NEW t \in Seq(C), NEW max \in Nat
  PROVE  /\ Split(t, max).argc =
              IF Cardinality(Runs(t)) <= max THEN Cardinality(Runs(t)) ELSE max + 1
         /\ \A r \in Runs(t) : Nth(Runs(t), r) <= max =>
              Split(t, max).argv[Nth(Runs(t), r)] = SubSeq(t, r[1], r[2])
<1>. DEFINE words == Words(t)
            R == Runs(t)
<1>1. words \in Seq(Seq(C)) /\ Len(words) \in Nat /\ DOMAIN words = 1 .. Len(words)
  BY WordsAreRuns, LenProperties
<1>2. /\ Cardinality(R) = Len(words)
      /\ \A r \in R : Nth(R, r) \in 1 .. Len(words) /\ words[Nth(R, r)] = SubSeq(t, r[1], r[2])
  BY WordsAreRuns DEF Lists
<1>3. Split(t, max) = IF Len(words) <= max THEN [argc |-> Len(words), argv |-> words]
                      ELSE [argc |-> max + 1, argv |-> SubSeq(words, 1, max)]
  BY DEF Split
<1>. HIDE DEF words, R
<1>4. CASE Len(words) <= max
  <2>1. Split(t, max).argc = Len(words) /\ Split(t, max).argv = words
    BY <1>3, <1>4
  <2>. QED
    BY <1>2, <1>4, <2>1 DEF R
<1>5. CASE ~ (Len(words) <= max)
  <2>1. Split(t, max).argc = max + 1 /\ Split(t, max).argv = SubSeq(words, 1, max)
    BY <1>3, <1>5
  <2>2. \A i \in 1 .. max : words[i] \in Seq(C)
    <3>1. \A i \in 1 .. max : i \in 1 .. Len(words)
      BY <1>1, <1>5
    <3>. QED
      BY <1>1, <3>1, ElementOfSeq
  <2>3. \A i \in 1 .. max : SubSeq(words, 1, max)[i] = words[i]
    <3>1. \A i \in 1 .. max - 1 + 1 : SubSeq(words, 1, max)[i] = words[1 + i - 1]
      BY <2>2, SubSeqProperties
    <3>. QED
      BY <3>1
  <2>4. ASSUME NEW r \in R, Nth(R, r) <= max
        PROVE  Split(t, max).argv[Nth(R, r)] = SubSeq(t, r[1], r[2])
    <3>1. Nth(R, r) \in 1 .. max
      BY <1>2, <2>4
    <3>. QED
      BY <1>2, <2>1, <2>3, <3>1
  <2>. QED
    BY <1>1, <1>2, <1>5, <2>1, <2>4 DEF R
<1>. QED
  BY <1>4, <1>5

-----------------------------------------------------------------------------
(* Digits.                                                                 *)

LEMMA NumeralsDiffer ==
  ASSUME NEW i \in 1 .. 10, NEW j \in 1 .. 10, Numeral[i] = Numeral[j]
  PROVE  i = j
BY DEF Numeral

LEMMA DigitValue ==
  /\ Base \in Nat /\ 2 <= Base
  /\ \A c \in Digit : ValueOf(c) \in 0 .. Base - 1 /\ Numeral[ValueOf(c) + 1] = c
  /\ \A v \in 0 .. Base - 1 : Numeral[v + 1] \in Digit /\ ValueOf(Numeral[v + 1]) = v
<1>1. Base \in 2 .. 10
  BY TextAssumption
<1>2. ASSUME NEW c \in Digit PROVE ValueOf(c) \in 0 .. Base - 1 /\ Numeral[ValueOf(c) + 1] = c
  <2>1. PICK i \in 1 .. Base : Numeral[i] = c
    BY DEF Digit
  <2>2. i - 1 \in 0 .. Base - 1 /\ Numeral[(i - 1) + 1] = c
    BY <1>1, <2>1
  <2>3. \E v \in 0 .. Base - 1 : Numeral[v + 1] = c
    BY <2>2
  <2>. QED
    BY <2>3 DEF ValueOf
<1>3. ASSUME NEW v \in 0 .. Base - 1
      PROVE  Numeral[v + 1] \in Digit /\ ValueOf(Numeral[v + 1]) = v
  <2>1. v + 1 \in 1 .. Base
    BY <1>1
  <2>2. Numeral[v + 1] \in Digit
    BY <2>1 DEF Digit
  <2>3. PICK w \in 0 .. Base - 1 : w = ValueOf(Numeral[v + 1]) /\ Numeral[w + 1] = Numeral[v + 1]
    BY <1>2, <2>2
  <2>4. w + 1 \in 1 .. 10 /\ v + 1 \in 1 .. 10
    BY <1>1
  <2>5. w + 1 = v + 1
    BY <2>3, <2>4, NumeralsDiffer
  <2>. QED
    BY <2>2, <2>3, <2>5
<1>. QED
  BY <1>1, <1>2, <1>3

LEMMA PowerFolds ==
  ASSUME NEW n \in Nat
  PROVE  \E p \in [0 .. n -> Nat] :
           /\ Power(n) = p[n]
           /\ \A k \in 0 .. n : p[k] = IF k = 0 THEN 1 ELSE Base * p[k - 1]
<1>. DEFINE D == 0 .. n
            Right(p) == p = [k \in D |-> IF k = 0 THEN 1 ELSE Base * p[k - 1]]
            rank  == [k \in D |-> k]
            down  == [k \in D |-> IF k = 0 THEN 0 ELSE k - 1]
            first == [k \in D |-> 1]
            step  == [q \in Nat \X D |-> Base * q[1]]
<1>1. Base \in Nat
  BY DigitValue
<1>2. Descends(D, Nat, {0}, n, rank, down, first, step)
  <2>1. rank \in [D -> Nat] /\ down \in [D -> D] /\ first \in [D -> Nat]
    OBVIOUS
  <2>2. step \in [Nat \X D -> Nat]
    BY <1>1
  <2>3. \A k \in D : rank[k] <= n
    OBVIOUS
  <2>4. \A k \in D : k \notin {0} => rank[down[k]] < rank[k]
    OBVIOUS
  <2>. QED
    BY <2>1, <2>2, <2>3, <2>4 DEF Descends
<1>3. IsDefined(D, Nat, {0}, down, first, step)
  BY <1>2, Recursion
<1>4. PICK g \in [D -> Nat] :
        \A k \in D : g[k] = IF k \in {0} THEN first[k] ELSE step[<<g[down[k]], k>>]
  BY <1>3 DEF IsDefined
<1>5. ASSUME NEW k \in D PROVE g[k] = IF k = 0 THEN 1 ELSE Base * g[k - 1]
  <2>1. CASE k = 0
    BY <1>4, <2>1
  <2>2. CASE k # 0
    <3>1. down[k] = k - 1 /\ k - 1 \in D /\ g[k - 1] \in Nat
      BY <2>2
    <3>. QED
      BY <1>4, <2>2, <3>1
  <2>. QED
    BY <2>1, <2>2
<1>6. Right(g)
  BY <1>5
<1>. DEFINE p == CHOOSE p : Right(p)
<1>7. Right(p)
  BY <1>6
<1>8. Power(n) = p[n]
  BY DEF Power
<1>. HIDE DEF p
<1>9. \A k \in D : p[k] = IF k = 0 THEN 1 ELSE Base * p[k - 1]
  BY <1>7
<1>. DEFINE N == {k \in Nat : k <= n => p[k] \in Nat}
<1>10. 0 \in N
  BY <1>9
<1>11. ASSUME NEW k \in Nat, k \in N PROVE k + 1 \in N
  <2>. SUFFICES ASSUME k + 1 <= n PROVE p[k + 1] \in Nat
    OBVIOUS
  <2>1. p[k] \in Nat /\ p[k + 1] = Base * p[(k + 1) - 1] /\ (k + 1) - 1 = k
    BY <1>9, <1>11
  <2>. QED
    BY <1>1, <2>1
<1>. HIDE DEF N
<1>12. Nat \subseteq N
  BY <1>10, <1>11, StepInduction
<1>13. \A k \in D : p[k] \in Nat
  BY <1>12 DEF N
<1>14. DOMAIN p = D /\ p = [k \in DOMAIN p |-> p[k]]
  BY <1>7
<1>15. p \in [D -> Nat]
  BY <1>13, <1>14
<1>. QED
  BY <1>8, <1>9, <1>15

LEMMA PowerSteps ==
  /\ Power(0) = 1
  /\ \A n \in Nat : Power(n) \in Nat /\ Power(n + 1) = Base * Power(n)
<1>1. Power(0) = 1
  <2>1. PICK n \in Nat : n = 0
    OBVIOUS
  <2>2. PICK p \in [0 .. n -> Nat] : /\ Power(n) = p[n]
                                    /\ \A k \in 0 .. n : p[k] = IF k = 0 THEN 1 ELSE Base * p[k - 1]
    BY PowerFolds
  <2>3. p[0] = 1
    BY <2>1, <2>2
  <2>. QED
    BY <2>1, <2>2, <2>3
<1>2. ASSUME NEW n \in Nat PROVE Power(n) \in Nat /\ Power(n + 1) = Base * Power(n)
  <2>1. PICK p \in [0 .. n -> Nat] : /\ Power(n) = p[n]
                                    /\ \A k \in 0 .. n : p[k] = IF k = 0 THEN 1 ELSE Base * p[k - 1]
    BY PowerFolds
  <2>2. PICK q \in [0 .. n + 1 -> Nat] :
          /\ Power(n + 1) = q[n + 1]
          /\ \A k \in 0 .. n + 1 : q[k] = IF k = 0 THEN 1 ELSE Base * q[k - 1]
    <3>1. PICK m \in Nat : m = n + 1
      OBVIOUS
    <3>2. \E q \in [0 .. m -> Nat] :
            /\ Power(m) = q[m]
            /\ \A k \in 0 .. m : q[k] = IF k = 0 THEN 1 ELSE Base * q[k - 1]
      BY PowerFolds
    <3>. QED
      BY <3>1, <3>2
  <2>. DEFINE N == {k \in Nat : k <= n => p[k] = q[k]}
  <2>3. 0 \in N
    BY <2>1, <2>2
  <2>4. ASSUME NEW k \in Nat, k \in N PROVE k + 1 \in N
    <3>. SUFFICES ASSUME k + 1 <= n PROVE p[k + 1] = q[k + 1]
      OBVIOUS
    <3>1. p[k] = q[k] /\ (k + 1) - 1 = k /\ k + 1 # 0 /\ k + 1 \in 0 .. n /\ k + 1 \in 0 .. n + 1
      BY <2>4
    <3>2. p[k + 1] = Base * p[k] /\ q[k + 1] = Base * q[k]
      BY <2>1, <2>2, <3>1
    <3>. QED
      BY <3>1, <3>2
  <2>. HIDE DEF N
  <2>5. Nat \subseteq N
    BY <2>3, <2>4, StepInduction
  <2>6. p[n] = q[n]
    BY <2>5 DEF N
  <2>7. q[n + 1] = Base * q[n]
    <3>1. n + 1 \in 0 .. n + 1 /\ (n + 1) - 1 = n /\ n + 1 # 0
      OBVIOUS
    <3>. QED
      BY <2>2, <3>1
  <2>. QED
    BY <2>1, <2>2, <2>6, <2>7
<1>. QED
  BY <1>1, <1>2

\* One term of the sum, and the fold that adds them.
Term(t, i) == ValueOf(t[i]) * Power(Len(t) - i)

AnyOf(s) == CHOOSE x \in s : TRUE

Sums(t, g) ==
  g = [s \in SUBSET DOMAIN t |->
         IF s = {} THEN 0 ELSE LET x == AnyOf(s) IN Term(t, x) + g[s \ {x}]]

LEMMA TermType ==
  ASSUME NEW t \in Seq(Digit), NEW i \in DOMAIN t
  PROVE  Term(t, i) \in Nat
<1>1. i \in 1 .. Len(t) /\ Len(t) - i \in Nat /\ t[i] \in Digit
  OBVIOUS
<1>2. ValueOf(t[i]) \in Nat /\ Power(Len(t) - i) \in Nat
  BY <1>1, DigitValue, PowerSteps
<1>. QED
  BY <1>2 DEF Term

LEMMA SumExists ==
  ASSUME NEW t \in Seq(Digit)
  PROVE  \E g : Sums(t, g)
<1>. DEFINE D == DOMAIN t
            pick == [s \in SUBSET D |-> AnyOf(s)]
            step == [p \in Nat \X D |-> Term(t, p[2]) + p[1]]
<1>1. IsFiniteSet(D)
  <2>1. D = 1 .. Len(t) /\ Len(t) \in Nat
    OBVIOUS
  <2>. QED
    BY <2>1, FS_Interval
<1>2. \A s \in SUBSET D : s # {} => pick[s] \in s
  BY DEF AnyOf
<1>3. step \in [Nat \X D -> Nat]
  BY TermType
<1>. HIDE DEF step, pick, D
<1>4. PICK g \in [SUBSET D -> Nat] : \A s \in SUBSET D :
        g[s] = IF s = {} THEN 0 ELSE step[<<g[s \ {pick[s]}], pick[s]>>]
  <2>1. Folds(D, Nat, 0, pick, step)
    BY <1>1, <1>2, <1>3 DEF Folds
  <2>2. IsFolded(D, Nat, 0, pick, step)
    BY <2>1, SetRecursion
  <2>. QED
    BY <2>2 DEF IsFolded
<1>5. ASSUME NEW s \in SUBSET D
      PROVE  g[s] = IF s = {} THEN 0 ELSE Term(t, AnyOf(s)) + g[s \ {AnyOf(s)}]
  <2>1. CASE s = {}
    BY <1>4, <2>1
  <2>2. CASE s # {}
    <3>1. pick[s] = AnyOf(s) /\ AnyOf(s) \in D /\ g[s \ {AnyOf(s)}] \in Nat
      BY <1>2, <2>2 DEF pick
    <3>2. g[s] = step[<<g[s \ {AnyOf(s)}], AnyOf(s)>>]
      BY <1>4, <2>2, <3>1
    <3>. QED
      BY <2>2, <3>1, <3>2 DEF step
  <2>. QED
    BY <2>1, <2>2
<1>. QED
  <2>1. g = [s \in SUBSET D |-> IF s = {} THEN 0 ELSE Term(t, AnyOf(s)) + g[s \ {AnyOf(s)}]]
    BY <1>5
  <2>. QED
    BY <2>1 DEF Sums, D

LEMMA NumberSums ==
  ASSUME NEW t \in Seq(Digit)
  PROVE  \E g : Sums(t, g) /\ Number(t) = g[DOMAIN t]
<1>. DEFINE g == CHOOSE g : Sums(t, g)
<1>1. Sums(t, g)
  BY SumExists
<1>2. Number(t) = g[DOMAIN t]
  BY DEF Number, MapThenSumSet, MapThenFoldSet, Sums, Term, AnyOf
<1>. QED
  BY <1>1, <1>2

LEMMA OneLess ==
  ASSUME NEW s, IsFiniteSet(s), NEW x \in s
  PROVE  /\ IsFiniteSet(s \ {x}) /\ Cardinality(s) \in Nat /\ Cardinality(s \ {x}) \in Nat
         /\ Cardinality(s \ {x}) = Cardinality(s) - 1
BY FS_RemoveElement, FS_CardinalityType

\* The sum does not depend on the order in which the terms are added.
Takes(t, g, s) == g[s] \in Nat /\ \A x \in s : g[s] = Term(t, x) + g[s \ {x}]

LEMMA TakesMore ==
  ASSUME NEW t, NEW g, NEW s, NEW c \in s, g[s] = Term(t, c) + g[s \ {c}],
         \A x \in s : Term(t, x) \in Nat /\ Takes(t, g, s \ {x}),
         \A x \in s : \A y \in s \ {x} : g[(s \ {x}) \ {y}] \in Nat
  PROVE  Takes(t, g, s)
<1>1. Term(t, c) \in Nat /\ g[s \ {c}] \in Nat
  BY DEF Takes
<1>2. ASSUME NEW x \in s, x # c PROVE g[s] = Term(t, x) + g[s \ {x}]
  <2>. DEFINE both == (s \ {c}) \ {x}
  <2>1. both = (s \ {x}) \ {c} /\ x \in s \ {c} /\ c \in s \ {x}
    BY <1>2
  <2>2. g[both] \in Nat
    BY <2>1
  <2>3. g[s \ {c}] = Term(t, x) + g[both]
    BY <2>1 DEF Takes
  <2>4. g[s \ {x}] = Term(t, c) + g[(s \ {x}) \ {c}]
    BY <2>1 DEF Takes
  <2>5. g[s \ {x}] = Term(t, c) + g[both]
    BY <2>1, <2>4
  <2>6. Term(t, x) \in Nat
    OBVIOUS
  <2>. HIDE DEF both
  <2>7. \A a, b, d \in Nat : a + (b + d) = b + (a + d)
    OBVIOUS
  <2>. QED
    BY <1>1, <2>2, <2>3, <2>5, <2>6, <2>7
<1>3. g[s] \in Nat
  BY <1>1
<1>. QED
  BY <1>2, <1>3 DEF Takes

LEMMA SumTakes ==
  ASSUME NEW t \in Seq(Digit), NEW g, Sums(t, g), NEW s \in SUBSET DOMAIN t
  PROVE  Takes(t, g, s)
<1>. DEFINE D == DOMAIN t
            N == {n \in Nat : \A r \in SUBSET D : Cardinality(r) = n => Takes(t, g, r)}
<1>1. \A x \in D : Term(t, x) \in Nat
  BY TermType
<1>2. ASSUME NEW r \in SUBSET D
      PROVE  /\ r = {} => g[r] = 0
             /\ r # {} => AnyOf(r) \in r /\ g[r] = Term(t, AnyOf(r)) + g[r \ {AnyOf(r)}]
  BY DEF Sums, AnyOf
<1>3. ASSUME NEW r \in SUBSET D
      PROVE  IsFiniteSet(r) /\ Cardinality(r) \in Nat
  <2>1. D = 1 .. Len(t) /\ Len(t) \in Nat
    OBVIOUS
  <2>2. IsFiniteSet(D)
    BY <2>1, FS_Interval
  <2>. QED
    BY <2>2, FS_Subset, FS_CardinalityType
<1>. HIDE DEF D
<1>4. ASSUME NEW n \in Nat, \A m \in Nat : m < n => m \in N PROVE n \in N
  <2>. SUFFICES ASSUME NEW r \in SUBSET D, Cardinality(r) = n PROVE Takes(t, g, r)
    OBVIOUS
  <2>1. ASSUME NEW less \in SUBSET D, Cardinality(less) < n PROVE Takes(t, g, less)
    <3>1. Cardinality(less) \in N
      BY <1>3, <1>4, <2>1
    <3>. QED
      BY <3>1
  <2>2. ASSUME NEW x \in r PROVE r \ {x} \in SUBSET D /\ Cardinality(r \ {x}) < n
    BY <1>3, OneLess
  <2>3. ASSUME NEW x \in r, NEW y \in r \ {x} PROVE g[(r \ {x}) \ {y}] \in Nat
    <3>. DEFINE q == r \ {x}
    <3>1. q \in SUBSET D /\ Cardinality(q) < n /\ y \in q
      BY <2>2
    <3>. HIDE DEF q
    <3>2. IsFiniteSet(q)
      BY <1>3, <3>1
    <3>3. Cardinality(q \ {y}) < n /\ q \ {y} \in SUBSET D
      BY <3>1, <3>2, OneLess
    <3>4. Takes(t, g, q \ {y})
      BY <2>1, <3>3
    <3>. QED
      BY <3>4 DEF q, Takes
  <2>4. CASE r = {}
    <3>1. g[r] = 0
      BY <1>2, <2>4
    <3>. QED
      BY <2>4, <3>1 DEF Takes
  <2>5. CASE r # {}
    <3>1. \A x \in r : Term(t, x) \in Nat /\ Takes(t, g, r \ {x})
      BY <1>1, <2>1, <2>2
    <3>2. AnyOf(r) \in r /\ g[r] = Term(t, AnyOf(r)) + g[r \ {AnyOf(r)}]
      BY <1>2, <2>5
    <3>. HIDE DEF N
    <3>. QED
      BY <2>3, <3>1, <3>2, TakesMore
  <2>. QED
    BY <2>4, <2>5
<1>. HIDE DEF N
<1>5. Nat \subseteq N
  BY <1>4, StrongInduction
<1>6. s \in SUBSET D /\ Cardinality(s) \in N
  BY <1>3, <1>5 DEF D
<1>. QED
  BY <1>6 DEF N

\* Positional notation, digit by digit.
LEMMA NumberSteps ==
  /\ Number(<<>>) = 0
  /\ \A t \in Seq(Digit), c \in Digit :
       Number(t) \in Nat /\ Number(Append(t, c)) = Base * Number(t) + ValueOf(c)
<1>1. Number(<<>>) = 0
  <2>1. PICK t \in Seq(Digit) : t = <<>>
    BY EmptySeq
  <2>2. PICK g : Sums(t, g) /\ Number(t) = g[DOMAIN t]
    BY NumberSums
  <2>3. DOMAIN t = {}
    BY <2>1
  <2>4. g[{}] = 0
    BY <2>2, <2>3 DEF Sums
  <2>. QED
    BY <2>1, <2>2, <2>3, <2>4
<1>2. ASSUME NEW t \in Seq(Digit), NEW c \in Digit
      PROVE  Number(t) \in Nat /\ Number(Append(t, c)) = Base * Number(t) + ValueOf(c)
  <2>. DEFINE u == Append(t, c)
              n == Len(t)
  <2>1. /\ u \in Seq(Digit) /\ n \in Nat /\ DOMAIN t = 1 .. n /\ DOMAIN u = 1 .. n + 1
        /\ Len(u) = n + 1 /\ u[n + 1] = c /\ \A i \in 1 .. n : u[i] = t[i] /\ t[i] \in Digit
    BY AppendProperties
  <2>2. PICK g : Sums(t, g) /\ Number(t) = g[DOMAIN t]
    BY NumberSums
  <2>3. PICK h : Sums(u, h) /\ Number(u) = h[DOMAIN u]
    BY <2>1, NumberSums
  <2>. HIDE DEF u, n
  <2>4. ASSUME NEW i \in 1 .. n PROVE Term(u, i) = Base * Term(t, i) /\ Term(t, i) \in Nat
    <3>1. n - i \in Nat /\ (n + 1) - i = (n - i) + 1
      BY <2>1
    <3>2. Power((n - i) + 1) = Base * Power(n - i) /\ Power(n - i) \in Nat
      BY <3>1, PowerSteps
    <3>3. ValueOf(t[i]) \in Nat /\ Base \in Nat
      BY <2>1, DigitValue
    <3>4. /\ Term(u, i) = ValueOf(t[i]) * Power((n - i) + 1)
          /\ Term(t, i) = ValueOf(t[i]) * Power(n - i)
      BY <2>1, <3>1 DEF Term, n
    <3>5. \A a, b, d \in Nat : a * (d * b) = d * (a * b) /\ a * b \in Nat
      OBVIOUS
    <3>. QED
      BY <3>2, <3>3, <3>4, <3>5
  <2>5. Term(u, n + 1) = ValueOf(c) /\ ValueOf(c) \in Nat
    <3>1. Term(u, n + 1) = ValueOf(c) * Power((n + 1) - (n + 1)) /\ (n + 1) - (n + 1) = 0
      BY <2>1 DEF Term
    <3>2. ValueOf(c) \in Nat
      BY DigitValue
    <3>. QED
      BY <3>1, <3>2, PowerSteps
  <2>. DEFINE N == {k \in Nat : \A s \in SUBSET (1 .. n) : Cardinality(s) = k => h[s] = Base * g[s]}
  <2>6. ASSUME NEW s \in SUBSET (1 .. n)
        PROVE  /\ IsFiniteSet(s) /\ Cardinality(s) \in Nat
               /\ s \in SUBSET DOMAIN u /\ s \in SUBSET DOMAIN t
    <3>1. 0 \in Int /\ n \in Int /\ 1 \in Int
      BY <2>1
    <3>2. IsFiniteSet(1 .. n)
      BY <3>1, FS_Interval
    <3>3. 1 .. n \subseteq 1 .. n + 1
      BY <2>1
    <3>. QED
      BY <2>1, <3>2, <3>3, FS_Subset, FS_CardinalityType
  <2>7. ASSUME NEW k \in Nat, \A m \in Nat : m < k => m \in N PROVE k \in N
    <3>. SUFFICES ASSUME NEW s \in SUBSET (1 .. n), Cardinality(s) = k PROVE h[s] = Base * g[s]
      OBVIOUS
    <3>1. CASE s = {}
      <4>1. h[s] = 0 /\ g[s] = 0
        BY <2>2, <2>3, <2>6, <3>1 DEF Sums
      <4>. QED
        BY <4>1, DigitValue
    <3>2. CASE s # {}
      <4>. PICK x \in s : TRUE
        BY <3>2
      <4>. DEFINE rest == s \ {x}
      <4>1. Cardinality(rest) = k - 1 /\ Cardinality(rest) \in Nat /\ rest \in SUBSET (1 .. n)
        BY <2>6, OneLess
      <4>2. h[rest] = Base * g[rest]
        <5>1. k - 1 \in N
          BY <2>7, <4>1
        <5>. QED
          BY <4>1, <5>1
      <4>3. g[s] = Term(t, x) + g[rest] /\ g[rest] \in Nat
        <5>1. Takes(t, g, s) /\ Takes(t, g, rest)
          BY <2>2, <2>6, <4>1, SumTakes
        <5>. QED
          BY <5>1 DEF Takes
      <4>4. h[s] = Term(u, x) + h[rest]
        <5>1. Takes(u, h, s)
          BY <2>1, <2>3, <2>6, SumTakes
        <5>. QED
          BY <5>1 DEF Takes
      <4>. HIDE DEF rest
      <4>5. Term(u, x) = Base * Term(t, x) /\ Term(t, x) \in Nat
        BY <2>4
      <4>6. \A a, b, d \in Nat : d * a + d * b = d * (a + b)
        OBVIOUS
      <4>. QED
        BY <4>2, <4>3, <4>4, <4>5, <4>6, DigitValue
    <3>. QED
      BY <3>1, <3>2
  <2>. HIDE DEF N
  <2>8. Nat \subseteq N
    BY <2>7, StrongInduction
  <2>9. h[1 .. n] = Base * g[1 .. n]
    BY <2>6, <2>8 DEF N
  <2>10. h[1 .. n + 1] = Term(u, n + 1) + h[(1 .. n + 1) \ {n + 1}]
    <3>1. n + 1 \in 1 .. n + 1 /\ 1 .. n + 1 \in SUBSET DOMAIN u
      BY <2>1
    <3>2. Takes(u, h, 1 .. n + 1)
      BY <2>1, <2>3, <3>1, SumTakes
    <3>. QED
      BY <3>1, <3>2 DEF Takes
  <2>11. (1 .. n + 1) \ {n + 1} = 1 .. n
    BY <2>1
  <2>12. g[1 .. n] \in Nat
    <3>1. Takes(t, g, 1 .. n)
      BY <2>1, <2>2, SumTakes
    <3>. QED
      BY <3>1 DEF Takes
  <2>13. Base * g[1 .. n] \in Nat
    BY <2>12, DigitValue
  <2>14. Number(u) = Base * Number(t) + ValueOf(c)
    <3>1. Number(u) = ValueOf(c) + Base * g[1 .. n]
      BY <2>1, <2>3, <2>5, <2>9, <2>10, <2>11
    <3>2. Number(t) = g[1 .. n]
      BY <2>1, <2>2
    <3>3. \A a, b \in Nat : a + b = b + a
      OBVIOUS
    <3>. QED
      BY <2>5, <2>13, <3>1, <3>2, <3>3
  <2>. QED
    BY <2>1, <2>2, <2>12, <2>14 DEF u
<1>. QED
  BY <1>1, <1>2

-----------------------------------------------------------------------------
(* The loop of parse_amount.                                               *)

LEMMA SmallRemainder ==
  ASSUME NEW a \in Nat, NEW w \in Nat, a < w
  PROVE  a % w = a
OBVIOUS

LEMMA LongWidth ==
  /\ IntMax \in Nat /\ LongMax \in Nat
  /\ \A n \in Int : Long(n) \in Int
  /\ \A n \in 0 .. LongMax : Long(n) = n
<1>1. IntMax \in Nat /\ LongMax \in Nat
  BY TextAssumption
<1>2. ASSUME NEW n \in Int PROVE Long(n) \in Int
  <2>1. n + LongMax + 1 \in Int /\ UlongMax + 1 \in Nat \ {0}
    BY <1>1 DEF UlongMax
  <2>2. (n + LongMax + 1) % (UlongMax + 1) \in Int
    BY <2>1
  <2>. QED
    BY <1>1, <2>2 DEF Long
<1>3. ASSUME NEW n \in 0 .. LongMax PROVE Long(n) = n
  <2>1. n + LongMax + 1 \in Nat /\ UlongMax + 1 \in Nat /\ n + LongMax + 1 < UlongMax + 1
    BY <1>1 DEF UlongMax
  <2>2. (n + LongMax + 1) % (UlongMax + 1) = n + LongMax + 1
    BY <2>1, SmallRemainder
  <2>. QED
    BY <1>1, <2>2 DEF Long
<1>. QED
  BY <1>1, <1>2, <1>3

Amounts(t, g) ==
  g = [s \in SUBSET DOMAIN t |->
         IF s = {} THEN 0 ELSE AmountStep(g[s \ {Max(s)}], t[Max(s)])]

LEMMA AmountStepType ==
  ASSUME NEW val \in Int, NEW c
  PROVE  AmountStep(val, c) \in Int
<1>1. CASE val = Failed \/ c \notin Digit
  BY <1>1 DEF AmountStep, Failed
<1>2. CASE ~ (val = Failed \/ c \notin Digit)
  <2>1. ValueOf(c) \in Int /\ Base \in Int
    BY <1>2, DigitValue
  <2>2. val * Base + ValueOf(c) \in Int
    BY <2>1
  <2>3. Long(val * Base + ValueOf(c)) \in Int
    BY <2>2, LongWidth
  <2>. QED
    BY <1>2, <2>3 DEF AmountStep, Failed
<1>. QED
  BY <1>1, <1>2

LEMMA AmountExists ==
  ASSUME NEW C, NEW t \in Seq(C)
  PROVE  \E g : Amounts(t, g)
<1>. DEFINE D == DOMAIN t
            pick == [s \in SUBSET D |-> Max(s)]
            step == [p \in Int \X D |-> AmountStep(p[1], t[p[2]])]
<1>1. D = 1 .. Len(t) /\ Len(t) \in Nat /\ \A i \in D : t[i] \in C
  OBVIOUS
<1>2. IsFiniteSet(D)
  BY <1>1, FS_Interval
<1>3. \A s \in SUBSET D : s # {} => pick[s] \in s
  BY <1>1, MaxIsTaken
<1>4. 0 \in Int
  OBVIOUS
<1>5. step \in [Int \X D -> Int]
  BY <1>1, AmountStepType
<1>. HIDE DEF step, pick, D
<1>6. PICK g \in [SUBSET D -> Int] : \A s \in SUBSET D :
        g[s] = IF s = {} THEN 0 ELSE step[<<g[s \ {pick[s]}], pick[s]>>]
  <2>1. Folds(D, Int, 0, pick, step)
    BY <1>2, <1>3, <1>4, <1>5 DEF Folds
  <2>2. IsFolded(D, Int, 0, pick, step)
    BY <2>1, SetRecursion
  <2>. QED
    BY <2>2 DEF IsFolded
<1>7. ASSUME NEW s \in SUBSET D
      PROVE  g[s] = IF s = {} THEN 0 ELSE AmountStep(g[s \ {Max(s)}], t[Max(s)])
  <2>1. CASE s = {}
    BY <1>6, <2>1
  <2>2. CASE s # {}
    <3>1. pick[s] = Max(s) /\ Max(s) \in D /\ g[s \ {Max(s)}] \in Int
      BY <1>3, <2>2 DEF pick
    <3>2. g[s] = step[<<g[s \ {Max(s)}], Max(s)>>]
      BY <1>6, <2>2, <3>1
    <3>. QED
      BY <2>2, <3>1, <3>2 DEF step
  <2>. QED
    BY <2>1, <2>2
<1>. QED
  <2>1. g = [s \in SUBSET D |->
              IF s = {} THEN 0 ELSE AmountStep(g[s \ {Max(s)}], t[Max(s)])]
    BY <1>7
  <2>. QED
    BY <2>1 DEF Amounts, D

LEMMA AmountFolds ==
  ASSUME NEW C, NEW t \in Seq(C)
  PROVE  \E g : Amounts(t, g) /\ Accumulated(t) = g[DOMAIN t]
<1>. DEFINE g == CHOOSE g : Amounts(t, g)
<1>1. Amounts(t, g)
  BY AmountExists
<1>2. Accumulated(t) = g[DOMAIN t]
  BY DEF Accumulated, FoldLeft, MapThenFoldSet, Amounts
<1>. QED
  BY <1>1, <1>2

LEMMA AmountEmpty == Accumulated(<<>>) = 0
<1>1. <<>> \in Seq({}) /\ DOMAIN <<>> = {}
  OBVIOUS
<1>2. PICK g : Amounts(<<>>, g) /\ Accumulated(<<>>) = g[DOMAIN <<>>]
  BY <1>1, AmountFolds
<1>. QED
  BY <1>1, <1>2 DEF Amounts

LEMMA AmountAppend ==
  ASSUME NEW C, NEW t \in Seq(C), NEW c \in C
  PROVE  Accumulated(Append(t, c)) = AmountStep(Accumulated(t), c)
<1>. DEFINE u == Append(t, c)
            n == Len(t)
<1>1. /\ u \in Seq(C) /\ n \in Nat /\ DOMAIN t = 1 .. n /\ DOMAIN u = 1 .. n + 1
      /\ u[n + 1] = c /\ \A i \in 1 .. n : u[i] = t[i]
  BY AppendProperties
<1>2. PICK g : Amounts(t, g) /\ Accumulated(t) = g[DOMAIN t]
  BY AmountFolds
<1>3. PICK h : Amounts(u, h) /\ Accumulated(u) = h[DOMAIN u]
  BY <1>1, AmountFolds
<1>. HIDE DEF u, n
<1>4. ASSUME NEW k \in Nat \ {0}
      PROVE  /\ k <= n => g[1 .. k] = AmountStep(g[1 .. k - 1], t[k])
             /\ k <= n + 1 => h[1 .. k] = AmountStep(h[1 .. k - 1], u[k])
  <2>1. k <= n => 1 .. k \in SUBSET DOMAIN t
    BY <1>1
  <2>2. k <= n + 1 => 1 .. k \in SUBSET DOMAIN u
    BY <1>1
  <2>. QED
    <3>1. 1 .. k # {} /\ Max(1 .. k) = k /\ (1 .. k) \ {k} = 1 .. k - 1
      BY LastIsMax
    <3>2. k <= n => g[1 .. k] = AmountStep(g[(1 .. k) \ {Max(1 .. k)}], t[Max(1 .. k)])
      BY <1>2, <2>1, <3>1 DEF Amounts
    <3>3. k <= n + 1 => h[1 .. k] = AmountStep(h[(1 .. k) \ {Max(1 .. k)}], u[Max(1 .. k)])
      BY <1>3, <2>2, <3>1 DEF Amounts
    <3>. QED
      BY <3>1, <3>2, <3>3
<1>. DEFINE N == {k \in Nat : k <= n => g[1 .. k] = h[1 .. k]}
<1>5. 0 \in N
  <2>1. 1 .. 0 = {}
    OBVIOUS
  <2>2. g[{}] = 0 /\ h[{}] = 0
    BY <1>2, <1>3 DEF Amounts
  <2>. QED
    BY <2>1, <2>2
<1>6. ASSUME NEW k \in Nat, k \in N PROVE k + 1 \in N
  <2>. SUFFICES ASSUME k + 1 <= n PROVE g[1 .. k + 1] = h[1 .. k + 1]
    OBVIOUS
  <2>1. g[1 .. k] = h[1 .. k] /\ (k + 1) - 1 = k /\ k + 1 \in Nat \ {0} /\ k + 1 <= n + 1
    BY <1>1, <1>6
  <2>2. u[k + 1] = t[k + 1]
    BY <1>1
  <2>3. /\ g[1 .. k + 1] = AmountStep(g[1 .. k], t[k + 1])
        /\ h[1 .. k + 1] = AmountStep(h[1 .. k], u[k + 1])
    BY <1>4, <2>1
  <2>. QED
    BY <2>1, <2>2, <2>3
<1>. HIDE DEF N
<1>7. g[1 .. n] = h[1 .. n]
  <2>1. Nat \subseteq N
    BY <1>5, <1>6, StepInduction
  <2>2. n \in N
    BY <1>1, <2>1
  <2>. QED
    BY <1>1, <2>2 DEF N
<1>8. h[1 .. n + 1] = AmountStep(h[1 .. n], c)
  <2>1. n + 1 \in Nat \ {0} /\ (n + 1) - 1 = n
    BY <1>1
  <2>. QED
    BY <1>1, <1>4, <2>1
<1>. QED
  BY <1>1, <1>2, <1>3, <1>7, <1>8 DEF u

\* One digit more, when the number so far fits: the long does not overflow.
LEMMA OneDigitMore ==
  ASSUME NEW n \in 0 .. IntMax, NEW c \in Digit
  PROVE  /\ Base * n + ValueOf(c) \in Nat
         /\ AmountStep(n, c) = IF Base * n + ValueOf(c) <= IntMax THEN Base * n + ValueOf(c)
                               ELSE Failed
<1>. DEFINE v == ValueOf(c)
<1>1. v \in 0 .. Base - 1 /\ Base \in Nat /\ IntMax \in Nat /\ LongMax \in Nat
      /\ LongMax >= IntMax * Base + Base - 1
  BY DigitValue, TextAssumption
<1>. HIDE DEF v
<1>2. n * Base <= IntMax * Base /\ n * Base = Base * n /\ n * Base \in Nat /\ IntMax * Base \in Nat
  <2>1. IntMax - n \in Nat
    BY <1>1
  <2>2. (IntMax - n) * Base \in Nat
    BY <1>1, <2>1
  <2>3. (IntMax - n) * Base = IntMax * Base - n * Base
    BY <1>1
  <2>4. n * Base = Base * n /\ n * Base \in Nat /\ IntMax * Base \in Nat
    BY <1>1
  <2>. QED
    BY <2>2, <2>3, <2>4
<1>3. n * Base + v \in 0 .. LongMax
  BY <1>1, <1>2
<1>4. Long(n * Base + v) = n * Base + v
  BY <1>3, LongWidth
<1>5. n # Failed
  BY DEF Failed
<1>6. AmountStep(n, c) = IF n * Base + v > IntMax THEN Failed ELSE n * Base + v
  BY <1>4, <1>5 DEF AmountStep, v
<1>. QED
  BY <1>1, <1>2, <1>3, <1>6 DEF v

LEMMA DigitsAppended ==
  ASSUME NEW C, NEW t \in Seq(C), NEW c \in C
  PROVE  Append(t, c) \in Seq(Digit) <=> t \in Seq(Digit) /\ c \in Digit
<1>1. ASSUME t \in Seq(Digit), c \in Digit PROVE Append(t, c) \in Seq(Digit)
  BY <1>1, AppendProperties
<1>2. ASSUME Append(t, c) \in Seq(Digit) PROVE t \in Seq(Digit) /\ c \in Digit
  <2>. DEFINE u == Append(t, c)
  <2>1. Len(t) \in Nat /\ Len(u) = Len(t) + 1 /\ u[Len(t) + 1] = c
        /\ \A i \in 1 .. Len(t) : u[i] = t[i]
    BY Appended
  <2>2. \A i \in 1 .. Len(t) + 1 : u[i] \in Digit
    BY <1>2, <2>1
  <2>. HIDE DEF u
  <2>3. c \in Digit
    BY <2>1, <2>2
  <2>4. \A i \in 1 .. Len(t) : t[i] \in Digit
    BY <2>1, <2>2
  <2>5. t \in [1 .. Len(t) -> Digit]
    BY <2>4
  <2>. QED
    BY <2>1, <2>3, <2>5
<1>. QED
  BY <1>1, <1>2

\* What the loop has computed after any text.
Denoted(t) == IF t \in Seq(Digit) /\ Number(t) <= IntMax THEN Number(t) ELSE Failed

LEMMA AccumulatedIsNumber ==
  ASSUME NEW C, NEW t \in Seq(C)
  PROVE  Accumulated(t) = Denoted(t)
<1>. DEFINE S == {u \in Seq(C) : Accumulated(u) = Denoted(u)}
<1>1. <<>> \in S
  <2>1. <<>> \in Seq(C) /\ <<>> \in Seq(Digit)
    BY EmptySeq
  <2>2. Denoted(<<>>) = 0
    BY <2>1, NumberSteps, LongWidth DEF Denoted
  <2>. QED
    BY <2>1, <2>2, AmountEmpty
<1>2. ASSUME NEW u \in Seq(C), u \in S, NEW c \in C PROVE Append(u, c) \in S
  <2>. DEFINE v == Append(u, c)
  <2>1. v \in Seq(C) /\ Accumulated(v) = AmountStep(Accumulated(u), c)
    BY AppendProperties, AmountAppend
  <2>2. v \in Seq(Digit) <=> u \in Seq(Digit) /\ c \in Digit
    BY DigitsAppended
  <2>3. Accumulated(u) = Denoted(u)
    BY <1>2
  <2>4. ASSUME u \in Seq(Digit), c \in Digit
        PROVE  Number(u) \in Nat /\ Number(v) = Base * Number(u) + ValueOf(c)
    BY <2>4, NumberSteps
  <2>. HIDE DEF v
  <2>5. CASE ~ (v \in Seq(Digit))
    <3>1. AmountStep(Denoted(u), c) = Failed
      BY <2>2, <2>5 DEF AmountStep, Denoted
    <3>. QED
      BY <2>1, <2>3, <2>5, <3>1 DEF Denoted, v
  <2>6. CASE v \in Seq(Digit) /\ Number(u) > IntMax
    <3>1. AmountStep(Denoted(u), c) = Failed
      BY <2>2, <2>4, <2>6, LongWidth DEF AmountStep, Denoted
    <3>2. Number(v) > IntMax /\ Number(v) \in Nat
      <4>1. Number(u) \in Nat /\ Base \in Nat /\ Base >= 2 /\ ValueOf(c) \in Nat
        BY <2>2, <2>4, <2>6, DigitValue
      <4>2. Base * Number(u) >= Number(u) /\ Base * Number(u) \in Nat
        <5>1. \A a, b \in Nat : b >= 2 => b * a >= a /\ b * a \in Nat
          OBVIOUS
        <5>. QED
          BY <4>1, <5>1
      <4>3. Number(v) = Base * Number(u) + ValueOf(c)
        BY <2>2, <2>4, <2>6
      <4>4. PICK a \in Nat, b \in Nat, d \in Nat, m \in Nat :
              a = Number(u) /\ b = Base * Number(u) /\ d = ValueOf(c) /\ m = IntMax
        BY <4>1, <4>2, LongWidth
      <4>5. b >= a /\ a > m /\ Number(v) = b + d
        BY <2>6, <4>2, <4>3, <4>4
      <4>6. b + d > m /\ b + d \in Nat
        BY <4>5
      <4>. QED
        BY <4>4, <4>5, <4>6
    <3>. QED
      BY <2>1, <2>3, <2>6, <3>1, <3>2, LongWidth DEF Denoted, v
  <2>7. CASE v \in Seq(Digit) /\ ~ (Number(u) > IntMax)
    <3>1. u \in Seq(Digit) /\ c \in Digit /\ Number(u) \in 0 .. IntMax
      BY <2>2, <2>4, <2>7, LongWidth
    <3>2. Denoted(u) = Number(u)
      BY <3>1, LongWidth DEF Denoted
    <3>3. AmountStep(Number(u), c) = IF Number(v) <= IntMax THEN Number(v) ELSE Failed
      BY <2>4, <3>1, OneDigitMore
    <3>. QED
      BY <2>1, <2>3, <2>7, <3>2, <3>3 DEF Denoted, v
  <2>. QED
    BY <2>5, <2>6, <2>7
<1>. HIDE DEF S
<1>3. Seq(C) \subseteq S
  BY <1>1, <1>2, TextInduction
<1>. QED
  BY <1>3 DEF S

LEMMA OverDigits ==
  ASSUME NEW C, NEW t \in Seq(C)
  PROVE  Over(t, Digit) <=> t \in Seq(Digit)
<1>1. DOMAIN t = 1 .. Len(t) /\ Len(t) \in Nat /\ t = [i \in 1 .. Len(t) |-> t[i]]
  BY LenProperties
<1>2. ASSUME Over(t, Digit) PROVE t \in Seq(Digit)
  <2>1. t \in [1 .. Len(t) -> Digit]
    BY <1>1, <1>2 DEF Over
  <2>. QED
    BY <1>1, <2>1
<1>3. ASSUME t \in Seq(Digit) PROVE Over(t, Digit)
  BY <1>1, <1>3 DEF Over
<1>. QED
  BY <1>2, <1>3

LEMMA ParseAmountIsExact ==
  ASSUME NEW C, NEW t \in Seq(C)
  PROVE  ParseAmount(t) = IF t # <<>> THEN Denoted(t) ELSE Failed
BY AccumulatedIsNumber DEF ParseAmount

-----------------------------------------------------------------------------
(* Keys.                                                                   *)

LEMMA DigitsAreNumerals ==
  ASSUME NEW c \in Digit
  PROVE  c \in {"0", "1", "2", "3", "4", "5", "6", "7", "8", "9"}
<1>1. PICK i \in 1 .. Base : c = Numeral[i]
  BY DEF Digit
<1>2. i \in 1 .. 10
  BY TextAssumption
<1>. QED
  BY <1>1, <1>2 DEF Numeral

LEMMA HexDigitValue ==
  /\ \A c \in HexDigit : HexValue(c) \in 0 .. Base
  /\ \A v \in 0 .. Base : HexNumeral(v) \in HexDigit /\ HexValue(HexNumeral(v)) = v
<1>1. Base \in Nat
  BY DigitValue
<1>2. ASSUME NEW c \in HexDigit PROVE HexValue(c) \in 0 .. Base
  <2>1. CASE c \in Digit
    <3>1. ValueOf(c) \in 0 .. Base - 1
      BY <2>1, DigitValue
    <3>. QED
      BY <1>1, <2>1, <3>1 DEF HexValue
  <2>2. CASE c \notin Digit
    BY <1>1, <2>2 DEF HexValue, HexDigit
  <2>. QED
    BY <2>1, <2>2
<1>3. ASSUME NEW v \in 0 .. Base
      PROVE  HexNumeral(v) \in HexDigit /\ HexValue(HexNumeral(v)) = v
  <2>1. CASE v = Base
    <3>1. "a" \notin Digit
      BY DigitsAreNumerals
    <3>2. HexNumeral(v) = "a" /\ "a" \in HexLetter
      BY <2>1 DEF HexNumeral, HexLetter
    <3>. QED
      BY <2>1, <3>1, <3>2 DEF HexValue, HexDigit
  <2>2. CASE v # Base
    <3>1. v \in 0 .. Base - 1
      BY <1>1, <2>2
    <3>2. Numeral[v + 1] \in Digit /\ ValueOf(Numeral[v + 1]) = v
      BY <3>1, DigitValue
    <3>3. HexNumeral(v) = Numeral[v + 1]
      BY <2>2 DEF HexNumeral
    <3>. QED
      BY <3>2, <3>3 DEF HexValue, HexDigit
  <2>. QED
    BY <2>1, <2>2
<1>. QED
  BY <1>2, <1>3

LEMMA TwoPlaces ==
  ASSUME NEW hi \in Nat, NEW w \in Nat \ {0}, NEW lo \in 0 .. w - 1
  PROVE  (hi * w + lo) \div w = hi /\ (hi * w + lo) % w = lo
<1>. DEFINE n == hi * w + lo
            q == n \div w
            r == n % w
<1>1. n \in Nat
  OBVIOUS
<1>. HIDE DEF n
<1>2. q \in Nat /\ r \in 0 .. w - 1 /\ n = w * q + r
  BY <1>1
<1>. HIDE DEF q, r
<1>3. w * q + r = w * hi + lo
  BY <1>2 DEF n
<1>4. q = hi
  <2>1. w * (q - hi) = lo - r
    BY <1>2, <1>3
  <2>2. lo - r < w /\ r - lo < w
    BY <1>2
  <2>3. ~ (q - hi >= 1)
    <3>. SUFFICES ASSUME q - hi >= 1 PROVE FALSE
      OBVIOUS
    <3>1. w * (q - hi) >= w
      BY <1>2
    <3>. QED
      BY <1>2, <2>1, <2>2, <3>1
  <2>4. ~ (hi - q >= 1)
    <3>. SUFFICES ASSUME hi - q >= 1 PROVE FALSE
      OBVIOUS
    <3>1. w * (hi - q) >= w /\ w * (hi - q) = r - lo
      BY <1>2, <2>1
    <3>. QED
      BY <1>2, <2>2, <3>1
  <2>. QED
    BY <1>2, <2>3, <2>4
<1>5. r = lo
  BY <1>2, <1>3, <1>4
<1>. QED
  BY <1>4, <1>5 DEF q, r, n

LEMMA OddAndEven ==
  ASSUME NEW i \in Nat \ {0}
  PROVE  /\ (2 * i) \div 2 = i /\ (2 * i) % 2 = 0
         /\ ((2 * i) + 1) \div 2 = i /\ (2 * i - 1) % 2 = 1
         /\ ((2 * i - 1) + 1) \div 2 = i
OBVIOUS

LEMMA KeyTravels ==
  ASSUME NEW n \in Nat \ {0}, NEW t, Len(t) = 2 * n,
         \A i \in 1 .. 2 * n : t[i] \in HexDigit
  PROVE  LET bytes == Bytes(t, n)
             hex   == ToHex(bytes)
         IN  /\ DOMAIN bytes = 1 .. n /\ bytes # <<>>
             /\ hex \in Seq(HexDigit) /\ Len(hex) = 2 * n
             /\ Bytes(hex, n) = bytes
<1>. DEFINE w == Base + 1
            bytes == Bytes(t, n)
            hex == ToHex(bytes)
            At(b, i) == HexNumeral(IF i % 2 = 1 THEN b \div w ELSE b % w)
<1>1. w \in Nat \ {0} /\ Base = w - 1
  BY DigitValue
<1>2. bytes = [i \in 1 .. n |-> Byte(t[2 * i - 1], t[2 * i])]
  BY DEF Bytes
<1>3. Len(bytes) = n /\ DOMAIN bytes = 1 .. n /\ bytes # <<>>
  BY <1>2
<1>4. hex = [i \in 1 .. 2 * n |-> At(bytes[(i + 1) \div 2], i)]
  BY <1>3 DEF ToHex
<1>. HIDE DEF w, bytes, hex
<1>5. ASSUME NEW i \in 1 .. n
      PROVE  \E hi, lo \in 0 .. Base : bytes[i] = hi * w + lo
  <2>1. 2 * i - 1 \in 1 .. 2 * n /\ 2 * i \in 1 .. 2 * n
    OBVIOUS
  <2>2. HexValue(t[2 * i - 1]) \in 0 .. Base /\ HexValue(t[2 * i]) \in 0 .. Base
    BY <2>1, HexDigitValue
  <2>3. bytes[i] = HexValue(t[2 * i - 1]) * w + HexValue(t[2 * i])
    BY <1>2 DEF Byte, w
  <2>. QED
    BY <2>2, <2>3
<1>6. ASSUME NEW i \in 1 .. n
      PROVE  /\ bytes[i] \div w \in 0 .. Base /\ bytes[i] % w \in 0 .. Base
             /\ bytes[i] = (bytes[i] \div w) * w + (bytes[i] % w)
  <2>1. PICK hi \in 0 .. Base, lo \in 0 .. Base : bytes[i] = hi * w + lo
    BY <1>5
  <2>2. hi \in Nat /\ lo \in 0 .. w - 1
    BY <1>1, <2>1
  <2>. DEFINE b == hi * w + lo
  <2>3. b \div w = hi /\ b % w = lo
    BY <1>1, <2>2, TwoPlaces
  <2>4. bytes[i] = b
    BY <2>1
  <2>. HIDE DEF b
  <2>5. bytes[i] \div w = hi /\ bytes[i] % w = lo
    BY <2>3, <2>4
  <2>. QED
    BY <2>1, <2>5
<1>7. ASSUME NEW i \in 1 .. n
      PROVE  hex[2 * i - 1] = HexNumeral(bytes[i] \div w) /\ hex[2 * i] = HexNumeral(bytes[i] % w)
  <2>1. 2 * i - 1 \in 1 .. 2 * n /\ 2 * i \in 1 .. 2 * n
    OBVIOUS
  <2>2. hex[2 * i - 1] = At(bytes[((2 * i - 1) + 1) \div 2], 2 * i - 1)
        /\ hex[2 * i] = At(bytes[((2 * i) + 1) \div 2], 2 * i)
    BY <1>4, <2>1
  <2>3. (2 * i) % 2 # 1
    BY OddAndEven
  <2>. QED
    BY <2>2, <2>3, OddAndEven
<1>8. ASSUME NEW j \in 1 .. 2 * n PROVE hex[j] \in HexDigit
  <2>1. PICK i \in 1 .. n : j = 2 * i - 1 \/ j = 2 * i
    <3>1. (j + 1) \div 2 \in 1 .. n /\ (j = 2 * ((j + 1) \div 2) - 1 \/ j = 2 * ((j + 1) \div 2))
      OBVIOUS
    <3>. QED
      BY <3>1
  <2>. QED
    BY <1>6, <1>7, <2>1, HexDigitValue
<1>9. hex \in Seq(HexDigit) /\ Len(hex) = 2 * n
  <2>1. DOMAIN hex = 1 .. 2 * n /\ 2 * n \in Nat
    BY <1>4
  <2>2. hex = [j \in 1 .. 2 * n |-> hex[j]]
    BY <1>4
  <2>3. hex \in [1 .. 2 * n -> HexDigit]
    BY <1>8, <2>2
  <2>. QED
    BY <2>1, <2>3
<1>10. Bytes(hex, n) = bytes
  <2>1. ASSUME NEW i \in 1 .. n PROVE Byte(hex[2 * i - 1], hex[2 * i]) = bytes[i]
    BY <1>6, <1>7, HexDigitValue DEF Byte, w
  <2>2. bytes = [i \in 1 .. n |-> bytes[i]]
    BY <1>2
  <2>. QED
    BY <2>1, <2>2 DEF Bytes
<1>. QED
  BY <1>3, <1>9, <1>10 DEF bytes, hex

LEMMA WholeHexDecodes ==
  ASSUME NEW C, NEW t \in Seq(C), NEW n \in Nat \ {0}, Len(t) = 2 * n, Over(t, HexDigit)
  PROVE  FromHex(t, n) = Bytes(t, n) /\ \A i \in 1 .. 2 * n : t[i] \in HexDigit
<1>1. SubSeq(t, 1, 2 * n) = t
  BY SubSeqFull
<1>2. DOMAIN t = 1 .. 2 * n
  BY LenProperties
<1>. QED
  BY <1>1, <1>2 DEF FromHex, Over

-----------------------------------------------------------------------------
(* Numbers: printed by snprintf, read by strtol and strtoul.               *)

\* The last digit of a number, and what the digits before it denote.
Rest(n) == n % Base

Quotient(n) == n \div Base

LEMMA Divided ==
  ASSUME NEW n \in Nat
  PROVE  /\ Quotient(n) \in Nat /\ Rest(n) \in 0 .. Base - 1
         /\ n = Base * Quotient(n) + Rest(n)
         /\ n >= Base => Quotient(n) < n
<1>1. PICK b \in Nat : b = Base /\ b >= 2
  BY DigitValue
<1>. DEFINE q == n \div b
            r == n % b
<1>2. q \in Nat /\ r \in 0 .. b - 1 /\ n = b * q + r
  BY <1>1
<1>. HIDE DEF q, r
<1>3. n >= b => q < n
  <2>. SUFFICES ASSUME n >= b PROVE q < n
    OBVIOUS
  <2>1. CASE q = 0
    BY <1>1, <2>1
  <2>2. CASE q # 0
    <3>1. b * q >= 2 * q /\ 2 * q > q
      BY <1>1, <1>2, <2>2
    <3>2. PICK p \in Nat : p = b * q
      BY <1>1, <1>2
    <3>. QED
      BY <1>2, <3>1, <3>2
  <2>. QED
    BY <2>1, <2>2
<1>. QED
  BY <1>1, <1>2, <1>3 DEF Quotient, Rest, q, r

\* The digits of k, given those of the smaller numbers.
Printed(g, k) ==
  IF k < Base THEN <<Numeral[k + 1]>> ELSE Append(g[Quotient(k)], Numeral[Rest(k) + 1])

\* d prints every number up to n.
Prints(n, d) == \A k \in 0 .. n : d[k] = Printed(d, k)

LEMMA DecimalFolds ==
  ASSUME NEW n \in Nat
  PROVE  \E d : Decimal(n) = d[n] /\ Prints(n, d)
<1>. DEFINE D == 0 .. n
            Small == {k \in D : k < Base}
            Right(d) == d = [k \in D |-> Printed(d, k)]
            rank  == [k \in D |-> k]
            down  == [k \in D |-> IF k < Base THEN k ELSE Quotient(k)]
            first == [k \in D |-> IF k < Base THEN <<Numeral[k + 1]>> ELSE <<>>]
            step  == [q \in Seq(Digit) \X D |-> Append(q[1], Numeral[Rest(q[2]) + 1])]
<1>1. Base \in Nat
  BY DigitValue
<1>2. ASSUME NEW k \in D PROVE k \in Nat /\ Numeral[Rest(k) + 1] \in Digit
  BY Divided, DigitValue
<1>3. Descends(D, Seq(Digit), Small, n, rank, down, first, step)
  <2>1. ASSUME NEW k \in D, ~ (k < Base) PROVE Quotient(k) \in D /\ Quotient(k) < k
    <3>1. k \in Nat /\ k <= n /\ k >= Base
      BY <1>1, <2>1
    <3>2. Quotient(k) \in Nat /\ Quotient(k) < k
      BY <3>1, Divided
    <3>. QED
      BY <3>1, <3>2
  <2>2. rank \in [D -> Nat] /\ \A k \in D : rank[k] <= n
    OBVIOUS
  <2>3. down \in [D -> D]
    BY <2>1
  <2>4. first \in [D -> Seq(Digit)]
    <3>1. ASSUME NEW k \in D, k < Base PROVE Numeral[k + 1] \in Digit
      <4>1. k \in 0 .. Base - 1
        BY <1>1, <3>1
      <4>. QED
        BY <4>1, DigitValue
    <3>. QED
      BY <3>1, EmptySeq
  <2>5. step \in [Seq(Digit) \X D -> Seq(Digit)]
    <3>1. ASSUME NEW u \in Seq(Digit), NEW k \in D
          PROVE  Append(u, Numeral[Rest(k) + 1]) \in Seq(Digit)
      BY <1>2, AppendProperties
    <3>. QED
      BY <3>1
  <2>6. \A k \in D : k \notin Small => rank[down[k]] < rank[k]
    BY <2>1
  <2>. QED
    BY <2>2, <2>3, <2>4, <2>5, <2>6 DEF Descends
<1>4. IsDefined(D, Seq(Digit), Small, down, first, step)
  BY <1>3, Recursion
<1>5. PICK g \in [D -> Seq(Digit)] :
        \A k \in D : g[k] = IF k \in Small THEN first[k] ELSE step[<<g[down[k]], k>>]
  BY <1>4 DEF IsDefined
<1>6. ASSUME NEW k \in D PROVE g[k] = Printed(g, k)
  <2>1. CASE k < Base
    BY <1>5, <2>1 DEF Printed
  <2>2. CASE ~ (k < Base)
    <3>1. down[k] = Quotient(k) /\ down[k] \in D
      BY <1>3, <2>2 DEF Descends
    <3>2. g[Quotient(k)] \in Seq(Digit)
      BY <3>1
    <3>. QED
      BY <1>5, <2>2, <3>1, <3>2 DEF Printed
  <2>. QED
    BY <2>1, <2>2
<1>7. Right(g)
  BY <1>6
<1>. DEFINE d == CHOOSE d : Right(d)
<1>8. Right(d)
  BY <1>7
<1>9. Decimal(n) = d[n]
  BY DEF Decimal, Printed, Quotient, Rest
<1>. HIDE DEF d
<1>10. Prints(n, d)
  BY <1>8 DEF Prints
<1>. QED
  BY <1>9, <1>10

\* However long the row of digits already printed, a number prints in one way.
LEMMA PrintedOnce ==
  ASSUME NEW n \in Nat, NEW m \in Nat, NEW d, NEW e, Prints(n, d), Prints(m, e)
  PROVE  \A k \in Nat : k <= n /\ k <= m => d[k] = e[k]
<1>. DEFINE S == {k \in Nat : k <= n /\ k <= m => d[k] = e[k]}
<1>1. ASSUME NEW k \in Nat, \A j \in Nat : j < k => j \in S PROVE k \in S
  <2>. SUFFICES ASSUME k <= n, k <= m PROVE d[k] = e[k]
    OBVIOUS
  <2>1. d[k] = Printed(d, k) /\ e[k] = Printed(e, k)
    BY DEF Prints
  <2>2. CASE k < Base
    BY <2>1, <2>2 DEF Printed
  <2>3. CASE ~ (k < Base)
    <3>1. PICK j \in Nat : j = Quotient(k) /\ j < k
      BY <2>3, Divided, DigitValue
    <3>2. d[j] = e[j]
      BY <1>1, <3>1
    <3>. QED
      BY <2>1, <2>3, <3>1, <3>2 DEF Printed
  <2>. QED
    BY <2>2, <2>3
<1>. HIDE DEF S
<1>2. Nat \subseteq S
  BY <1>1, StrongInduction
<1>. QED
  BY <1>2 DEF S

LEMMA DecimalSteps ==
  ASSUME NEW n \in Nat
  PROVE  Decimal(n) = IF n < Base THEN <<Numeral[n + 1]>>
                      ELSE Append(Decimal(Quotient(n)), Numeral[Rest(n) + 1])
<1>1. PICK d : Decimal(n) = d[n] /\ Prints(n, d)
  BY DecimalFolds
<1>2. Decimal(n) = Printed(d, n)
  BY <1>1 DEF Prints
<1>3. CASE n < Base
  BY <1>2, <1>3 DEF Printed
<1>4. CASE ~ (n < Base)
  <2>1. PICK m \in Nat : m = Quotient(n) /\ m < n
    BY <1>4, Divided, DigitValue
  <2>2. PICK e : Decimal(m) = e[m] /\ Prints(m, e)
    BY DecimalFolds
  <2>3. d[m] = e[m]
    <3>1. \A k \in Nat : k <= n /\ k <= m => d[k] = e[k]
      BY <1>1, <2>2, PrintedOnce
    <3>. QED
      BY <2>1, <3>1
  <2>. QED
    BY <1>2, <1>4, <2>1, <2>2, <2>3 DEF Printed
<1>. QED
  BY <1>3, <1>4

\* What is printed is a row of digits that denotes the number.
LEMMA DecimalDenotes ==
  ASSUME NEW n \in Nat
  PROVE  Decimal(n) \in Seq(Digit) /\ Decimal(n) # <<>> /\ Number(Decimal(n)) = n
<1>. DEFINE Good(k) == Decimal(k) \in Seq(Digit) /\ Decimal(k) # <<>> /\ Number(Decimal(k)) = k
            S == {k \in Nat : Good(k)}
<1>1. ASSUME NEW k \in Nat, \A j \in Nat : j < k => j \in S PROVE Good(k)
  <2>1. CASE k < Base
    <3>1. k \in 0 .. Base - 1
      BY <2>1, DigitValue
    <3>. DEFINE c == Numeral[k + 1]
    <3>2. c \in Digit /\ ValueOf(c) = k
      BY <3>1, DigitValue
    <3>3. Decimal(k) = <<c>>
      BY <2>1, DecimalSteps
    <3>. HIDE DEF c
    <3>4. <<c>> = Append(<<>>, c) /\ <<c>> # <<>>
      OBVIOUS
    <3>5. /\ Number(Append(<<>>, c)) = Base * Number(<<>>) + ValueOf(c)
          /\ Append(<<>>, c) \in Seq(Digit)
      <4>1. PICK t \in Seq(Digit) : t = <<>>
        BY EmptySeq
      <4>2. Number(Append(t, c)) = Base * Number(t) + ValueOf(c) /\ Append(t, c) \in Seq(Digit)
        BY <3>2, NumberSteps, AppendProperties
      <4>. QED
        BY <4>1, <4>2
    <3>6. Base * Number(<<>>) = 0
      BY NumberSteps, DigitValue
    <3>. QED
      BY <3>2, <3>3, <3>4, <3>5, <3>6
  <2>2. CASE ~ (k < Base)
    <3>1. PICK m \in Nat : /\ m = Quotient(k) /\ m < k
                           /\ k = Base * m + Rest(k) /\ Rest(k) \in 0 .. Base - 1
      BY <2>2, Divided, DigitValue
    <3>. DEFINE c == Numeral[Rest(k) + 1]
                u == Decimal(m)
    <3>2. c \in Digit /\ ValueOf(c) = Rest(k)
      BY <3>1, DigitValue
    <3>3. Decimal(k) = Append(u, c)
      BY <2>2, <3>1, DecimalSteps
    <3>4. u \in Seq(Digit) /\ Number(u) = m
      BY <1>1, <3>1
    <3>. HIDE DEF c, u
    <3>5. Append(u, c) \in Seq(Digit) /\ Append(u, c) # <<>>
      BY <3>2, <3>4, AppendProperties
    <3>6. Number(Append(u, c)) = Base * Number(u) + ValueOf(c)
      BY <3>2, <3>4, NumberSteps
    <3>. QED
      BY <3>1, <3>2, <3>3, <3>4, <3>5, <3>6
  <2>. QED
    BY <2>1, <2>2
<1>. HIDE DEF Good
<1>2. \A k \in Nat : (\A j \in Nat : j < k => j \in S) => k \in S
  BY <1>1
<1>. HIDE DEF S
<1>3. Nat \subseteq S
  BY <1>2, StrongInduction
<1>. QED
  BY <1>3 DEF S, Good

\* strtol passes over leading white space.
LEMMA TrimmedType ==
  ASSUME NEW C, NEW t \in Seq(C)
  PROVE  /\ Trimmed(t) \in Seq(C)
         /\ t # <<>> /\ t[1] \notin Separator => Trimmed(t) = t
<1>. DEFINE words == {i \in DOMAIN t : t[i] \notin Separator}
<1>1. DOMAIN t = 1 .. Len(t) /\ Len(t) \in Nat
  BY LenProperties
<1>2. Trimmed(t) = IF words = {} THEN <<>> ELSE SubSeq(t, Min(words), Len(t))
  BY DEF Trimmed
<1>3. words \subseteq Nat
  BY <1>1
<1>4. ASSUME words # {} PROVE Min(words) \in words /\ \A y \in words : Min(words) <= y
  <2>1. \E x \in words : \A y \in words : x <= y
    BY <1>3, <1>4, SmallestNumber
  <2>. HIDE DEF words
  <2>. QED
    BY <2>1 DEF Min
<1>5. Trimmed(t) \in Seq(C)
  <2>1. CASE words = {}
    BY <1>2, <2>1, EmptySeq
  <2>2. CASE words # {}
    <3>. DEFINE m == Min(words)
    <3>1. m \in 1 .. Len(t)
      BY <1>1, <1>4, <2>2
    <3>2. Trimmed(t) = SubSeq(t, m, Len(t))
      BY <1>2, <2>2
    <3>. HIDE DEF m, words
    <3>3. \A i \in m .. Len(t) : t[i] \in C
      BY <1>1, <3>1
    <3>4. m \in Int /\ Len(t) \in Int
      BY <1>1, <3>1
    <3>5. SubSeq(t, m, Len(t)) \in Seq(C)
      BY <3>3, <3>4, SubSeqProperties
    <3>. QED
      BY <3>2, <3>5
  <2>. QED
    BY <2>1, <2>2
<1>6. ASSUME t # <<>>, t[1] \notin Separator PROVE Trimmed(t) = t
  <2>1. Len(t) # 0
    BY <1>6, EmptySeq
  <2>2. 1 \in words
    BY <1>1, <1>6, <2>1
  <2>3. Min(words) = 1
    <3>1. Min(words) \in words /\ Min(words) <= 1
      BY <1>4, <2>2
    <3>2. \A x \in words : x >= 1
      BY <1>1
    <3>. QED
      BY <1>3, <3>1, <3>2
  <2>4. Trimmed(t) = SubSeq(t, 1, Len(t))
    BY <1>2, <2>2, <2>3
  <2>. QED
    BY <2>4, SubSeqFull
<1>. QED
  BY <1>5, <1>6

\* A row of digits that parse_amount, parse_nonnegative_int and parse_counter read.
LEMMA DigitsAreRead ==
  ASSUME NEW t \in Seq(Digit), t # <<>>
  PROVE  /\ Trimmed(t) = t /\ t[1] \notin {"+", "-"}
         /\ IsNumeral(t) /\ ~ Negative(t) /\ Magnitude(t) = Number(t)
<1>1. t[1] \in Digit
  <2>1. Len(t) \in Nat /\ Len(t) # 0
    BY EmptySeq, LenProperties
  <2>. QED
    BY <2>1
<1>2. t[1] \notin {"+", "-"} /\ t[1] \notin Separator
  BY <1>1, DigitsAreNumerals DEF Separator
<1>3. Trimmed(t) = t
  BY <1>2, TrimmedType
<1>4. Unsigned(t) = t
  BY <1>2, <1>3 DEF Unsigned
<1>5. Over(t, Digit)
  BY OverDigits
<1>. QED
  BY <1>2, <1>3, <1>4, <1>5 DEF IsNumeral, Negative, Magnitude

LEMMA NonnegativeIntOf ==
  ASSUME NEW C, NEW t \in Seq(C),
         NEW v \in Seq(C), v = Unsigned(t), ~ Negative(t)
  PROVE  ParseNonnegativeInt(t) = ParseAmount(v)
<1>1. IsNumeral(t) <=> v # <<>> /\ v \in Seq(Digit)
  BY OverDigits DEF IsNumeral
<1>2. ParseAmount(v) = IF v # <<>> THEN Denoted(v) ELSE Failed
  BY ParseAmountIsExact
<1>3. CASE ~ IsNumeral(t)
  BY <1>1, <1>2, <1>3 DEF ParseNonnegativeInt, Denoted
<1>4. CASE IsNumeral(t)
  <2>1. Magnitude(t) = Number(v) /\ Number(v) \in Nat
    BY <1>1, <1>4, NumberSteps DEF Magnitude
  <2>2. ParseNonnegativeInt(t) = IF Number(v) \in 0 .. IntMax THEN Number(v) ELSE Failed
    BY <1>4, <2>1 DEF ParseNonnegativeInt
  <2>. QED
    BY <1>1, <1>2, <1>4, <2>1, <2>2, LongWidth DEF Denoted
<1>. QED
  BY <1>3, <1>4

LEMMA BothParse ==
  ASSUME text \in Seq(Char)
  PROVE  ParsersAgree
<1>. DEFINE t == Trimmed(text)
            v == Tail(t)
<1>1. t \in Seq(Char)
  BY TrimmedType
<1>2. t # <<>> => v \in Seq(Char)
  BY <1>1, HeadTailProperties
<1>3. Unsigned(text) = IF t # <<>> /\ t[1] \in {"+", "-"} THEN v ELSE t
  BY DEF Unsigned
<1>4. Negative(text) <=> t[1] = "-"
  BY DEF Negative
<1>5. ParsersAgree <=> ParseNonnegativeInt(text) =
        IF t = <<>> \/ t[1] \notin {"+", "-"} THEN ParseAmount(t)
        ELSE IF t[1] = "-" /\ ParseAmount(v) # 0 THEN Failed
        ELSE ParseAmount(v)
  BY DEF ParsersAgree
<1>. HIDE DEF t, v
<1>6. CASE t = <<>>
  <2>1. ~ IsNumeral(text) /\ ParseAmount(t) = Failed
    BY <1>3, <1>6 DEF IsNumeral, ParseAmount
  <2>. QED
    BY <1>5, <1>6, <2>1 DEF ParseNonnegativeInt
<1>7. CASE t # <<>> /\ t[1] \notin {"+", "-"}
  <2>1. ParseNonnegativeInt(text) = ParseAmount(t)
    BY <1>1, <1>3, <1>4, <1>7, NonnegativeIntOf
  <2>. QED
    BY <1>5, <1>7, <2>1
<1>8. CASE t # <<>> /\ t[1] = "+"
  <2>1. ParseNonnegativeInt(text) = ParseAmount(v)
    BY <1>2, <1>3, <1>4, <1>8, NonnegativeIntOf
  <2>. QED
    BY <1>5, <1>8, <2>1
<1>9. CASE t # <<>> /\ t[1] = "-"
  <2>1. v \in Seq(Char) /\ Unsigned(text) = v /\ Negative(text)
    BY <1>2, <1>3, <1>4, <1>9
  <2>2. IsNumeral(text) <=> v # <<>> /\ v \in Seq(Digit)
    BY <2>1, OverDigits DEF IsNumeral
  <2>3. ParseAmount(v) = IF v # <<>> THEN Denoted(v) ELSE Failed
    BY <2>1, ParseAmountIsExact
  <2>4. CASE ~ IsNumeral(text)
    <3>1. ParseAmount(v) = Failed /\ ParseNonnegativeInt(text) = Failed
      BY <2>2, <2>3, <2>4 DEF ParseNonnegativeInt, Denoted
    <3>. QED
      BY <1>5, <1>9, <3>1
  <2>5. CASE IsNumeral(text)
    <3>1. Magnitude(text) = Number(v) /\ Number(v) \in Nat
      BY <2>1, <2>2, <2>5, NumberSteps DEF Magnitude
    <3>2. ParseNonnegativeInt(text) = IF - Number(v) \in 0 .. IntMax THEN - Number(v) ELSE Failed
      BY <2>1, <2>5, <3>1 DEF ParseNonnegativeInt
    <3>3. ParseAmount(v) = IF Number(v) <= IntMax THEN Number(v) ELSE Failed
      BY <2>2, <2>3, <2>5 DEF Denoted
    <3>4. CASE Number(v) = 0
      <4>. DEFINE minus == - Number(v)
      <4>1. /\ minus = 0 - Number(v)
            /\ ParseNonnegativeInt(text) = IF minus \in 0 .. IntMax THEN minus ELSE Failed
        <5>1. \A x \in Int : - x = 0 - x
          OBVIOUS
        <5>. QED
          BY <3>1, <3>2, <5>1
      <4>. HIDE DEF minus
      <4>2. ParseNonnegativeInt(text) = 0 /\ 0 <= IntMax
        <5>1. minus = 0 /\ 0 \in 0 .. IntMax
          BY <3>4, <4>1, LongWidth
        <5>. QED
          BY <4>1, <5>1
      <4>3. ParseAmount(v) = 0
        BY <3>3, <3>4, <4>2
      <4>. QED
        BY <1>5, <1>9, <4>2, <4>3
    <3>5. CASE Number(v) # 0
      <4>1. ParseNonnegativeInt(text) = Failed /\ ParseAmount(v) # 0
        BY <3>1, <3>2, <3>3, <3>5 DEF Failed
      <4>. QED
        BY <1>5, <1>9, <4>1
    <3>. QED
      BY <3>4, <3>5
  <2>. QED
    BY <2>4, <2>5
<1>. QED
  BY <1>6, <1>7, <1>8, <1>9

LEMMA PrintedIsRead ==
  ASSUME NEW n \in Nat
  PROVE  /\ n <= IntMax => ParseAmount(Decimal(n)) = n /\ ParseNonnegativeInt(Decimal(n)) = n
         /\ n <= UintMax => ParseCounter(Decimal(n)) = n
<1>. DEFINE t == Decimal(n)
<1>1. t \in Seq(Digit) /\ t # <<>> /\ Number(t) = n
  BY DecimalDenotes
<1>. HIDE DEF t
<1>2. IsNumeral(t) /\ ~ Negative(t) /\ Magnitude(t) = n
  BY <1>1, DigitsAreRead
<1>3. ASSUME n <= IntMax PROVE ParseAmount(t) = n /\ ParseNonnegativeInt(t) = n
  <2>1. ParseAmount(t) = n
    BY <1>1, <1>3, ParseAmountIsExact DEF Denoted
  <2>2. ParseNonnegativeInt(t) = n
    BY <1>2, <1>3, LongWidth DEF ParseNonnegativeInt
  <2>. QED
    BY <2>1, <2>2
<1>4. ASSUME n <= UintMax PROVE ParseCounter(t) = n
  <2>1. IntMax <= LongMax /\ IntMax \in Nat /\ LongMax \in Nat
    <3>1. PICK b \in Nat, i \in Nat, l \in Nat, p \in Nat :
            /\ b = Base /\ i = IntMax /\ l = LongMax /\ b >= 2 /\ p = i * b /\ l >= p + b - 1
      BY TextAssumption
    <3>2. i * b >= i
      BY <3>1
    <3>3. p >= i
      BY <3>1, <3>2
    <3>. QED
      BY <3>1, <3>3
  <2>2. ~ (n > UlongMax)
    BY <1>4, <2>1 DEF UintMax, UlongMax
  <2>. QED
    BY <1>2, <1>4, <2>2 DEF ParseCounter
<1>. QED
  BY <1>3, <1>4 DEF t

-----------------------------------------------------------------------------
(* Requests: put together by the ATM, taken apart by the bank.             *)

Keyword == {"exists", "balance", "auth", "withdraw"}

\* In a request a keyword counts as one character.
Symbol == Char \cup Keyword

\* A character, or keyword, within a word.
Solid == Symbol \ Separator

LEMMA SolidCharacters ==
  /\ Digit \subseteq Solid /\ HexDigit \subseteq Solid /\ Letter \subseteq Solid
  /\ Keyword \subseteq Solid /\ Solid \subseteq Symbol
<1>1. Digit \subseteq Solid
  BY DigitsAreNumerals DEF Solid, Symbol, Char, Separator
<1>2. HexDigit \subseteq Solid /\ Letter \subseteq Solid /\ Keyword \subseteq Solid
  BY <1>1 DEF Solid, Symbol, Char, Separator, HexDigit, HexLetter, Letter, Keyword
<1>. QED
  BY <1>1, <1>2 DEF Solid

\* t is s and then x.
OneLonger(C, s, x, t) ==
  /\ s \in Seq(C) /\ t \in Seq(C) /\ x \in C
  /\ Len(t) = Len(s) + 1 /\ t[Len(s) + 1] = x /\ \A i \in 1 .. Len(s) : t[i] = s[i]

LEMMA AppendedIs ==
  ASSUME NEW C, NEW s, NEW x, NEW t, OneLonger(C, s, x, t)
  PROVE  Append(s, x) = t
<1>. USE DEF OneLonger
<1>. DEFINE u == Append(s, x)
<1>1. u \in Seq(C) /\ Len(u) = Len(s) + 1 /\ u[Len(s) + 1] = x /\ \A i \in 1 .. Len(s) : u[i] = s[i]
  BY AppendProperties
<1>. HIDE DEF u
<1>2. \A i \in 1 .. Len(s) + 1 : u[i] = t[i]
  BY <1>1
<1>3. u = t
  BY <1>1, <1>2, SeqEqual
<1>. QED
  BY <1>3 DEF u

LEMMA AppendToOne ==
  ASSUME NEW C, NEW a \in C, NEW b \in C
  PROVE  Append(<<a>>, b) = <<a, b>>
<1>1. /\ <<a>> \in Seq(C) /\ <<a, b>> \in Seq(C) /\ Len(<<a>>) = 1 /\ Len(<<a, b>>) = 1 + 1
      /\ <<a, b>>[1 + 1] = b /\ \A i \in 1 .. 1 : <<a, b>>[i] = <<a>>[i]
  OBVIOUS
<1>2. OneLonger(C, <<a>>, b, <<a, b>>)
  BY <1>1 DEF OneLonger
<1>. QED
  BY <1>2, AppendedIs

LEMMA AppendToTwo ==
  ASSUME NEW C, NEW a \in C, NEW b \in C, NEW c \in C
  PROVE  Append(<<a, b>>, c) = <<a, b, c>>
<1>1. /\ <<a, b>> \in Seq(C) /\ <<a, b, c>> \in Seq(C)
      /\ Len(<<a, b>>) = 2 /\ Len(<<a, b, c>>) = 2 + 1
      /\ <<a, b, c>>[2 + 1] = c /\ \A i \in 1 .. 2 : <<a, b, c>>[i] = <<a, b>>[i]
  OBVIOUS
<1>2. OneLonger(C, <<a, b>>, c, <<a, b, c>>)
  BY <1>1 DEF OneLonger
<1>. QED
  BY <1>2, AppendedIs

LEMMA AppendToThree ==
  ASSUME NEW C, NEW a \in C, NEW b \in C, NEW c \in C, NEW d \in C
  PROVE  Append(<<a, b, c>>, d) = <<a, b, c, d>>
<1>1. /\ <<a, b, c>> \in Seq(C) /\ <<a, b, c, d>> \in Seq(C)
      /\ Len(<<a, b, c>>) = 3 /\ Len(<<a, b, c, d>>) = 3 + 1
      /\ <<a, b, c, d>>[3 + 1] = d /\ \A i \in 1 .. 3 : <<a, b, c, d>>[i] = <<a, b, c>>[i]
  OBVIOUS
<1>2. OneLonger(C, <<a, b, c>>, d, <<a, b, c, d>>)
  BY <1>1 DEF OneLonger
<1>. QED
  BY <1>2, AppendedIs

\* t is in words, but for the word w it ends in.
Line(t, words, w) ==
  /\ t \in Seq(Symbol) /\ words \in Seq(Seq(Symbol)) /\ w \in Seq(Symbol)
  /\ Scanned(t) = [words |-> words, word |-> w]

LEMMA NoLine == Line(<<>>, <<>>, <<>>)
<1>1. <<>> \in Seq(Symbol) /\ <<>> \in Seq(Seq(Symbol))
  BY EmptySeq
<1>. QED
  BY <1>1, ScannedEmpty DEF Line, ScanStart

LEMMA LineGrows ==
  ASSUME NEW t, NEW words, NEW w, Line(t, words, w), NEW c \in Solid
  PROVE  Line(Append(t, c), words, Append(w, c))
<1>1. c \in Symbol /\ c \notin Separator
  BY DEF Solid
<1>2. Append(t, c) \in Seq(Symbol) /\ Append(w, c) \in Seq(Symbol)
  BY <1>1, AppendProperties DEF Line
<1>3. Scanned(Append(t, c)) = ScanStep(Scanned(t), c)
  BY <1>1, ScannedAppend DEF Line
<1>4. Scanned(t) = [words |-> words, word |-> w]
  BY DEF Line
<1>5. ScanStep([words |-> words, word |-> w], c) = [words |-> words, word |-> Append(w, c)]
  BY <1>1 DEF ScanStep
<1>. QED
  BY <1>2, <1>3, <1>4, <1>5 DEF Line

LEMMA LineWithWord ==
  ASSUME NEW t, NEW words, Line(t, words, <<>>), NEW w \in Seq(Solid)
  PROVE  Line(t \o w, words, w)
<1>. DEFINE S == {u \in Seq(Solid) : Line(t \o u, words, u)}
<1>1. <<>> \in S
  <2>1. t \in Seq(Symbol)
    BY DEF Line
  <2>2. t \o <<>> = t /\ <<>> \in Seq(Solid)
    BY <2>1, EmptySeq, ConcatEmptySeq
  <2>. QED
    BY <2>2
<1>2. ASSUME NEW u \in Seq(Solid), u \in S, NEW c \in Solid PROVE Append(u, c) \in S
  <2>1. Line(t \o u, words, u)
    BY <1>2
  <2>2. Line(Append(t \o u, c), words, Append(u, c))
    BY <2>1, LineGrows
  <2>3. t \o Append(u, c) = Append(t \o u, c)
    <3>1. t \in Seq(Symbol) /\ u \in Seq(Symbol) /\ c \in Symbol
      BY SolidCharacters DEF Line
    <3>2. <<c>> \in Seq(Symbol)
      BY <3>1
    <3>3. Append(u, c) = u \o <<c>>
      BY <3>1, AppendIsConcat
    <3>4. t \o u \in Seq(Symbol)
      BY <3>1, ConcatProperties
    <3>5. Append(t \o u, c) = (t \o u) \o <<c>>
      BY <3>1, <3>4, AppendIsConcat
    <3>. QED
      BY <3>1, <3>2, <3>3, <3>5, ConcatAssociative
  <2>4. Append(u, c) \in Seq(Solid)
    BY AppendProperties
  <2>. QED
    BY <2>2, <2>3, <2>4
<1>. HIDE DEF S
<1>3. Seq(Solid) \subseteq S
  BY <1>1, <1>2, TextInduction
<1>. QED
  BY <1>3 DEF S

LEMMA LineWithSpace ==
  ASSUME NEW t, NEW words, NEW w, Line(t, words, w), w # <<>>
  PROVE  /\ Line(Append(t, " "), Append(words, w), <<>>)
         /\ t \o <<" ">> = Append(t, " ")
<1>1. " " \in Symbol /\ " " \in Separator
  BY DEF Symbol, Char, Separator
<1>2. t \in Seq(Symbol) /\ words \in Seq(Seq(Symbol)) /\ w \in Seq(Symbol)
      /\ Scanned(t) = [words |-> words, word |-> w]
  BY DEF Line
<1>3. /\ Append(t, " ") \in Seq(Symbol) /\ Append(words, w) \in Seq(Seq(Symbol))
      /\ <<>> \in Seq(Symbol)
  BY <1>1, <1>2, AppendProperties, EmptySeq
<1>4. Scanned(Append(t, " ")) = ScanStep(Scanned(t), " ")
  BY <1>1, <1>2, ScannedAppend
<1>5. ScanStep([words |-> words, word |-> w], " ") = [words |-> Append(words, w), word |-> <<>>]
  BY <1>1 DEF ScanStep
<1>6. t \o <<" ">> = Append(t, " ")
  BY <1>1, <1>2, AppendIsConcat
<1>. QED
  BY <1>2, <1>3, <1>4, <1>5, <1>6 DEF Line

\* The command word a request begins with, and the words split makes of a whole one.
LEMMA LineOfKeyword ==
  ASSUME NEW k \in Keyword
  PROVE  Line(<<k, " ">>, <<<<k>>>>, <<>>)
<1>1. k \in Solid
  BY SolidCharacters
<1>2. Line(Append(<<>>, k), <<>>, Append(<<>>, k))
  BY <1>1, NoLine, LineGrows
<1>. DEFINE e == <<>>
            u == Append(e, k)
<1>3. Line(u, e, u)
  BY <1>2
<1>4. u # <<>>
  OBVIOUS
<1>5. u = <<k>> /\ Append(e, u) = <<u>>
  OBVIOUS
<1>6. Append(<<k>>, " ") = <<k, " ">>
  <2>1. k \in Symbol /\ " " \in Symbol
    BY DEF Symbol, Char, Separator
  <2>. QED
    BY <2>1, AppendToOne
<1>. HIDE DEF e, u
<1>7. Line(Append(u, " "), Append(e, u), <<>>)
  BY <1>3, <1>4, LineWithSpace
<1>. QED
  BY <1>5, <1>6, <1>7

LEMMA WordsOfLine ==
  ASSUME NEW t, NEW words, NEW w, Line(t, words, w), w # <<>>
  PROVE  Words(t) = Append(words, w) /\ Len(Words(t)) = Len(words) + 1
<1>1. words \in Seq(Seq(Symbol)) /\ w \in Seq(Symbol)
  BY DEF Line
<1>2. Words(t) = Append(words, w)
  BY DEF Words, Line
<1>. QED
  BY <1>1, <1>2, AppendProperties

\* A word is whatever is solid and not empty.
Plain(w) == w \in Seq(Solid) /\ w # <<>>

\* As a set of its own: the rows of words are tuples over it.
Word == Seq(Symbol)

LEMMA PlainIsText ==
  /\ \A w : Plain(w) => w \in Word
  /\ \A k \in Keyword : <<k>> \in Word
<1>1. Seq(Solid) \subseteq Seq(Symbol)
  BY SolidCharacters
<1>2. \A k \in Keyword : <<k>> \in Seq(Symbol)
  BY DEF Symbol
<1>. QED
  BY <1>1, <1>2 DEF Plain, Word

LEMMA TwoWords ==
  ASSUME NEW k \in Keyword, NEW a, Plain(a)
  PROVE  /\ Line(<<k, " ">> \o a, <<<<k>>>>, a)
         /\ Split(<<k, " ">> \o a, 4) = [argc |-> 2, argv |-> <<<<k>>, a>>]
<1>. DEFINE t == <<k, " ">> \o a
            words == <<<<k>>>>
<1>1. Line(t, words, a)
  BY LineOfKeyword, LineWithWord DEF Plain
<1>2. Append(words, a) = <<<<k>>, a>> /\ Len(words) = 1
  <2>1. Append(<<<<k>>>>, a) = <<<<k>>, a>>
    BY PlainIsText, AppendToOne
  <2>. QED
    BY <2>1
<1>. HIDE DEF t, words
<1>3. Words(t) = <<<<k>>, a>> /\ Len(Words(t)) = 2
  <2>1. Line(t, words, a) /\ a # <<>>
    BY <1>1 DEF Plain
  <2>2. Words(t) = Append(words, a) /\ Len(Words(t)) = Len(words) + 1
    BY <2>1, WordsOfLine
  <2>. QED
    BY <1>2, <2>2
<1>4. Split(t, 4) = [argc |-> 2, argv |-> <<<<k>>, a>>]
  BY <1>3 DEF Split
<1>. QED
  BY <1>1, <1>4 DEF t, words

LEMMA ThreeWords ==
  ASSUME NEW k \in Keyword, NEW a, Plain(a), NEW b, Plain(b)
  PROVE  /\ Line(<<k, " ">> \o a \o <<" ">> \o b, <<<<k>>, a>>, b)
         /\ Split(<<k, " ">> \o a \o <<" ">> \o b, 4) = [argc |-> 3, argv |-> <<<<k>>, a, b>>]
<1>. DEFINE s == <<k, " ">> \o a
            one == <<<<k>>>>
            two == <<<<k>>, a>>
            t == (s \o <<" ">>) \o b
<1>1. Line(s, one, a) /\ a # <<>>
  BY TwoWords DEF Plain
<1>2. Append(one, a) = two
  BY PlainIsText, AppendToOne
<1>3. Append(two, b) = <<<<k>>, a, b>> /\ Len(two) = 2
  <2>. DEFINE word == <<k>>
  <2>1. word \in Word /\ a \in Word /\ b \in Word
    BY PlainIsText
  <2>. HIDE DEF word
  <2>2. Append(<<word, a>>, b) = <<word, a, b>>
    BY <2>1, AppendToTwo
  <2>. QED
    BY <2>2 DEF word
<1>. HIDE DEF s, one, two
<1>4. Line(s \o <<" ">>, two, <<>>)
  BY <1>1, <1>2, LineWithSpace
<1>5. Line(t, two, b)
  BY <1>4, LineWithWord DEF Plain
<1>. HIDE DEF t
<1>6. Words(t) = <<<<k>>, a, b>> /\ Len(Words(t)) = 3
  <2>1. Line(t, two, b) /\ b # <<>>
    BY <1>5 DEF Plain
  <2>2. Words(t) = Append(two, b) /\ Len(Words(t)) = Len(two) + 1
    BY <2>1, WordsOfLine
  <2>. QED
    BY <1>3, <2>2
<1>7. Split(t, 4) = [argc |-> 3, argv |-> <<<<k>>, a, b>>]
  BY <1>6 DEF Split
<1>. QED
  BY <1>5, <1>7 DEF t, s, two

LEMMA FourWords ==
  ASSUME NEW k \in Keyword, NEW a, Plain(a), NEW b, Plain(b), NEW c, Plain(c)
  PROVE  Split(<<k, " ">> \o a \o <<" ">> \o b \o <<" ">> \o c, 4)
           = [argc |-> 4, argv |-> <<<<k>>, a, b, c>>]
<1>. DEFINE s == <<k, " ">> \o a \o <<" ">> \o b
            two == <<<<k>>, a>>
            three == <<<<k>>, a, b>>
            t == (s \o <<" ">>) \o c
<1>1. Line(s, two, b) /\ b # <<>>
  BY ThreeWords DEF Plain
<1>2. Append(two, b) = three
  <2>. DEFINE word == <<k>>
  <2>1. word \in Word /\ a \in Word /\ b \in Word
    BY PlainIsText
  <2>. HIDE DEF word
  <2>2. Append(<<word, a>>, b) = <<word, a, b>>
    BY <2>1, AppendToTwo
  <2>. QED
    BY <2>2 DEF word
<1>3. Append(three, c) = <<<<k>>, a, b, c>> /\ Len(three) = 3
  <2>. DEFINE word == <<k>>
  <2>1. word \in Word /\ a \in Word /\ b \in Word /\ c \in Word
    BY PlainIsText
  <2>. HIDE DEF word
  <2>2. Append(<<word, a, b>>, c) = <<word, a, b, c>>
    BY <2>1, AppendToThree
  <2>. QED
    BY <2>2 DEF word
<1>. HIDE DEF s, two, three
<1>4. Line(s \o <<" ">>, three, <<>>)
  BY <1>1, <1>2, LineWithSpace
<1>5. Line(t, three, c)
  BY <1>4, LineWithWord DEF Plain
<1>. HIDE DEF t
<1>6. Words(t) = <<<<k>>, a, b, c>> /\ Len(Words(t)) = 4
  <2>1. Line(t, three, c) /\ c # <<>>
    BY <1>5 DEF Plain
  <2>2. Words(t) = Append(three, c) /\ Len(Words(t)) = Len(three) + 1
    BY <2>1, WordsOfLine
  <2>. QED
    BY <1>3, <2>2
<1>7. Split(t, 4) = [argc |-> 4, argv |-> <<<<k>>, a, b, c>>]
  BY <1>6 DEF Split
<1>. QED
  BY <1>7 DEF t, s

LEMMA PlainText ==
  ASSUME NEW C, NEW t \in Seq(C), NEW D, D \subseteq Solid, Over(t, D), Len(t) # 0
  PROVE  Plain(t)
<1>1. DOMAIN t = 1 .. Len(t) /\ Len(t) \in Nat /\ t = [i \in 1 .. Len(t) |-> t[i]]
  BY LenProperties
<1>2. \A i \in 1 .. Len(t) : t[i] \in Solid
  BY <1>1 DEF Over
<1>3. t \in [1 .. Len(t) -> Solid]
  BY <1>1, <1>2
<1>4. t \in Seq(Solid)
  BY <1>1, <1>3
<1>. QED
  BY <1>4, EmptySeq DEF Plain

\* What the ATM puts into its requests: names, pins, secrets and amounts.
LEMMA NamesArePlain ==
  ASSUME NEW C, NEW t \in Seq(C), ValidName(t)
  PROVE  Plain(t)
<1>1. Over(t, Letter) /\ Len(t) # 0
  BY DEF ValidName
<1>. QED
  BY <1>1, SolidCharacters, PlainText

LEMMA PinsArePlain ==
  ASSUME NEW C, NEW t \in Seq(C), ValidPin(t)
  PROVE  Plain(t)
<1>1. Over(t, Digit) /\ Len(t) # 0
  BY TextAssumption DEF ValidPin
<1>. QED
  BY <1>1, SolidCharacters, PlainText

LEMMA SecretsArePlain ==
  ASSUME NEW C, NEW t \in Seq(C), ValidHex(t, 2 * SecretSize)
  PROVE  Plain(t)
<1>1. Over(t, HexDigit) /\ Len(t) # 0
  BY TextAssumption DEF ValidHex
<1>. QED
  BY <1>1, SolidCharacters, PlainText

LEMMA AmountsArePlain ==
  ASSUME NEW n \in Nat
  PROVE  Plain(Decimal(n))
<1>1. Decimal(n) \in Seq(Digit) /\ Decimal(n) # <<>>
  BY DecimalDenotes
<1>2. Seq(Digit) \subseteq Seq(Solid)
  BY SolidCharacters
<1>. QED
  BY <1>1, <1>2 DEF Plain

LEMMA UniformPin == Plain([i \in 1 .. PinLength |-> "0"])
<1>. DEFINE p == [i \in 1 .. PinLength |-> "0"]
<1>1. "0" \in Solid
  <2>1. 1 \in 1 .. Base /\ Numeral[1] = "0"
    BY DigitValue DEF Numeral
  <2>2. "0" \in Digit
    BY <2>1 DEF Digit
  <2>. QED
    BY <2>2, SolidCharacters
<1>2. PinLength \in Nat \ {0}
  BY TextAssumption
<1>3. p \in Seq(Solid) /\ Len(p) = PinLength
  BY <1>1, <1>2
<1>. HIDE DEF p
<1>4. p # <<>>
  BY <1>2, <1>3, EmptySeq
<1>5. Plain(p)
  BY <1>3, <1>4 DEF Plain
<1>. QED
  BY <1>5 DEF p

LEMMA UniformSecret == Plain(ToHex([i \in 1 .. SecretSize |-> Base]))
<1>. DEFINE n == SecretSize
            bytes == [i \in 1 .. n |-> Base]
            hex == ToHex(bytes)
<1>1. n \in Nat \ {0} /\ Base \in Nat
  BY TextAssumption, DigitValue
<1>2. Len(bytes) = n
  BY <1>1
<1>3. Base \div (Base + 1) = 0 /\ Base % (Base + 1) = Base
  <2>0. PICK w \in Nat \ {0} : w = Base + 1
    BY <1>1
  <2>1. PICK b \in 0 .. w - 1, z \in Nat : b = Base /\ z = 0
    <3>1. Base \in 0 .. w - 1 /\ 0 \in Nat
      BY <1>1, <2>0
    <3>. QED
      BY <3>1
  <2>2. (z * w + b) \div w = z /\ (z * w + b) % w = b
    BY TwoPlaces
  <2>3. z * w + b = b
    BY <2>1
  <2>. QED
    BY <2>0, <2>1, <2>2, <2>3
<1>4. ASSUME NEW j \in 1 .. 2 * n PROVE (j + 1) \div 2 \in 1 .. n
  BY <1>1
<1>5. hex = [j \in 1 .. 2 * n |->
               HexNumeral(IF j % 2 = 1 THEN bytes[(j + 1) \div 2] \div (Base + 1)
                                       ELSE bytes[(j + 1) \div 2] % (Base + 1))]
  BY <1>2 DEF ToHex
<1>6. ASSUME NEW j \in 1 .. 2 * n PROVE bytes[(j + 1) \div 2] = Base
  BY <1>4
<1>. HIDE DEF bytes, hex, n
<1>7. ASSUME NEW j \in 1 .. 2 * n PROVE hex[j] \in HexDigit
  <2>1. hex[j] = HexNumeral(IF j % 2 = 1 THEN 0 ELSE Base)
    BY <1>3, <1>5, <1>6
  <2>2. HexNumeral(0) \in HexDigit /\ HexNumeral(Base) \in HexDigit
    BY <1>1, HexDigitValue
  <2>. QED
    BY <2>1, <2>2
<1>8. hex \in Seq(HexDigit) /\ Len(hex) = 2 * n
  <2>1. DOMAIN hex = 1 .. 2 * n /\ 2 * n \in Nat /\ hex = [j \in 1 .. 2 * n |-> hex[j]]
    BY <1>1, <1>5
  <2>2. hex \in [1 .. 2 * n -> HexDigit]
    BY <1>7, <2>1
  <2>. QED
    BY <2>1, <2>2
<1>9. hex # <<>>
  BY <1>1, <1>8, EmptySeq
<1>10. Seq(HexDigit) \subseteq Seq(Solid)
  BY SolidCharacters
<1>. QED
  BY <1>8, <1>9, <1>10 DEF Plain, hex, bytes, n

\* One request, there and back.
Understood(r) == ParseRequest(FormatRequest(r)) = r

LEMMA OneArgument ==
  ASSUME NEW user, Plain(user), NEW op \in {"exists", "balance"}
  PROVE  Understood([op |-> op, user |-> user])
<1>. DEFINE r == [op |-> op, user |-> user]
            t == <<op, " ">> \o user
<1>1. FormatRequest(r) = t
  BY DEF FormatRequest
<1>2. Split(t, 4) = [argc |-> 2, argv |-> <<<<op>>, user>>]
  BY TwoWords DEF Keyword
<1>. HIDE DEF t
<1>3. ParseRequest(t) = r
  <2>1. CASE op = "exists"
    BY <1>2, <2>1 DEF ParseRequest
  <2>2. CASE op = "balance"
    <3>1. <<op>> # <<"exists">>
      BY <2>2
    <3>. QED
      BY <1>2, <2>2, <3>1 DEF ParseRequest
  <2>. QED
    BY <2>1, <2>2
<1>. QED
  BY <1>1, <1>3 DEF Understood

LEMMA Withdrawal ==
  ASSUME NEW user, Plain(user), NEW amount \in 0 .. IntMax
  PROVE  Understood([op |-> "withdraw", user |-> user, amount |-> amount])
<1>. DEFINE r == [op |-> "withdraw", user |-> user, amount |-> amount]
            a == Decimal(amount)
            t == <<"withdraw", " ">> \o user \o <<" ">> \o a
<1>1. FormatRequest(r) = t
  BY DEF FormatRequest
<1>2. amount \in Nat /\ amount <= IntMax /\ amount # Failed
  BY LongWidth DEF Failed
<1>3. Plain(a) /\ ParseAmount(a) = amount
  BY <1>2, AmountsArePlain, PrintedIsRead
<1>. HIDE DEF a
<1>4. Split(t, 4) = [argc |-> 3, argv |-> <<<<"withdraw">>, user, a>>]
  BY <1>3, ThreeWords DEF Keyword
<1>. HIDE DEF t
<1>5. ParseRequest(t) = r
  BY <1>2, <1>3, <1>4 DEF ParseRequest
<1>. QED
  BY <1>1, <1>5 DEF Understood

LEMMA Authentication ==
  ASSUME NEW user, Plain(user), NEW pin, Plain(pin), NEW secret, Plain(secret)
  PROVE  Understood([op |-> "auth", user |-> user, pin |-> pin, secret |-> secret])
<1>. DEFINE r == [op |-> "auth", user |-> user, pin |-> pin, secret |-> secret]
            t == <<"auth", " ">> \o user \o <<" ">> \o pin \o <<" ">> \o secret
<1>1. FormatRequest(r) = t
  BY DEF FormatRequest
<1>2. Split(t, 4) = [argc |-> 4, argv |-> <<<<"auth">>, user, pin, secret>>]
  BY FourWords DEF Keyword
<1>. HIDE DEF t
<1>3. ParseRequest(t) = r
  BY <1>2 DEF ParseRequest
<1>. QED
  BY <1>1, <1>3 DEF Understood

-----------------------------------------------------------------------------
(* The theorems.                                                           *)

LEMMA TextIsTyped == Spec => [](text \in Seq(Char))
<1>1. Init => text \in Seq(Char)
  BY EmptySeq DEF Init
<1>2. text \in Seq(Char) /\ [Type]_text => (text \in Seq(Char))'
  BY AppendProperties DEF Type
<1>. QED
  BY <1>1, <1>2, PTL DEF Spec

\* However many characters a command line has, and whatever separators, split finds its
\* words in their order, or says that they are too many.
THEOREM WordsAreFound == Spec => []SplitFindsTheWords
<1>1. ASSUME text \in Seq(Char) PROVE SplitFindsTheWords
  <2>1. ASSUME NEW max \in 1 .. 5
        PROVE  /\ Split(text, max).argc =
                    IF Cardinality(Runs(text)) <= max THEN Cardinality(Runs(text)) ELSE max + 1
               /\ \A r \in Runs(text) : Nth(Runs(text), r) <= max =>
                    Split(text, max).argv[Nth(Runs(text), r)] = SubSeq(text, r[1], r[2])
    <3>1. max \in Nat
      OBVIOUS
    <3>. QED
      BY <1>1, <3>1, SplitIsRight
  <2>. QED
    BY <2>1 DEF SplitFindsTheWords
<1>. QED
  BY <1>1, TextIsTyped, PTL

\* However long the row of digits, parse_amount neither wraps nor lets a number beyond
\* INT_MAX by, and it accepts nothing else.
THEOREM AmountsAreExact == Spec => []AmountIsExact
<1>1. ASSUME text \in Seq(Char) PROVE AmountIsExact
  BY <1>1, OverDigits, ParseAmountIsExact DEF AmountIsExact, Denoted
<1>. QED
  BY <1>1, TextIsTyped, PTL

\* A key that passes for one is decoded by both systems, to the same bytes, and these print
\* as a key that decodes to them: for every length of key.
THEOREM KeysTravel == Spec => []KeysDecode
<1>1. ASSUME text \in Seq(Char) PROVE KeysDecode
  <2>. DEFINE n == SecretSize
  <2>1. n \in Nat \ {0}
    BY TextAssumption
  <2>2. CASE ~ ValidHex(text, 2 * n)
    BY <2>2 DEF KeysDecode, HexToBytes, ValidHex
  <2>3. CASE ValidHex(text, 2 * n)
    <3>. DEFINE bytes == Bytes(text, n)
                hex   == ToHex(bytes)
    <3>1. Len(text) = 2 * n /\ Over(text, HexDigit)
      BY <2>3 DEF ValidHex
    <3>2. FromHex(text, n) = bytes /\ \A i \in 1 .. 2 * n : text[i] \in HexDigit
      BY <1>1, <2>1, <3>1, WholeHexDecodes
    <3>3. HexToBytes(text, n) = bytes
      BY <3>1 DEF HexToBytes
    <3>4. bytes # <<>> /\ hex \in Seq(HexDigit) /\ Len(hex) = 2 * n /\ Bytes(hex, n) = bytes
      BY <2>1, <3>1, <3>2, KeyTravels
    <3>. HIDE DEF bytes, hex
    <3>5. FromHex(hex, n) = bytes
      <4>1. Over(hex, HexDigit)
        BY <3>4 DEF Over
      <4>. QED
        BY <2>1, <3>4, <4>1, WholeHexDecodes
    <3>6. ToHex(FromHex(text, n)) = hex
      BY <3>2 DEF hex
    <3>. QED
      BY <2>3, <3>2, <3>3, <3>4, <3>5, <3>6 DEF KeysDecode
  <2>. QED
    BY <2>2, <2>3
<1>. QED
  BY <1>1, TextIsTyped, PTL

\* Whatever numbers there are and however long they print, one side reads them as the
\* other does, and what one side prints the other reads.
THEOREM NumbersAreKept == Spec => []NumbersTravel
<1>1. ASSUME text \in Seq(Char) PROVE NumbersTravel
  <2>1. ParsersAgree
    BY <1>1, BothParse
  <2>2. ASSUME ParseAmount(text) # Failed
        PROVE  /\ ParseAmount(Decimal(ParseAmount(text))) = ParseAmount(text)
               /\ ParseNonnegativeInt(Decimal(ParseAmount(text))) = ParseAmount(text)
    <3>1. PICK n \in Nat : n = ParseAmount(text) /\ n <= IntMax
      BY <1>1, <2>2, ParseAmountIsExact, NumberSteps DEF Denoted
    <3>. QED
      BY <3>1, PrintedIsRead
  <2>3. ASSUME text # <<>>, Over(text, Digit), Number(text) <= UintMax
        PROVE  ParseCounter(Decimal(Number(text))) = Number(text)
    <3>1. PICK n \in Nat : n = Number(text)
      BY <1>1, <2>3, OverDigits, NumberSteps
    <3>. QED
      BY <2>3, <3>1, PrintedIsRead
  <2>. QED
    BY <2>1, <2>2, <2>3 DEF NumbersTravel
<1>. QED
  BY <1>1, TextIsTyped, PTL

\* Whatever name, pin, card and amount the ATM lets pass, of any length, the request it
\* formats means to the bank what the ATM meant.
THEOREM RequestsMeanTheSame == Spec => []RequestsAreUnderstood
<1>1. ASSUME text \in Seq(Char), NEW r \in RequestsWith(text) PROVE Understood(r)
  <2>1. CASE ValidName(text)
    <3>1. Plain(text)
      BY <1>1, <2>1, NamesArePlain
    <3>2. \/ \E op \in {"exists", "balance"} : r = [op |-> op, user |-> text]
          \/ \E a \in 0 .. IntMax : r = [op |-> "withdraw", user |-> text, amount |-> a]
      BY <1>1, <2>1 DEF RequestsWith
    <3>. QED
      BY <3>1, <3>2, OneArgument, Withdrawal
  <2>2. CASE ~ ValidName(text)
    <3>1. PICK pin, secret :
            /\ r = AuthRequest(pin, secret)
            /\ \/ ValidPin(pin) /\ pin = text /\ secret = ToHex([i \in 1 .. SecretSize |-> Base])
               \/ /\ pin = [i \in 1 .. PinLength |-> "0"]
                  /\ secret = text /\ ValidHex(secret, 2 * SecretSize)
      BY <1>1, <2>2 DEF RequestsWith
    <3>2. Plain(pin) /\ Plain(secret)
      BY <1>1, <3>1, PinsArePlain, SecretsArePlain, UniformPin, UniformSecret
    <3>3. Plain(<<"z">>)
      BY SolidCharacters DEF Plain, Letter
    <3>. QED
      BY <3>1, <3>2, <3>3, Authentication DEF AuthRequest
  <2>. QED
    BY <2>1, <2>2
<1>2. ASSUME text \in Seq(Char) PROVE RequestsAreUnderstood
  BY <1>1, <1>2 DEF RequestsAreUnderstood, Understood
<1>. QED
  BY <1>2, TextIsTyped, PTL

=============================================================================
