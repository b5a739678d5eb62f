---------------------------- MODULE SetupProofs -----------------------------
(***************************************************************************)
(* Theorems about Setup for games with any files of any length, and any    *)
(* number of calls, edits, failures and versions.                          *)
(***************************************************************************)
EXTENDS Setup, TLAPS, WellFoundedInduction, SequenceTheorems

(* Induction over the numbers, for a set of them.                          *)
LEMMA NatSet ==
  ASSUME NEW T \in SUBSET Nat, 0 \in T, \A n \in T : n + 1 \in T
  PROVE  T = Nat
  <1> SUFFICES ASSUME Nat \ T # {} PROVE FALSE
    OBVIOUS
  <1>1. PICK m \in Nat \ T : \A k \in Nat \ T : ~ (<<k, m>> \in OpToRel(<, Nat))
    BY NatLessThanWellFounded, WFMin
  <1>2. m # 0 /\ m - 1 \in Nat
    OBVIOUS
  <1>3. <<m - 1, m>> \in OpToRel(<, Nat)
    BY <1>2 DEF OpToRel
  <1>4. m - 1 \in T
    BY <1>1, <1>2, <1>3
  <1>5. (m - 1) + 1 \in T
    BY <1>4
  <1> QED
    BY <1>5

LEMMA Least ==
  ASSUME NEW T \in SUBSET Nat, T # {}
  PROVE  \E m \in T : \A n \in T : m <= n
  <1>1. PICK m \in T : \A n \in T : ~ (<<n, m>> \in OpToRel(<, Nat))
    BY NatLessThanWellFounded, WFMin
  <1>2. ASSUME NEW n \in T, ~ (m <= n) PROVE FALSE
    <2>1. <<n, m>> \in OpToRel(<, Nat)
      BY <1>2 DEF OpToRel
    <2> QED
      BY <1>1, <2>1
  <1> QED
    BY <1>2

LEMMA MinInSet ==
  ASSUME NEW T \in SUBSET Nat, T # {}
  PROVE  Min(T) \in T /\ \A n \in T : Min(T) <= n
  BY Least DEF Min

LEMMA MaxInSet ==
  ASSUME NEW k \in Nat, NEW T \in SUBSET (0..k), T # {}
  PROVE  Max(T) \in T /\ \A n \in T : n <= Max(T)
  <1> DEFINE U == {k - n : n \in T}
  <1>0. \A n \in T : n \in Nat /\ n <= k /\ k - n \in Nat
    OBVIOUS
  <1>1. U \in SUBSET Nat /\ U # {}
    BY <1>0
  <1>2. PICK u \in U : \A n \in U : u <= n
    BY <1>1, Least
  <1>3. PICK m \in T : u = k - m
    BY <1>2
  <1>4. ASSUME NEW n \in T PROVE m >= n
    <2>1. u <= k - n
      BY <1>2
    <2> QED
      BY <1>3, <2>1
  <1>5. \E x \in T : \A y \in T : x >= y
    BY <1>4
  <1>6. Max(T) \in T /\ \A n \in T : Max(T) >= n
    BY <1>5 DEF Max
  <1>7. ASSUME NEW n \in T PROVE n <= Max(T)
    <2>1. Max(T) \in Nat /\ n \in Nat /\ Max(T) >= n
      BY <1>0, <1>6
    <2> QED
      BY <2>1
  <1> QED
    BY <1>6, <1>7

-----------------------------------------------------------------------------
(* Searches.                                                               *)

LEMMA FirstInSeq ==
  ASSUME NEW S, NEW s \in Seq(S), NEW types
  PROVE  First(s, types) \in 0..Len(s)
  <1> DEFINE I == {i \in 1..Len(s) : IsCode(s[i], types)}
  <1>1. I \in SUBSET Nat /\ Len(s) \in Nat
    BY LenProperties
  <1>2. CASE I = {}
    BY <1>1, <1>2 DEF First, SelectInSeq
  <1>3. CASE I # {}
    <2>1. Min(I) \in I
      BY <1>1, <1>3, MinInSet
    <2> HIDE DEF I
    <2>2. First(s, types) = Min(I)
      BY <1>3 DEF First, SelectInSeq, I
    <2> QED
      BY <2>1, <2>2, <1>1 DEF I
  <1> QED
    BY <1>2, <1>3

LEMMA FinalInSeq ==
  ASSUME NEW S, NEW s \in Seq(S), NEW types
  PROVE  Final(s, types) \in 0..Len(s)
  <1> DEFINE I == {i \in 1..Len(s) : IsCode(s[i], types)}
  <1>1. Len(s) \in Nat
    BY LenProperties
  <1>2. CASE I = {}
    BY <1>1, <1>2 DEF Final, SelectLastInSeq
  <1>3. CASE I # {}
    <2>0. I \in SUBSET (0..Len(s))
      BY <1>1
    <2>1. Max(I) \in I
      BY <1>1, <1>3, <2>0, MaxInSet
    <2> HIDE DEF I
    <2>2. Final(s, types) = Max(I)
      BY <1>3 DEF Final, SelectLastInSeq, I
    <2> QED
      BY <2>1, <2>2, <1>1 DEF I
  <1> QED
    BY <1>2, <1>3

LEMMA InsertType ==
  ASSUME NEW S, NEW s \in Seq(S), NEW i \in 0..Len(s), NEW lines \in Seq(S)
  PROVE  Insert(s, i, lines) \in Seq(S)
  <1>1. Len(s) \in Nat /\ \A j \in 1..Len(s) : s[j] \in S
    BY LenProperties, ElementOfSeq
  <1>2. SubSeq(s, 1, i) \in Seq(S)
    BY <1>1, SubSeqProperties
  <1>3. SubSeq(s, i + 1, Len(s)) \in Seq(S)
    BY <1>1, SubSeqProperties
  <1> QED
    BY <1>2, <1>3, ConcatProperties DEF Insert

LEMMA StripFirstType ==
  ASSUME NEW S, NEW s \in Seq(S)
  PROVE  StripFirstBlock(s) \in Seq(S)
  <1> DEFINE I == {i \in 1..Len(s) : s[i].t = "BEGIN"}
             from == SelectInSeq(s, LAMBDA line : line.t = "BEGIN")
             J == {i \in from..Len(s) : s[i].t = "END"}
             to == SelectInSubSeq(s, from, Len(s), LAMBDA line : line.t = "END")
  <1>1. Len(s) \in Nat /\ \A j \in 1..Len(s) : s[j] \in S
    BY LenProperties, ElementOfSeq
  <1>2. CASE from = 0 \/ to = 0
    BY <1>2 DEF StripFirstBlock
  <1>3. CASE from # 0 /\ to # 0
    <2>1. I # {} /\ from = Min(I)
      BY <1>3 DEF SelectInSeq
    <2>2. I \in SUBSET Nat
      BY <1>1
    <2>3. from \in I
      <3> HIDE DEF I
      <3> QED
        BY <2>1, <2>2, MinInSet
    <2>4. from \in 1..Len(s)
      BY <2>3
    <2>5. J # {} /\ to = Min(J)
      BY <1>3 DEF SelectInSubSeq
    <2> HIDE DEF from
    <2>6. J \in SUBSET Nat
      BY <1>1, <2>4
    <2>7. to \in J
      <3> HIDE DEF J, to
      <3> QED
        BY <2>5, <2>6, MinInSet
    <2>8. to \in 1..Len(s)
      BY <1>1, <2>4, <2>7
    <2> HIDE DEF to
    <2>9. SubSeq(s, 1, from - 1) \in Seq(S)
      BY <1>1, <2>4, SubSeqProperties
    <2>10. SubSeq(s, to + 1, Len(s)) \in Seq(S)
      BY <1>1, <2>8, SubSeqProperties
    <2> QED
      BY <1>3, <2>9, <2>10, ConcatProperties DEF StripFirstBlock, from, to
  <1> QED
    BY <1>2, <1>3

-----------------------------------------------------------------------------
(* Recursion: what is computed step by step from base exists.              *)

StepFunctions(N, S) == [(1..N) \X S -> S]

Computes(f, N, S, base, step) ==
    /\ f \in [0..N -> S]
    /\ f[0] = base
    /\ \A n \in 1..N : f[n] = step[<<n, f[n - 1]>>]

LEMMA Recursion ==
  ASSUME NEW N, N \in Nat, NEW S, NEW base, base \in S, NEW step, step \in StepFunctions(N, S)
  PROVE  \E f : Computes(f, N, S, base, step)
  <1> USE DEF StepFunctions
  <1> DEFINE Upto(f, k) == f[0] = base /\ \A n \in 1..N : n <= k => f[n] = step[<<n, f[n - 1]>>]
             T == {k \in Nat : \E f \in [0..N -> S] : Upto(f, k)}
  <1>1. 0 \in T
    <2> DEFINE f == [n \in 0..N |-> base]
    <2>1. f \in [0..N -> S] /\ Upto(f, 0)
      OBVIOUS
    <2> QED
      BY <2>1
  <1>2. ASSUME NEW k \in T PROVE k + 1 \in T
    <2>1. PICK f \in [0..N -> S] : Upto(f, k)
      OBVIOUS
    <2> DEFINE h == [n \in 0..N |-> IF n = k + 1 THEN step[<<n, f[k]>>] ELSE f[n]]
    <2>2. k \in Nat
      OBVIOUS
    <2>3. ASSUME NEW n \in 0..N PROVE h[n] \in S
      <3>1. CASE n = k + 1
        <4>1. n \in 1..N /\ f[k] \in S
          BY <2>2, <3>1
        <4>2. step[<<n, f[k]>>] \in S
          BY <4>1
        <4> QED
          BY <3>1, <4>2
      <3>2. CASE n # k + 1
        BY <3>2
      <3> QED
        BY <3>1, <3>2
    <2>4. h \in [0..N -> S]
      BY <2>3
    <2>5. h[0] = base
      BY <2>1, <2>2
    <2>6. ASSUME NEW n \in 1..N, n <= k + 1 PROVE h[n] = step[<<n, h[n - 1]>>]
      <3>1. n - 1 \in 0..N /\ n - 1 # k + 1
        BY <2>2, <2>6
      <3>2. h[n - 1] = f[n - 1]
        BY <3>1
      <3>3. CASE n = k + 1
        <4>1. h[n] = step[<<n, f[k]>>] /\ n - 1 = k
          BY <2>2, <3>3
        <4> QED
          BY <3>2, <4>1
      <3>4. CASE n # k + 1
        <4>1. n <= k /\ h[n] = f[n]
          BY <2>2, <2>6, <3>4
        <4> QED
          BY <2>1, <3>2, <4>1
      <3> QED
        BY <3>3, <3>4
    <2> HIDE DEF h
    <2>7. Upto(h, k + 1)
      BY <2>5, <2>6
    <2> QED
      BY <2>2, <2>4, <2>7
  <1>3. T = Nat
    <2> HIDE DEF T
    <2>1. T \subseteq Nat
      BY DEF T
    <2> QED
      BY <1>1, <1>2, <2>1, NatSet
  <1>4. PICK f \in [0..N -> S] : Upto(f, N)
    BY <1>3
  <1> QED
    BY <1>4 DEF Computes

LEMMA Reaches ==
  ASSUME NEW N, N \in Nat, NEW S, NEW g, g[0] \in S,
         \A n \in 1..N : g[n - 1] \in S => g[n] \in S
  PROVE  g[N] \in S
  <1> DEFINE T == {k \in Nat : k <= N => g[k] \in S}
  <1>1. ASSUME NEW k \in T, k + 1 <= N PROVE g[k + 1] \in S
    <2>1. k + 1 \in 1..N /\ (k + 1) - 1 = k /\ g[k] \in S
      BY <1>1
    <2> QED
      BY <2>1
  <1>2. T = Nat
    <2>1. 0 \in T /\ \A k \in T : k + 1 \in T
      BY <1>1
    <2> HIDE DEF T
    <2>2. T \subseteq Nat
      BY DEF T
    <2> QED
      BY <2>1, <2>2, NatSet
  <1> QED
    BY <1>2

(* Stripping the blocks leaves a sequence of the same lines, in a set of   *)
(* which all lines were: so it adds none.                                  *)
Strips(s, g) == g = [n \in 0..Len(s) |-> IF n = 0 THEN s ELSE StripFirstBlock(g[n - 1])]

LEMMA StripType ==
  ASSUME NEW S, NEW s \in Seq(S)
  PROVE  StripMarkerBlocks(s) \in Seq(S)
  <1> DEFINE N == Len(s)
             step == [p \in (1..N) \X Seq(S) |-> StripFirstBlock(p[2])]
             strip == CHOOSE g : Strips(s, g)
  <1>1. N \in Nat
    BY LenProperties
  <1>2. step \in [(1..N) \X Seq(S) -> Seq(S)]
    BY StripFirstType
  <1>3. \A n \in 1..N : \A u \in Seq(S) : step[<<n, u>>] = StripFirstBlock(u)
    OBVIOUS
  <1> HIDE DEF step, N
  <1>4. PICK f : Computes(f, N, Seq(S), s, step)
    <2>1. step \in StepFunctions(N, Seq(S))
      BY <1>2 DEF StepFunctions
    <2> QED
      BY <1>1, <2>1, Recursion
  <1>5. ASSUME NEW n \in 0..N PROVE f[n] = IF n = 0 THEN s ELSE StripFirstBlock(f[n - 1])
    <2>1. CASE n = 0
      BY <1>4, <2>1 DEF Computes
    <2>2. CASE n # 0
      <3>1. n \in 1..N /\ n - 1 \in 0..N
        BY <1>1, <2>2
      <3>2. f[n - 1] \in Seq(S)
        BY <1>4, <3>1 DEF Computes
      <3> QED
        BY <1>3, <1>4, <2>2, <3>1, <3>2 DEF Computes
    <2> QED
      BY <2>1, <2>2
  <1>6. Strips(s, f)
    BY <1>4, <1>5 DEF Strips, N, Computes
  <1>7. Strips(s, strip)
    BY <1>6
  <1> HIDE DEF strip
  <1>8. strip[0] \in Seq(S)
    BY <1>1, <1>7 DEF Strips, N
  <1>9. ASSUME NEW n \in 1..N, strip[n - 1] \in Seq(S) PROVE strip[n] \in Seq(S)
    <2>1. n \in 0..N /\ n # 0
      BY <1>1
    <2>2. strip[n] = StripFirstBlock(strip[n - 1])
      BY <1>7, <2>1 DEF Strips, N
    <2> QED
      BY <1>9, <2>2, StripFirstType
  <1>11. strip[N] \in Seq(S)
    BY <1>1, <1>8, <1>9, Reaches
  <1> QED
    BY <1>11 DEF StripMarkerBlocks, Strips, strip, N

LEMMA StripAddsNothing ==
  ASSUME NEW S, NEW s \in Seq(S), NEW i \in DOMAIN StripMarkerBlocks(s)
  PROVE  \E j \in DOMAIN s : StripMarkerBlocks(s)[i] = s[j]
  <1> DEFINE R == {s[j] : j \in DOMAIN s}
  <1>1. DOMAIN s = 1..Len(s) /\ Len(s) \in Nat /\ s \in [1..Len(s) -> S]
    BY LenProperties
  <1>2. s \in Seq(R)
    BY <1>1
  <1>3. StripMarkerBlocks(s) \in Seq(R)
    BY <1>2, StripType
  <1>4. StripMarkerBlocks(s)[i] \in R
    BY <1>3
  <1> QED
    BY <1>4

(* Without an argument the others are left.                                *)
Keeps(args, arg, g) ==
    g = [n \in 0..Len(args) |->
            IF n = 0 THEN <<>>
            ELSE IF args[n] = arg THEN g[n - 1] ELSE Append(g[n - 1], args[n])]

LEMMA WithoutType ==
  ASSUME NEW S, NEW args \in Seq(S), NEW arg
  PROVE  Without(args, arg) \in Seq(S \ {arg})
  <1> DEFINE N == Len(args)
             K == Seq(S \ {arg})
             Kept(n, u) == IF args[n] = arg THEN u ELSE Append(u, args[n])
             step == [p \in (1..N) \X K |-> Kept(p[1], p[2])]
             kept == CHOOSE g : Keeps(args, arg, g)
  <1>1. N \in Nat /\ \A n \in 1..N : args[n] \in S
    BY LenProperties, ElementOfSeq
  <1>2. ASSUME NEW n \in 1..N, NEW u \in K PROVE Kept(n, u) \in K
    <2>1. CASE args[n] = arg
      BY <2>1
    <2>2. CASE args[n] # arg
      BY <1>1, <2>2, AppendProperties
    <2> QED
      BY <2>1, <2>2
  <1>3. <<>> \in K
    OBVIOUS
  <1> HIDE DEF K
  <1>4. step \in StepFunctions(N, K)
    BY <1>2 DEF StepFunctions
  <1>5. \A n \in 1..N : \A u \in K : step[<<n, u>>] = Kept(n, u)
    OBVIOUS
  <1> HIDE DEF step, N
  <1>6. PICK f : Computes(f, N, K, <<>>, step)
    BY <1>1, <1>3, <1>4, Recursion
  <1>7. ASSUME NEW n \in 0..N
        PROVE  f[n] = IF n = 0 THEN <<>>
                      ELSE IF args[n] = arg THEN f[n - 1] ELSE Append(f[n - 1], args[n])
    <2>1. CASE n = 0
      BY <1>6, <2>1 DEF Computes
    <2>2. CASE n # 0
      <3>1. n \in 1..N /\ n - 1 \in 0..N
        BY <1>1, <2>2
      <3>2. f[n - 1] \in K
        BY <1>6, <3>1 DEF Computes
      <3> QED
        BY <1>5, <1>6, <2>2, <3>1, <3>2 DEF Computes
    <2> QED
      BY <2>1, <2>2
  <1>8. Keeps(args, arg, f)
    BY <1>6, <1>7 DEF Keeps, N, Computes
  <1>9. Keeps(args, arg, kept)
    BY <1>8
  <1> HIDE DEF kept
  <1>10. kept[0] \in K
    BY <1>1, <1>3, <1>9 DEF Keeps, N
  <1>11. ASSUME NEW n \in 1..N, kept[n - 1] \in K PROVE kept[n] \in K
    <2>1. n \in 0..N /\ n # 0
      BY <1>1
    <2>2. kept[n] = Kept(n, kept[n - 1])
      BY <1>9, <2>1 DEF Keeps, N
    <2> QED
      BY <1>2, <1>11, <2>2
  <1>12. kept[N] \in K
    BY <1>1, <1>10, <1>11, Reaches
  <1> QED
    BY <1>12 DEF Without, Keeps, kept, N, K

-----------------------------------------------------------------------------
(* The writes keep a game a game.                                          *)

LEMMA LineTypes ==
  ASSUME NEW t \in Kinds
  PROVE  /\ OwnLine(t) \in Lines /\ MarkerBlock(Line(t)) \in Seq(Lines)
         /\ t \notin Commands => MarkerBlock(Line(t)) \in Seq(CMakeItems)
  <1>0. Line(t) \in Lines
    BY DEF Lines, Line
  <1>1. /\ Marker("BEGIN") \in Lines /\ Line(t) \in Lines /\ Marker("END") \in Lines
        /\ OwnLine(t) \in Lines
    <2>1. "BEGIN" \in Kinds /\ "END" \in Kinds
      BY DEF Kinds
    <2>2. Marker("BEGIN") \in Lines /\ Marker("END") \in Lines
      BY <2>1 DEF Lines, Marker
    <2>3. OwnLine(t) \in Lines
      BY <1>0 DEF Lines, OwnLine
    <2> QED
      BY <1>0, <2>2, <2>3
  <1>2. Marker("BEGIN") \in CMakeItems /\ Marker("END") \in CMakeItems
    BY <1>1 DEF CMakeItems, Commands, Marker
  <1>3. t \notin Commands => Line(t) \in CMakeItems
    BY <1>1 DEF CMakeItems, Line
  <1> QED
    BY <1>1, <1>2, <1>3 DEF MarkerBlock

LEMMA RenamedType ==
  ASSUME NEW s \in Seq(Lines), NEW from, NEW to \in Kinds
  PROVE  Renamed(s, from, to) \in Seq(Lines)
  <1>1. DOMAIN s = 1..Len(s) /\ Len(s) \in Nat /\ \A i \in 1..Len(s) : s[i] \in Lines
    BY LenProperties, ElementOfSeq
  <1>2. \A i \in 1..Len(s) : [s[i] EXCEPT !.t = to] \in Lines
    BY <1>1 DEF Lines
  <1> QED
    BY <1>1, <1>2 DEF Renamed

LEMMA IncludeType ==
  ASSUME NEW s \in Seq(Lines)
  PROVE  InsertIncludeIfMissing(s) \in Seq(Lines)
  <1>1. Final(s, {"include"}) \in 0..Len(s)
    BY FinalInSeq
  <1>2. MarkerBlock(Line("mcp.h")) \in Seq(Lines)
    <2>1. "mcp.h" \in Kinds
      BY DEF Kinds
    <2> QED
      BY <2>1, LineTypes
  <1> QED
    BY <1>1, <1>2, InsertType DEF InsertIncludeIfMissing

(* A game one of whose C files was rewritten.                              *)
WithFile(d, f, s) == [d EXCEPT !.c[f] = s]

LEMMA FileType ==
  ASSUME NEW d \in GameType, NEW f, NEW s, f \in ToSet(CFiles) => s \in Seq(Lines)
  PROVE  /\ WithFile(d, f, s) \in GameType
         /\ WithFile(d, f, s).copies = d.copies
         /\ WithFile(d, f, s).cmake = d.cmake /\ WithFile(d, f, s).lua = d.lua
         /\ \A g \in ToSet(CFiles) : WithFile(d, f, s).c[g] = IF g = f THEN s ELSE d.c[g]
  BY DEF GameType, WithFile

LEMMA InitType ==
  ASSUME NEW d \in GameType
  PROVE  /\ PatchEventHandlerInit(d) \in GameType
         /\ PatchEventHandlerInit(d).copies = d.copies
         /\ PatchEventHandlerInit(d).cmake = d.cmake
         /\ PatchEventHandlerInit(d).lua = d.lua
  <1> DEFINE f == EventHandler(d.c)
             s == InsertIncludeIfMissing(d.c[f])
             at == First(s, InitForms)
             new == IF Has(s, "init") \/ at = 0 \/ s[at].t = "bare" THEN s
                    ELSE Insert(s, at, MarkerBlock(Line("init")))
  <1>1. ASSUME f \in ToSet(CFiles) PROVE new \in Seq(Lines)
    <2>1. d.c[f] \in Seq(Lines)
      BY <1>1 DEF GameType
    <2> HIDE DEF f
    <2>2. s \in Seq(Lines)
      BY <2>1, IncludeType
    <2> HIDE DEF s
    <2>3. at \in 0..Len(s) /\ MarkerBlock(Line("init")) \in Seq(Lines)
      BY <2>2, FirstInSeq, LineTypes DEF Kinds
    <2> HIDE DEF at
    <2> QED
      BY <2>2, <2>3, InsertType
  <1>2. PatchEventHandlerInit(d) = WithFile(d, f, new)
    BY DEF PatchEventHandlerInit, WithFile
  <1> HIDE DEF f, new
  <1> QED
    BY <1>1, <1>2, FileType

LEMMA UpdateType ==
  ASSUME NEW d \in GameType
  PROVE  /\ PatchUpdateCallback(d) \in GameType
         /\ PatchUpdateCallback(d).copies = d.copies
         /\ PatchUpdateCallback(d).cmake = d.cmake
         /\ PatchUpdateCallback(d).lua = d.lua
  <1> DEFINE f == UpdateFile(d.c)
             at == First(d.c[f], {"update()"})
             new == Insert(d.c[f], at, MarkerBlock(Line("update")))
  <1>1. ASSUME f \in ToSet(CFiles) PROVE new \in Seq(Lines)
    <2>1. d.c[f] \in Seq(Lines)
      BY <1>1 DEF GameType
    <2> HIDE DEF f
    <2>2. at \in 0..Len(d.c[f]) /\ MarkerBlock(Line("update")) \in Seq(Lines)
      BY <2>1, FirstInSeq, LineTypes DEF Kinds
    <2> HIDE DEF at
    <2> QED
      BY <2>1, <2>2, InsertType
  <1>2. PatchUpdateCallback(d) \in {d, WithFile(d, f, new)}
    BY DEF PatchUpdateCallback, WithFile
  <1> HIDE DEF f, new
  <1> QED
    BY <1>1, <1>2, FileType

LEMMA InputType ==
  ASSUME NEW d \in GameType, NEW f \in ToSet(CFiles)
  PROVE  /\ PatchInputCalls(d, f) \in GameType
         /\ PatchInputCalls(d, f).copies = d.copies
         /\ PatchInputCalls(d, f).cmake = d.cmake
         /\ PatchInputCalls(d, f).lua = d.lua
  <1> DEFINE new == InsertIncludeIfMissing(Renamed(d.c[f], "input", "wrapper"))
  <1>1. d.c[f] \in Seq(Lines)
    BY DEF GameType
  <1>2. new \in Seq(Lines)
    <2>1. Renamed(d.c[f], "input", "wrapper") \in Seq(Lines)
      BY <1>1, RenamedType DEF Kinds
    <2> QED
      BY <2>1, IncludeType
  <1>3. PatchInputCalls(d, f) \in {d, WithFile(d, f, new)}
    BY DEF PatchInputCalls, WithFile
  <1> HIDE DEF new
  <1> QED
    BY <1>2, <1>3, FileType

LEMMA AddHarnessType ==
  ASSUME NEW item \in CMakeItems, item.t \in {"set", "add"}
  PROVE  AddHarness(item) \in CMakeItems
  <1>1. item \in CMakeCalls
    BY DEF CMakeItems, Commands
  <1>2. item.args \in Seq(Sources \cup References) /\ "mcp.c" \in Sources \cup References
    BY <1>1, ConstantsAssumption DEF CMakeCalls
  <1>3. Append(item.args, "mcp.c") \in Seq(Sources \cup References)
    BY <1>2, AppendProperties
  <1>4. AddHarness(item) \in CMakeCalls
    BY <1>1, <1>3 DEF AddHarness, CMakeCalls
  <1> QED
    BY <1>4 DEF CMakeItems

LEMMA SourceListType ==
  ASSUME NEW s \in Seq(CMakeItems), NEW game
  PROVE  PatchCMakeSourceList(s, game) \in Seq(CMakeItems)
  <1> DEFINE List(item) == item.t = "set" /\ item.alone /\ BuildsGame(ToSet(item.args), game)
             list == SelectInSeq(s, LAMBDA item : List(item))
             L == {i \in 1..Len(s) : List(s[i])}
             Target(item) == /\ item.t = "add" /\ "mcp.c" \notin ToSet(item.args)
                             /\ TargetBuildsGame(s, ToSet(item.args), game)
             new == [i \in DOMAIN s |-> IF Target(s[i]) THEN AddHarness(s[i]) ELSE s[i]]
  <1>1. /\ DOMAIN s = 1..Len(s) /\ Len(s) \in Nat /\ \A i \in 1..Len(s) : s[i] \in CMakeItems
        /\ s \in [1..Len(s) -> CMakeItems]
    BY LenProperties, ElementOfSeq
  <1>2. PatchCMakeSourceList(s, game) =
          IF list # 0 THEN [s EXCEPT ![list] = AddHarness(@)] ELSE new
    BY DEF PatchCMakeSourceList
  <1>3. CASE list # 0
    <2>1. L # {} /\ list = Min(L)
      BY <1>3 DEF SelectInSeq
    <2>2. L \in SUBSET Nat
      BY <1>1
    <2>3. list \in L
      <3> HIDE DEF L, list
      <3> QED
        BY <2>1, <2>2, MinInSet
    <2>4. list \in 1..Len(s) /\ s[list].t = "set"
      <3> HIDE DEF list
      <3> QED
        BY <2>3
    <2> HIDE DEF list, L
    <2>5. AddHarness(s[list]) \in CMakeItems
      BY <1>1, <2>4, AddHarnessType
    <2>6. [s EXCEPT ![list] = AddHarness(@)] \in Seq(CMakeItems)
      BY <2>4, <2>5, ExceptSeq
    <2> QED
      BY <1>2, <1>3, <2>6
  <1>4. CASE list = 0
    <2> HIDE DEF list
    <2>1. ASSUME NEW i \in 1..Len(s)
          PROVE  (IF Target(s[i]) THEN AddHarness(s[i]) ELSE s[i]) \in CMakeItems
      <3>1. CASE Target(s[i])
        <4>1. s[i].t = "add" /\ s[i] \in CMakeItems
          BY <1>1, <3>1
        <4>2. AddHarness(s[i]) \in CMakeItems
          BY <4>1, AddHarnessType
        <4> QED
          BY <3>1, <4>2
      <3>2. CASE ~Target(s[i])
        BY <1>1, <3>2
      <3> QED
        BY <3>1, <3>2
    <2> HIDE DEF Target
    <2>2. new \in Seq(CMakeItems)
      BY <1>1, <2>1
    <2> QED
      BY <1>2, <1>4, <2>2
  <1> QED
    BY <1>3, <1>4

(* The line that the block around include_directories() is for.            *)
LEMMA DirectoriesLine ==
  ASSUME NEW s \in Seq(CMakeItems), NEW i \in 1..Len(s)
  PROVE  LET line == [t |-> "include_directories", code |-> s[i].code, own |-> FALSE]
         IN /\ MarkerBlock(line) \in Seq(CMakeItems)
            /\ line.t = "include_directories" /\ ~line.own
            /\ s[i].code => line = Line("include_directories")
  <1> DEFINE line == [t |-> "include_directories", code |-> s[i].code, own |-> FALSE]
  <1>1. s[i].code \in BOOLEAN
    <2>1. s[i] \in CMakeItems
      BY ElementOfSeq
    <2> QED
      BY <2>1 DEF CMakeItems, CMakeCalls, Lines
  <1>2. line = [t |-> "include_directories", code |-> s[i].code, own |-> FALSE]
    OBVIOUS
  <1> HIDE DEF line
  <1>3. line.t = "include_directories" /\ ~line.own /\ (s[i].code => line = Line("include_directories"))
    <2>1. line.t = "include_directories" /\ ~line.own
      BY <1>2
    <2>2. ASSUME s[i].code PROVE line = Line("include_directories")
      <3>1. s[i].code = TRUE
        BY <1>1, <2>2
      <3> QED
        BY <1>2, <3>1 DEF Line
    <2> QED
      BY <2>1, <2>2
  <1>4. line \in CMakeItems
    BY <1>1, <1>2 DEF CMakeItems, Commands, Lines, Kinds
  <1>5. Marker("BEGIN") \in CMakeItems /\ Marker("END") \in CMakeItems
    BY DEF CMakeItems, Commands, Lines, Kinds, Marker
  <1>6. MarkerBlock(line) \in Seq(CMakeItems)
    BY <1>4, <1>5 DEF MarkerBlock
  <1> QED
    BY <1>3, <1>6 DEF line

LEMMA IncludeDirectoriesType ==
  ASSUME NEW s \in Seq(CMakeItems)
  PROVE  PatchCMakeIncludeDirectories(s) \in Seq(CMakeItems)
  <1> DEFINE Project(item) == item.t = "project" /\ item.alone
             project == SelectInSeq(s, LAMBDA item : Project(item))
             P == {i \in 1..Len(s) : Project(s[i])}
             line == [t |-> "include_directories", code |-> s[project].code, own |-> FALSE]
             block == MarkerBlock(line)
  <1>1. Len(s) \in Nat
    BY LenProperties
  <1>2. PatchCMakeIncludeDirectories(s) =
          IF Has(s, "include_directories") \/ project = 0 THEN s ELSE Insert(s, project, block)
    BY DEF PatchCMakeIncludeDirectories
  <1>4. ASSUME project # 0 PROVE project \in 1..Len(s)
    <2>1. P # {} /\ project = Min(P)
      BY <1>4 DEF SelectInSeq
    <2>2. P \in SUBSET Nat
      BY <1>1
    <2>3. project \in P
      <3> HIDE DEF P, project
      <3> QED
        BY <2>1, <2>2, MinInSet
    <2> HIDE DEF project
    <2> QED
      BY <1>1, <2>3
  <1> HIDE DEF project
  <1>5. ASSUME project # 0 PROVE Insert(s, project, block) \in Seq(CMakeItems)
    <2>1. project \in 1..Len(s) /\ project \in 0..Len(s)
      BY <1>1, <1>4, <1>5
    <2>2. block \in Seq(CMakeItems)
      BY <2>1, DirectoriesLine
    <2> HIDE DEF block
    <2> QED
      BY <2>1, <2>2, InsertType
  <1> HIDE DEF block
  <1> QED
    BY <1>2, <1>5

LEMMA CMakeType ==
  ASSUME NEW d \in GameType, d.cmake \in Seq(CMakeItems)
  PROVE  /\ PatchCMakeLists(d) \in GameType
         /\ PatchCMakeLists(d).cmake \in Seq(CMakeItems)
         /\ PatchCMakeLists(d).c = d.c /\ PatchCMakeLists(d).lua = d.lua
         /\ PatchCMakeLists(d).copies = d.copies
  <1> DEFINE listed == IF CMakeListsContain(d.cmake) THEN d.cmake
                       ELSE PatchCMakeSourceList(d.cmake, EventHandler(d.c))
             new == PatchCMakeIncludeDirectories(listed)
  <1>1. new \in Seq(CMakeItems)
    BY SourceListType, IncludeDirectoriesType
  <1>2. PatchCMakeLists(d) = [d EXCEPT !.cmake = new]
    BY DEF PatchCMakeLists
  <1> HIDE DEF new
  <1> QED
    BY <1>1, <1>2 DEF GameType

LEMMA RestoreType ==
  ASSUME NEW d \in GameType
  PROVE  /\ TeardownCMakeLists(d) \in GameType
         /\ TeardownCMakeLists(d).c = d.c /\ TeardownCMakeLists(d).lua = d.lua
         /\ TeardownCMakeLists(d).copies = d.copies
         /\ ~Refers(TeardownCMakeLists(d), "mcp.c")
  <1>1. CASE d.cmake = NoFile
    BY <1>1 DEF TeardownCMakeLists, Refers
  <1>2. CASE d.cmake # NoFile
    <2> DEFINE s == d.cmake
               Filter(item) == IF ~IsCode(item, Commands) THEN item
                               ELSE [item EXCEPT !.args = Without(@, "mcp.c")]
               Free == {item \in CMakeItems :
                          IsCode(item, Commands) => "mcp.c" \notin ToSet(item.args)}
               new == [i \in DOMAIN s |-> Filter(s[i])]
    <2>1. s \in Seq(CMakeItems)
      BY <1>2 DEF GameType
    <2>2. DOMAIN s = 1..Len(s) /\ Len(s) \in Nat /\ \A i \in 1..Len(s) : s[i] \in CMakeItems
      BY <2>1, LenProperties, ElementOfSeq
    <2>3. ASSUME NEW item \in CMakeItems PROVE Filter(item) \in Free
      <3>1. CASE ~IsCode(item, Commands)
        BY <3>1
      <3>2. CASE IsCode(item, Commands)
        <4> DEFINE args == Without(item.args, "mcp.c")
        <4>1. item \in CMakeCalls
          BY <3>2 DEF IsCode, CMakeItems
        <4>2. item.args \in Seq(Sources \cup References)
          BY <4>1 DEF CMakeCalls
        <4>3. args \in Seq((Sources \cup References) \ {"mcp.c"})
          BY <4>2, WithoutType
        <4> HIDE DEF args
        <4>4. args \in Seq(Sources \cup References) /\ "mcp.c" \notin ToSet(args)
          BY <4>3 DEF ToSet
        <4>5. [item EXCEPT !.args = args] \in CMakeCalls
          BY <4>1, <4>4 DEF CMakeCalls
        <4>6. [item EXCEPT !.args = args] \in CMakeItems
          BY <4>5 DEF CMakeItems
        <4>7. [item EXCEPT !.args = args].args = args
          BY <4>1 DEF CMakeCalls
        <4>8. Filter(item) = [item EXCEPT !.args = args]
          BY <3>2 DEF args
        <4> QED
          BY <4>4, <4>6, <4>7, <4>8
      <3> QED
        BY <3>1, <3>2
    <2>4. new \in Seq(Free)
      <3> HIDE DEF Filter, Free
      <3> QED
        BY <2>2, <2>3
    <2> DEFINE stripped == StripMarkerBlocks(new)
    <2>5. TeardownCMakeLists(d) = [d EXCEPT !.cmake = stripped]
      BY <1>2 DEF TeardownCMakeLists
    <2> HIDE DEF new
    <2>6. stripped \in Seq(Free)
      <3> HIDE DEF Free
      <3> QED
        BY <2>4, StripType
    <2> HIDE DEF stripped
    <2>7. stripped \in Seq(CMakeItems)
      BY <2>6
    <2>8. ~CMakeListsContain(stripped)
      BY <2>6 DEF CMakeListsContain
    <2> HIDE DEF Free
    <2>9. /\ TeardownCMakeLists(d) \in GameType /\ TeardownCMakeLists(d).cmake = stripped
          /\ TeardownCMakeLists(d).c = d.c /\ TeardownCMakeLists(d).lua = d.lua
          /\ TeardownCMakeLists(d).copies = d.copies
      BY <2>5, <2>7 DEF GameType
    <2> QED
      BY <2>8, <2>9 DEF Refers
  <1> QED
    BY <1>1, <1>2

LEMMA LuaType ==
  ASSUME NEW d \in GameType
  PROVE  /\ d.lua \in Seq(Lines) => PatchLuaMain(d) \in GameType
         /\ PatchLuaMain(d).c = d.c /\ PatchLuaMain(d).cmake = d.cmake
         /\ PatchLuaMain(d).copies = d.copies
         /\ StripLuaMain(d) \in GameType
         /\ StripLuaMain(d).c = d.c /\ StripLuaMain(d).cmake = d.cmake
         /\ StripLuaMain(d).copies = d.copies
         /\ Refers(StripLuaMain(d), "mcp.lua") => Refers(d, "mcp.lua")
  <1> DEFINE new == d.lua \o MarkerBlock(Line("import"))
             stripped == StripMarkerBlocks(d.lua)
  <1>1. d.lua \in Seq(Lines) => new \in Seq(Lines)
    BY LineTypes, ConcatProperties DEF Kinds
  <1>2. PatchLuaMain(d) \in {d, [d EXCEPT !.lua = new]}
    BY DEF PatchLuaMain
  <1> HIDE DEF new
  <1>3. /\ d.lua \in Seq(Lines) => PatchLuaMain(d) \in GameType
        /\ PatchLuaMain(d).c = d.c /\ PatchLuaMain(d).cmake = d.cmake
        /\ PatchLuaMain(d).copies = d.copies
    BY <1>1, <1>2 DEF GameType
  <1>4. CASE d.lua = NoFile
    BY <1>3, <1>4 DEF StripLuaMain
  <1>5. CASE d.lua # NoFile
    <2>1. d.lua \in Seq(Lines)
      BY <1>5 DEF GameType
    <2>2. stripped \in Seq(Lines)
      BY <2>1, StripType
    <2>3. Has(stripped, "import") => Has(d.lua, "import")
      BY <2>1, StripAddsNothing DEF Has
    <2>4. StripLuaMain(d) = [d EXCEPT !.lua = stripped]
      BY <1>5 DEF StripLuaMain
    <2> HIDE DEF stripped
    <2>5. /\ StripLuaMain(d) \in GameType /\ StripLuaMain(d).lua = stripped
          /\ StripLuaMain(d).c = d.c /\ StripLuaMain(d).cmake = d.cmake
          /\ StripLuaMain(d).copies = d.copies
      BY <2>2, <2>4 DEF GameType
    <2> QED
      BY <1>3, <1>5, <2>3, <2>5 DEF Refers
  <1> QED
    BY <1>4, <1>5

LEMMA StripHas ==
  ASSUME NEW S, NEW s \in Seq(S), NEW t, Has(StripMarkerBlocks(s), t)
  PROVE  Has(s, t)
  <1>1. PICK i \in DOMAIN StripMarkerBlocks(s) : IsCode(StripMarkerBlocks(s)[i], {t})
    BY DEF Has
  <1>2. PICK j \in DOMAIN s : StripMarkerBlocks(s)[i] = s[j]
    BY StripAddsNothing
  <1> QED
    BY <1>1, <1>2 DEF Has

LEMMA StripFileType ==
  ASSUME NEW d \in GameType, NEW f \in ToSet(CFiles)
  PROVE  /\ WithFile(d, f, StripMarkerBlocks(d.c[f])) \in GameType
         /\ \A t : Has(StripMarkerBlocks(d.c[f]), t) => Has(d.c[f], t)
  <1>1. d.c[f] \in Seq(Lines)
    BY DEF GameType
  <1>2. StripMarkerBlocks(d.c[f]) \in Seq(Lines)
    BY <1>1, StripType
  <1>3. WithFile(d, f, StripMarkerBlocks(d.c[f])) \in GameType
    BY <1>2, FileType
  <1> QED
    BY <1>1, <1>3, StripHas

LEMMA CopiesType ==
  ASSUME NEW d \in GameType, NEW name \in Harness, NEW n \in 0..MaxVersion
  PROVE  LET e == [d EXCEPT !.copies[name] = n]
         IN /\ e \in GameType /\ e.c = d.c /\ e.cmake = d.cmake /\ e.lua = d.lua
            /\ e.copies[name] = n /\ \A m \in Harness \ {name} : e.copies[m] = d.copies[m]
  BY DEF GameType

LEMMA FirstIs ==
  ASSUME NEW S, NEW s \in Seq(S), NEW t, First(s, {t}) # 0
  PROVE  First(s, {t}) \in 1..Len(s) /\ s[First(s, {t})].t = t
  <1> DEFINE I == {i \in 1..Len(s) : IsCode(s[i], {t})}
  <1>1. I # {} /\ First(s, {t}) = Min(I)
    BY DEF First, SelectInSeq
  <1>2. I \in SUBSET Nat
    BY LenProperties
  <1>3. First(s, {t}) \in I
    <2> HIDE DEF I
    <2> QED
      BY <1>1, <1>2, MinInSet
  <1> QED
    BY <1>3 DEF IsCode

LEMMA RenamedHas ==
  ASSUME NEW s \in Seq(Lines), NEW t \in Wrapping, Has(Renamed(s, "wrapper", "input"), t)
  PROVE  Has(s, t)
  <1>1. DOMAIN s = 1..Len(s) /\ \A i \in 1..Len(s) : s[i] \in Lines
    BY LenProperties, ElementOfSeq
  <1>2. PICK i \in DOMAIN s : IsCode(Renamed(s, "wrapper", "input")[i], {t})
    BY DEF Has, Renamed
  <1>3. t # "input"
    BY DEF Wrapping
  <1>4. [s[i] EXCEPT !.t = "input"].t = "input"
    BY <1>1 DEF Lines
  <1>5. Renamed(s, "wrapper", "input")[i] = s[i]
    BY <1>2, <1>3, <1>4 DEF Renamed, IsCode
  <1> QED
    BY <1>2, <1>5 DEF Has
-----------------------------------------------------------------------------
(* The invariant: the writes that a call has left are those of setup or    *)
(* those of teardown; in front of each that refers to a copy is the write  *)
(* of that copy, and in front of each that removes one are those that undo *)
(* the references to it, unless they have been made.                       *)

Copying == {<<"copy", name>> : name \in Harness}
WiringC == {<<"patch init">>, <<"patch update">>} \cup {<<"patch input", f>> : f \in ToSet(CFiles)}
SetupSteps == Copying \cup WiringC \cup {<<"patch CMakeLists.txt">>, <<"patch main.lua">>}

Removing == {<<"remove", name>> : name \in Harness}
Stripping == {<<"strip", f>> : f \in ToSet(CFiles)}
TeardownSteps == Removing \cup Stripping \cup {<<"restore CMakeLists.txt">>, <<"strip main.lua">>}

(* The copies there have to be when a step is made.                        *)
Needs(step) == IF step \in WiringC \cup {<<"patch CMakeLists.txt">>} THEN {"mcp.h", "mcp.c"}
               ELSE IF step = <<"patch main.lua">> THEN {"mcp.lua"} ELSE {}

Comes(step, i) == \E j \in 1..(i - 1) : todo[j] = step

CopiesFirst ==
    \A i \in DOMAIN todo :
      /\ \A name \in Needs(todo[i]) : disk.copies[name] # 0 \/ Comes(<<"copy", name>>, i)
      /\ todo[i] \in WiringC =>
           disk.cmake \in Seq(CMakeItems) \/ Comes(<<"patch CMakeLists.txt">>, i)

Unmarked(f, i) ==
    \A t \in Wrapping :
      Has(disk.c[f], t) => Comes(<<"strip", f>>, i) /\ ~Has(StripMarkerBlocks(disk.c[f]), t)

RemovesLast ==
    \A i \in DOMAIN todo :
      /\ todo[i] = <<"remove", "mcp.h">> => \A f \in ToSet(CFiles) : Unmarked(f, i)
      /\ todo[i] = <<"remove", "mcp.c">> /\ Refers(disk, "mcp.c") =>
           Comes(<<"restore CMakeLists.txt">>, i)

(* A manual step is told when its harness is there.                        *)
ToldWithHarness ==
    told # {} => /\ todo \in Seq(SetupSteps)
                 /\ disk.copies["mcp.h"] # 0 /\ disk.copies["mcp.c"] # 0
                 /\ disk.cmake \in Seq(CMakeItems)

SetupTypes ==
    /\ disk \in GameType /\ version \in 1..MaxVersion
    /\ todo \in Seq(SetupSteps) \cup Seq(TeardownSteps)

DanglingInv == SetupTypes /\ CopiesFirst /\ RemovesLast /\ ToldWithHarness

HiddenTypes == \A f \in DOMAIN hidden : hidden[f] \in Seq(Lines)

-----------------------------------------------------------------------------
(* What one write makes of a game.                                         *)

LEMMA StepHeads ==
  ASSUME NEW step \in WiringC
  PROVE  step[1] \in {"patch init", "patch update", "patch input"}
  <1>1. <<"patch init">>[1] = "patch init" /\ <<"patch update">>[1] = "patch update"
    OBVIOUS
  <1>2. \A f : <<"patch input", f>>[1] = "patch input"
    OBVIOUS
  <1> QED
    BY <1>1, <1>2 DEF WiringC

LEMMA StepNames ==
  ASSUME NEW step
  PROVE  /\ step \in SetupSteps =>
              \/ \E name \in Harness : step = <<"copy", name>>
              \/ step \in WiringC
              \/ step = <<"patch CMakeLists.txt">>
              \/ step = <<"patch main.lua">>
         /\ step \in TeardownSteps =>
              \/ \E name \in Harness : step = <<"remove", name>>
              \/ \E f \in ToSet(CFiles) : step = <<"strip", f>>
              \/ step = <<"restore CMakeLists.txt">>
              \/ step = <<"strip main.lua">>
  BY DEF SetupSteps, TeardownSteps, Copying, Removing, Stripping

LEMMA SameReferences ==
  ASSUME NEW d, NEW e, e.c = d.c, e.cmake = d.cmake, e.lua = d.lua
  PROVE  \A name \in Harness : Refers(e, name) = Refers(d, name)
  BY DEF Refers, Harness

LEMMA NoneDangles ==
  ASSUME NEW d, NEW e,
         \A f \in ToSet(CFiles) :
           e.copies["mcp.h"] = 0 /\ (\E t \in Wrapping : Has(e.c[f], t)) =>
             d.copies["mcp.h"] = 0 /\ \E t \in Wrapping : Has(d.c[f], t),
         \A name \in {"mcp.c", "mcp.lua"} :
           e.copies[name] = 0 /\ Refers(e, name) => d.copies[name] = 0 /\ Refers(d, name)
  PROVE  Dangling(e) \subseteq Dangling(d)
  BY DEF Dangling

LEMMA PatchesC ==
  ASSUME NEW d \in GameType, NEW step \in WiringC
  PROVE  /\ After(step, d) \in GameType
         /\ After(step, d).copies = d.copies
         /\ After(step, d).cmake = d.cmake /\ After(step, d).lua = d.lua
  <1>1. CASE step = <<"patch init">>
    <2>1. After(step, d) = PatchEventHandlerInit(d)
      BY <1>1 DEF After
    <2> QED
      BY <2>1, InitType
  <1>2. CASE step = <<"patch update">>
    <2>1. After(step, d) = PatchUpdateCallback(d)
      BY <1>2 DEF After
    <2> QED
      BY <2>1, UpdateType
  <1>3. ASSUME NEW f \in ToSet(CFiles), step = <<"patch input", f>>
        PROVE  /\ After(step, d) \in GameType
               /\ After(step, d).copies = d.copies
               /\ After(step, d).cmake = d.cmake /\ After(step, d).lua = d.lua
    <2>1. After(step, d) = PatchInputCalls(d, f)
      BY <1>3 DEF After
    <2> QED
      BY <2>1, InputType
  <1> QED
    BY <1>1, <1>2, <1>3 DEF WiringC

(* A write of setup, made when the copies are there that it refers to.     *)
LEMMA AfterSetup ==
  ASSUME NEW d \in GameType, NEW step \in SetupSteps, Readable(step, d),
         version \in 1..MaxVersion, MaxVersion \in Nat,
         \A name \in Needs(step) : d.copies[name] # 0
  PROVE  /\ After(step, d) \in GameType /\ Dangling(After(step, d)) \subseteq Dangling(d)
         /\ \A name \in Harness :
              d.copies[name] # 0 \/ step = <<"copy", name>> => After(step, d).copies[name] # 0
         /\ d.cmake \in Seq(CMakeItems) \/ step = <<"patch CMakeLists.txt">> =>
              After(step, d).cmake \in Seq(CMakeItems)
  <1> DEFINE e == After(step, d)
  <1>1. CASE \E name \in Harness : step = <<"copy", name>>
    <2>1. PICK name \in Harness : step = <<"copy", name>>
      BY <1>1
    <2>2. e = [d EXCEPT !.copies[name] = version]
      BY <2>1 DEF After
    <2>3. version \in 0..MaxVersion /\ version # 0
      OBVIOUS
    <2> HIDE DEF e
    <2>4. /\ e \in GameType /\ e.c = d.c /\ e.cmake = d.cmake /\ e.lua = d.lua
          /\ e.copies[name] = version /\ \A m \in Harness \ {name} : e.copies[m] = d.copies[m]
      BY <2>2, <2>3, CopiesType
    <2>5. \A m \in Harness : d.copies[m] # 0 \/ m = name => e.copies[m] # 0
      BY <2>3, <2>4
    <2>6. Dangling(e) \subseteq Dangling(d)
      BY <2>4, <2>5, SameReferences, NoneDangles DEF Harness
    <2>7. \A m \in Harness : step = <<"copy", m>> => m = name
      BY <2>1
    <2>8. step # <<"patch CMakeLists.txt">>
      BY <2>1
    <2> QED
      BY <2>4, <2>5, <2>6, <2>7, <2>8 DEF e
  <1>2. CASE step \in WiringC
    <2>1. e \in GameType /\ e.copies = d.copies /\ e.cmake = d.cmake /\ e.lua = d.lua
      BY <1>2, PatchesC
    <2>2. d.copies["mcp.h"] # 0
      BY <1>2 DEF Needs
    <2>3. /\ step # <<"patch CMakeLists.txt">>
          /\ \A name \in Harness : step # <<"copy", name>>
      <3>1. step[1] \in {"patch init", "patch update", "patch input"}
        BY <1>2, StepHeads
      <3>2. /\ <<"patch CMakeLists.txt">>[1] = "patch CMakeLists.txt"
            /\ \A name \in Harness : <<"copy", name>>[1] = "copy"
        OBVIOUS
      <3> QED
        BY <3>1, <3>2
    <2> HIDE DEF e
    <2>4. Refers(e, "mcp.c") = Refers(d, "mcp.c") /\ Refers(e, "mcp.lua") = Refers(d, "mcp.lua")
      BY <2>1 DEF Refers
    <2>5. Dangling(e) \subseteq Dangling(d)
      BY <2>1, <2>2, <2>4, NoneDangles
    <2> QED
      BY <2>1, <2>3, <2>5 DEF e
  <1>3. CASE step = <<"patch CMakeLists.txt">>
    <2>1. e = PatchCMakeLists(d)
      BY <1>3 DEF After
    <2>2. d.cmake \in Seq(CMakeItems)
      BY <1>3 DEF Readable, GameType
    <2> HIDE DEF e
    <2>3. /\ e \in GameType /\ e.cmake \in Seq(CMakeItems) /\ e.c = d.c /\ e.lua = d.lua
          /\ e.copies = d.copies
      BY <2>1, <2>2, CMakeType
    <2>4. d.copies["mcp.c"] # 0
      BY <1>3 DEF Needs
    <2>5. Refers(e, "mcp.h") = Refers(d, "mcp.h") /\ Refers(e, "mcp.lua") = Refers(d, "mcp.lua")
      BY <2>3 DEF Refers
    <2>6. Dangling(e) \subseteq Dangling(d)
      BY <2>3, <2>4, <2>5, NoneDangles
    <2>7. \A name \in Harness : step # <<"copy", name>>
      BY <1>3
    <2> QED
      BY <2>3, <2>6, <2>7 DEF e
  <1>4. CASE step = <<"patch main.lua">>
    <2>1. e = PatchLuaMain(d)
      BY <1>4 DEF After
    <2>2. d.lua \in Seq(Lines)
      BY <1>4 DEF Readable, GameType
    <2> HIDE DEF e
    <2>3. e \in GameType /\ e.c = d.c /\ e.cmake = d.cmake /\ e.copies = d.copies
      BY <2>1, <2>2, LuaType
    <2>4. step \notin WiringC \cup {<<"patch CMakeLists.txt">>}
      <3>1. step[1] = "patch main.lua"
        BY <1>4
      <3>2. <<"patch CMakeLists.txt">>[1] # "patch main.lua"
        OBVIOUS
      <3> QED
        BY <3>1, <3>2, StepHeads
    <2>5. d.copies["mcp.lua"] # 0
      BY <1>4, <2>4 DEF Needs
    <2>6. Refers(e, "mcp.h") = Refers(d, "mcp.h") /\ Refers(e, "mcp.c") = Refers(d, "mcp.c")
      BY <2>3 DEF Refers
    <2>7. Dangling(e) \subseteq Dangling(d)
      BY <2>3, <2>5, <2>6, NoneDangles
    <2>8. step # <<"patch CMakeLists.txt">> /\ \A name \in Harness : step # <<"copy", name>>
      BY <1>4, <2>4
    <2> QED
      BY <2>3, <2>7, <2>8 DEF e
  <1> QED
    BY <1>1, <1>2, <1>3, <1>4, StepNames

(* A write of teardown, made when nothing refers to what it removes.       *)
LEMMA AfterTeardown ==
  ASSUME NEW d \in GameType, NEW step \in TeardownSteps, MaxVersion \in Nat,
         step = <<"remove", "mcp.h">> => ~Refers(d, "mcp.h"),
         step = <<"remove", "mcp.c">> => ~Refers(d, "mcp.c")
  PROVE  /\ After(step, d) \in GameType /\ Dangling(After(step, d)) \subseteq Dangling(d)
         /\ \A f \in ToSet(CFiles) :
              After(step, d).c[f] = IF step = <<"strip", f>> THEN StripMarkerBlocks(d.c[f])
                                    ELSE d.c[f]
         /\ Refers(After(step, d), "mcp.c") =>
              Refers(d, "mcp.c") /\ step # <<"restore CMakeLists.txt">>
  <1> DEFINE e == After(step, d)
  <1>1. CASE \E name \in Harness : step = <<"remove", name>>
    <2>1. PICK name \in Harness : step = <<"remove", name>>
      BY <1>1
    <2>2. e = IF name = "mcp.lua" /\ KeepsLuaHarness(d) THEN d ELSE [d EXCEPT !.copies[name] = 0]
      BY <2>1 DEF After
    <2>3. \A f \in ToSet(CFiles) : step # <<"strip", f>>
      BY <2>1
    <2>4. step # <<"restore CMakeLists.txt">>
      BY <2>1
    <2> HIDE DEF e
    <2>5. CASE e = d
      BY <2>3, <2>4, <2>5 DEF e
    <2>6. CASE e = [d EXCEPT !.copies[name] = 0] /\ ~(name = "mcp.lua" /\ KeepsLuaHarness(d))
      <3>1. 0 \in 0..MaxVersion
        OBVIOUS
      <3>2. /\ e \in GameType /\ e.c = d.c /\ e.cmake = d.cmake /\ e.lua = d.lua
            /\ \A m \in Harness \ {name} : e.copies[m] = d.copies[m]
        BY <2>6, <3>1, CopiesType
      <3>3. ~Refers(d, name)
        <4>1. CASE name = "mcp.lua"
          BY <2>6, <4>1 DEF Refers, KeepsLuaHarness, Imports, Has, IsCode
        <4>2. CASE name # "mcp.lua"
          BY <2>1, <4>2 DEF Harness
        <4> QED
          BY <4>1, <4>2
      <3>4. Dangling(e) \subseteq Dangling(d)
        <4>1. \A m \in Harness : e.copies[m] = 0 /\ Refers(d, m) => d.copies[m] = 0
          BY <3>2, <3>3
        <4>2. ASSUME e.copies["mcp.h"] = 0, NEW f \in ToSet(CFiles), \E t \in Wrapping : Has(e.c[f], t)
              PROVE  d.copies["mcp.h"] = 0
          BY <3>2, <4>1, <4>2 DEF Refers, Harness
        <4> QED
          BY <3>2, <4>1, <4>2, SameReferences, NoneDangles DEF Harness
      <3>5. Refers(e, "mcp.c") = Refers(d, "mcp.c")
        BY <3>2, SameReferences DEF Harness
      <3> QED
        BY <2>3, <2>4, <3>2, <3>4, <3>5 DEF e
    <2> QED
      BY <2>2, <2>5, <2>6
  <1>2. CASE \E f \in ToSet(CFiles) : step = <<"strip", f>>
    <2>1. PICK f \in ToSet(CFiles) : step = <<"strip", f>>
      BY <1>2
    <2> DEFINE s == StripMarkerBlocks(d.c[f])
    <2>2. e = WithFile(d, f, s)
      BY <2>1 DEF After, WithFile
    <2>3. e \in GameType /\ \A t : Has(s, t) => Has(d.c[f], t)
      BY <2>2, StripFileType
    <2> HIDE DEF e
    <2>4. d.c[f] \in Seq(Lines)
      BY DEF GameType
    <2>5. s \in Seq(Lines)
      BY <2>4, StripType
    <2> HIDE DEF s
    <2>6. /\ e.copies = d.copies /\ e.cmake = d.cmake /\ e.lua = d.lua
          /\ \A g \in ToSet(CFiles) : e.c[g] = IF g = f THEN s ELSE d.c[g]
      BY <2>2, <2>5, FileType
    <2>7. \A g \in ToSet(CFiles) :
            (\E t \in Wrapping : Has(e.c[g], t)) => \E t \in Wrapping : Has(d.c[g], t)
      BY <2>3, <2>6
    <2>8. Refers(e, "mcp.c") = Refers(d, "mcp.c") /\ Refers(e, "mcp.lua") = Refers(d, "mcp.lua")
      BY <2>6 DEF Refers
    <2>9. Dangling(e) \subseteq Dangling(d)
      BY <2>6, <2>7, <2>8, NoneDangles
    <2>10. \A g \in ToSet(CFiles) : (step = <<"strip", g>>) = (g = f)
      BY <2>1
    <2>11. step # <<"restore CMakeLists.txt">>
      BY <2>1
    <2> QED
      BY <2>3, <2>6, <2>8, <2>9, <2>10, <2>11 DEF e, s
  <1>3. CASE step = <<"restore CMakeLists.txt">>
    <2>1. e = TeardownCMakeLists(d)
      BY <1>3 DEF After
    <2> HIDE DEF e
    <2>2. /\ e \in GameType /\ e.c = d.c /\ e.lua = d.lua /\ e.copies = d.copies
          /\ ~Refers(e, "mcp.c")
      BY <2>1, RestoreType
    <2>3. Refers(e, "mcp.h") = Refers(d, "mcp.h") /\ Refers(e, "mcp.lua") = Refers(d, "mcp.lua")
      BY <2>2 DEF Refers
    <2>4. Dangling(e) \subseteq Dangling(d)
      BY <2>2, <2>3, NoneDangles
    <2>5. \A f \in ToSet(CFiles) : step # <<"strip", f>>
      BY <1>3
    <2> QED
      BY <2>2, <2>4, <2>5 DEF e
  <1>4. CASE step = <<"strip main.lua">>
    <2>1. e = StripLuaMain(d)
      BY <1>4 DEF After
    <2> HIDE DEF e
    <2>2. /\ e \in GameType /\ e.c = d.c /\ e.cmake = d.cmake /\ e.copies = d.copies
          /\ Refers(e, "mcp.lua") => Refers(d, "mcp.lua")
      BY <2>1, LuaType
    <2>3. Refers(e, "mcp.h") = Refers(d, "mcp.h") /\ Refers(e, "mcp.c") = Refers(d, "mcp.c")
      BY <2>2 DEF Refers
    <2>4. Dangling(e) \subseteq Dangling(d)
      BY <2>2, <2>3, NoneDangles
    <2>5. \A f \in ToSet(CFiles) : step # <<"strip", f>>
      BY <1>4
    <2>6. step # <<"restore CMakeLists.txt">>
      BY <1>4
    <2> QED
      BY <2>2, <2>3, <2>4, <2>5, <2>6 DEF e
  <1> QED
    BY <1>1, <1>2, <1>3, <1>4, StepNames

-----------------------------------------------------------------------------
(* The writes of a call, in their order.                                   *)

LEMMA ShortSeqs ==
  ASSUME NEW S, NEW a \in S, NEW b \in S, NEW e \in S
  PROVE  /\ <<a>> \in Seq(S) /\ Len(<<a>>) = 1 /\ <<a>>[1] = a
         /\ <<a, b>> \in Seq(S) /\ Len(<<a, b>>) = 2 /\ <<a, b>>[1] = a /\ <<a, b>>[2] = b
         /\ <<a, b, e>> \in Seq(S) /\ Len(<<a, b, e>>) = 3
         /\ <<a, b, e>>[1] = a /\ <<a, b, e>>[2] = b /\ <<a, b, e>>[3] = e
  OBVIOUS

LEMMA Concat ==
  ASSUME NEW S, NEW s \in Seq(S), NEW u \in Seq(S), NEW w, w = s \o u
  PROVE  /\ w \in Seq(S) /\ Len(w) = Len(s) + Len(u)
         /\ \A i \in 1..Len(s) : w[i] = s[i]
         /\ \A i \in 1..Len(u) : w[Len(s) + i] = u[i]
  <1>1. Len(s) \in Nat /\ Len(u) \in Nat
    BY LenProperties
  <1>2. /\ s \o u \in Seq(S) /\ Len(s \o u) = Len(s) + Len(u)
        /\ \A i \in 1..(Len(s) + Len(u)) :
             (s \o u)[i] = IF i <= Len(s) THEN s[i] ELSE u[i - Len(s)]
    BY ConcatProperties
  <1>3. \A i \in 1..Len(s) : i \in 1..(Len(s) + Len(u)) /\ i <= Len(s)
    BY <1>1
  <1>4. \A i \in 1..Len(u) : /\ Len(s) + i \in 1..(Len(s) + Len(u)) /\ ~(Len(s) + i <= Len(s))
                             /\ (Len(s) + i) - Len(s) = i
    BY <1>1
  <1> QED
    BY <1>2, <1>3, <1>4

(* The name of a step tells it from the others.                            *)
LEMMA StepDistinct ==
  ASSUME NEW x
  PROVE  /\ <<"copy", x>>[1] = "copy" /\ <<"remove", x>>[1] = "remove"
         /\ <<"strip", x>>[1] = "strip" /\ <<"patch input", x>>[1] = "patch input"
         /\ <<"restore CMakeLists.txt">>[1] = "restore CMakeLists.txt"
         /\ <<"strip main.lua">>[1] = "strip main.lua"
         /\ <<"patch main.lua">>[1] = "patch main.lua"
         /\ <<"patch CMakeLists.txt">>[1] = "patch CMakeLists.txt"
  OBVIOUS

LEMMA FilesType == CFiles \in [1..Len(CFiles) -> ToSet(CFiles)] /\ Len(CFiles) \in Nat
                   /\ DOMAIN CFiles = 1..Len(CFiles)
                   /\ \A f \in ToSet(CFiles) : \E k \in 1..Len(CFiles) : f = CFiles[k]
  BY ConstantsAssumption, LenProperties DEF ToSet

LEMMA PerFileType ==
  ASSUME NEW name, NEW S, \A f \in ToSet(CFiles) : <<name, f>> \in S
  PROVE  /\ PerFile(name) \in Seq(S) /\ Len(PerFile(name)) = Len(CFiles)
         /\ \A k \in 1..Len(CFiles) : PerFile(name)[k] = <<name, CFiles[k]>>
  <1>1. \A k \in 1..Len(CFiles) : <<name, CFiles[k]>> \in S
    BY FilesType
  <1>2. PerFile(name) \in [1..Len(CFiles) -> S]
    BY FilesType, <1>1 DEF PerFile
  <1>3. PerFile(name) \in Seq(S)
    BY <1>2, FilesType
  <1>4. Len(PerFile(name)) = Len(CFiles)
    BY <1>2, <1>3, FilesType, LenProperties
  <1> QED
    BY <1>3, <1>4, FilesType DEF PerFile

LEMMA SetupCSteps ==
  ASSUME NEW d
  PROVE  /\ SetupC(d) \in Seq(SetupSteps \ {<<"patch main.lua">>})
         /\ Len(SetupC(d)) >= 3
         /\ SetupC(d)[1] = <<"copy", "mcp.h">> /\ SetupC(d)[2] = <<"copy", "mcp.c">>
         /\ SetupC(d)[3] = <<"patch CMakeLists.txt">>
  <1> DEFINE S == SetupSteps \ {<<"patch main.lua">>}
             front == <<<<"copy", "mcp.h">>, <<"copy", "mcp.c">>, <<"patch CMakeLists.txt">>>>
             callbacks == <<<<"patch init">>, <<"patch update">>>>
             rest == IF EventHandler(d.c) = NoFile THEN <<>> ELSE callbacks \o PerFile("patch input")
  <1>1. /\ <<"copy", "mcp.h">> \in S /\ <<"copy", "mcp.c">> \in S
        /\ <<"patch CMakeLists.txt">> \in S
    <2>1. /\ <<"copy", "mcp.h">> # <<"patch main.lua">> /\ <<"copy", "mcp.c">> # <<"patch main.lua">>
          /\ <<"patch CMakeLists.txt">> # <<"patch main.lua">>
      OBVIOUS
    <2> QED
      BY <2>1 DEF SetupSteps, Copying, Harness
  <1>2. <<"patch init">> \in S /\ <<"patch update">> \in S
    BY DEF SetupSteps, WiringC
  <1>3. \A f \in ToSet(CFiles) : <<"patch input", f>> \in S
    <2>1. \A f : <<"patch input", f>>[1] = "patch input" /\ <<"patch main.lua">>[1] = "patch main.lua"
      OBVIOUS
    <2>2. \A f : <<"patch input", f>> # <<"patch main.lua">>
      BY <2>1
    <2> QED
      BY <2>2 DEF SetupSteps, WiringC
  <1> HIDE DEF S
  <1>4. /\ front \in Seq(S) /\ Len(front) = 3
        /\ front[1] = <<"copy", "mcp.h">> /\ front[2] = <<"copy", "mcp.c">>
        /\ front[3] = <<"patch CMakeLists.txt">>
    BY <1>1, ShortSeqs
  <1>5. callbacks \in Seq(S)
    BY <1>2, ShortSeqs
  <1>6. PerFile("patch input") \in Seq(S)
    BY <1>3, PerFileType
  <1> HIDE DEF callbacks
  <1>7. rest \in Seq(S)
    <2>1. callbacks \o PerFile("patch input") \in Seq(S)
      BY <1>5, <1>6, ConcatProperties
    <2>2. <<>> \in Seq(S)
      OBVIOUS
    <2> QED
      BY <2>1, <2>2
  <1>8. SetupC(d) = front \o rest
    BY DEF SetupC, callbacks
  <1> HIDE DEF front, rest
  <1>9. Len(rest) \in Nat
    BY <1>7, LenProperties
  <1>10. front \in Seq(S) /\ rest \in Seq(S)
    BY <1>4, <1>7
  <1>11. /\ SetupC(d) \in Seq(S) /\ Len(SetupC(d)) = Len(front) + Len(rest)
         /\ \A i \in 1..Len(front) : SetupC(d)[i] = front[i]
    BY <1>8, <1>10, Concat
  <1>12. 1 \in 1..3 /\ 2 \in 1..3 /\ 3 \in 1..3
    OBVIOUS
  <1>13. /\ SetupC(d)[1] = front[1] /\ SetupC(d)[2] = front[2] /\ SetupC(d)[3] = front[3]
    BY <1>4, <1>11, <1>12
  <1>14. Len(SetupC(d)) >= 3
    <2>1. Len(front) = 3 /\ Len(SetupC(d)) = Len(front) + Len(rest)
      BY <1>4, <1>11
    <2> QED
      BY <1>9, <2>1
  <1> QED
    BY <1>4, <1>11, <1>13, <1>14 DEF S

LEMMA TeardownCSteps ==
  ASSUME NEW d, ~HasUnmarkedHarnessReference(d.c)
  PROVE  /\ TeardownC(d) \in Seq(TeardownSteps)
         /\ Len(TeardownC(d)) = Len(CFiles) + 3
         /\ TeardownC(d)[1] = <<"restore CMakeLists.txt">>
         /\ \A k \in 1..Len(CFiles) : TeardownC(d)[k + 1] = <<"strip", CFiles[k]>>
         /\ TeardownC(d)[(Len(CFiles) + 1) + 1] = <<"remove", "mcp.h">>
         /\ TeardownC(d)[(Len(CFiles) + 1) + 2] = <<"remove", "mcp.c">>
  <1> DEFINE S == TeardownSteps
             head == <<<<"restore CMakeLists.txt">>>>
             files == PerFile("strip")
             tail == <<<<"remove", "mcp.h">>, <<"remove", "mcp.c">>>>
             front == head \o files
  <1>1. /\ <<"restore CMakeLists.txt">> \in S
        /\ <<"remove", "mcp.h">> \in S /\ <<"remove", "mcp.c">> \in S
    BY DEF TeardownSteps, Removing, Harness
  <1>2. \A f \in ToSet(CFiles) : <<"strip", f>> \in S
    BY DEF TeardownSteps, Stripping
  <1> HIDE DEF S
  <1>3. head \in Seq(S) /\ Len(head) = 1 /\ head[1] = <<"restore CMakeLists.txt">>
    BY <1>1, ShortSeqs
  <1>4. /\ tail \in Seq(S) /\ Len(tail) = 2
        /\ tail[1] = <<"remove", "mcp.h">> /\ tail[2] = <<"remove", "mcp.c">>
    BY <1>1, ShortSeqs
  <1>5. /\ files \in Seq(S) /\ Len(files) = Len(CFiles)
        /\ \A k \in 1..Len(CFiles) : files[k] = <<"strip", CFiles[k]>>
    BY <1>2, PerFileType
  <1>6. TeardownC(d) = front \o tail
    BY DEF TeardownC
  <1> HIDE DEF head, tail, files
  <1>7. head \in Seq(S) /\ files \in Seq(S) /\ tail \in Seq(S)
    BY <1>3, <1>4, <1>5
  <1>8. /\ front \in Seq(S) /\ Len(front) = Len(head) + Len(files)
        /\ \A i \in 1..Len(head) : front[i] = head[i]
        /\ \A k \in 1..Len(files) : front[Len(head) + k] = files[k]
    BY <1>7, Concat
  <1> HIDE DEF front
  <1>9. /\ TeardownC(d) \in Seq(S) /\ Len(TeardownC(d)) = Len(front) + Len(tail)
        /\ \A i \in 1..Len(front) : TeardownC(d)[i] = front[i]
        /\ \A i \in 1..Len(tail) : TeardownC(d)[Len(front) + i] = tail[i]
    <2>1. front \in Seq(S) /\ tail \in Seq(S)
      BY <1>7, <1>8
    <2> QED
      BY <1>6, <2>1, Concat
  <1>10. /\ \A k \in 1..Len(CFiles) : k + 1 \in 1..(1 + Len(CFiles)) /\ 1 + k = k + 1
         /\ 1 \in 1..(1 + Len(CFiles)) /\ 1 \in 1..1
         /\ (1 + Len(CFiles)) + 2 = Len(CFiles) + 3
    BY FilesType
  <1>11. Len(front) = 1 + Len(CFiles) /\ front[1] = <<"restore CMakeLists.txt">>
    BY <1>3, <1>5, <1>8, <1>10
  <1>12. \A k \in 1..Len(CFiles) : front[k + 1] = <<"strip", CFiles[k]>>
    BY <1>3, <1>5, <1>8, <1>10
  <1>13. Len(TeardownC(d)) = Len(CFiles) + 3
    BY <1>4, <1>9, <1>10, <1>11
  <1>14. /\ TeardownC(d)[1] = <<"restore CMakeLists.txt">>
         /\ \A k \in 1..Len(CFiles) : TeardownC(d)[k + 1] = <<"strip", CFiles[k]>>
    BY <1>9, <1>10, <1>11, <1>12
  <1>15. /\ TeardownC(d)[(Len(CFiles) + 1) + 1] = <<"remove", "mcp.h">>
         /\ TeardownC(d)[(Len(CFiles) + 1) + 2] = <<"remove", "mcp.c">>
    <2>0. 1 \in 1..Len(tail) /\ 2 \in 1..Len(tail)
      BY <1>4
    <2>1. Len(front) = Len(CFiles) + 1
      <3>1. 1 + Len(CFiles) = Len(CFiles) + 1
        BY FilesType
      <3> QED
        BY <1>11, <3>1
    <2>2. /\ TeardownC(d)[Len(front) + 1] = tail[1]
          /\ TeardownC(d)[Len(front) + 2] = tail[2]
      BY <1>9, <2>0
    <2> QED
      BY <1>4, <2>1, <2>2
  <1> QED
    BY <1>9, <1>13, <1>14, <1>15 DEF S

LEMMA LuaSteps ==
  /\ SetupLua \in Seq(SetupSteps) /\ TeardownLua \in Seq(TeardownSteps)
  /\ Len(SetupLua) = 2 /\ SetupLua[1] = <<"copy", "mcp.lua">>
  /\ SetupLua[2] = <<"patch main.lua">>
  /\ Len(TeardownLua) = 2 /\ TeardownLua[1] = <<"strip main.lua">>
  /\ TeardownLua[2] = <<"remove", "mcp.lua">>
  <1>1. <<"copy", "mcp.lua">> \in SetupSteps /\ <<"patch main.lua">> \in SetupSteps
    BY DEF SetupSteps, Copying, Harness
  <1>2. <<"strip main.lua">> \in TeardownSteps /\ <<"remove", "mcp.lua">> \in TeardownSteps
    BY DEF TeardownSteps, Removing, Harness
  <1> QED
    BY <1>1, <1>2, ShortSeqs DEF SetupLua, TeardownLua

-----------------------------------------------------------------------------
(* The actions.                                                            *)

LEMMA NothingLeft ==
  ASSUME todo' = <<>>
  PROVE  CopiesFirst' /\ RemovesLast' /\ todo' \in Seq(SetupSteps)
  BY DEF CopiesFirst, RemovesLast

(* The needs of a step, whatever was asked.                                *)
LEMMA NeedsOf ==
  ASSUME NEW step
  PROVE  /\ Needs(step) \in {{"mcp.h", "mcp.c"}, {"mcp.lua"}, {}}
         /\ Needs(step) = {"mcp.lua"} => step = <<"patch main.lua">>
         /\ step \in Copying \cup TeardownSteps => Needs(step) = {} /\ step \notin WiringC
         /\ step = <<"patch main.lua">> => Needs(step) = {"mcp.lua"} /\ step \notin WiringC
         /\ step = <<"patch CMakeLists.txt">> => step \notin WiringC
  <1>1. Needs(step) \in {{"mcp.h", "mcp.c"}, {"mcp.lua"}, {}}
    BY DEF Needs
  <1>2. Needs(step) = {"mcp.lua"} => step = <<"patch main.lua">>
    <2>1. {"mcp.h", "mcp.c"} # {"mcp.lua"} /\ {} # {"mcp.lua"}
      OBVIOUS
    <2> QED
      BY <2>1 DEF Needs
  <1>3. /\ \A x : <<"copy", x>>[1] = "copy" /\ <<"remove", x>>[1] = "remove"
                  /\ <<"strip", x>>[1] = "strip"
        /\ <<"restore CMakeLists.txt">>[1] = "restore CMakeLists.txt"
        /\ <<"strip main.lua">>[1] = "strip main.lua"
        /\ <<"patch main.lua">>[1] = "patch main.lua"
        /\ <<"patch CMakeLists.txt">>[1] = "patch CMakeLists.txt"
    OBVIOUS
  <1>4. step \in Copying \cup TeardownSteps =>
          step[1] \in {"copy", "remove", "strip", "restore CMakeLists.txt", "strip main.lua"}
    BY <1>3 DEF Copying, TeardownSteps, Removing, Stripping
  <1>5. step \in WiringC =>
          step[1] \in {"patch init", "patch update", "patch input"}
    BY StepHeads
  <1>6. step \in Copying \cup TeardownSteps =>
          /\ step \notin WiringC /\ step # <<"patch CMakeLists.txt">>
          /\ step # <<"patch main.lua">>
    BY <1>3, <1>4, <1>5
  <1>7. step = <<"patch main.lua">> => step \notin WiringC /\ step # <<"patch CMakeLists.txt">>
    BY <1>3, <1>5
  <1>8. step = <<"patch CMakeLists.txt">> => step \notin WiringC
    BY <1>3, <1>5
  <1>9. step \in Copying \cup TeardownSteps => Needs(step) = {}
    BY <1>6 DEF Needs
  <1>10. step = <<"patch main.lua">> => Needs(step) = {"mcp.lua"}
    BY <1>7 DEF Needs
  <1> QED
    BY <1>1, <1>2, <1>6, <1>7, <1>8, <1>9, <1>10

LEMMA SetupNotRemoving ==
  ASSUME NEW step \in SetupSteps, NEW name
  PROVE  step # <<"remove", name>> /\ step \notin Stripping
  <1>1. /\ \A x : <<"copy", x>>[1] = "copy" /\ <<"strip", x>>[1] = "strip"
        /\ <<"remove", name>>[1] = "remove"
        /\ <<"patch main.lua">>[1] = "patch main.lua"
        /\ <<"patch CMakeLists.txt">>[1] = "patch CMakeLists.txt"
    OBVIOUS
  <1>2. step[1] \notin {"remove", "strip"}
    BY <1>1, StepHeads DEF SetupSteps, Copying
  <1> QED
    BY <1>1, <1>2 DEF Stripping

LEMMA CallKeeps ==
  ASSUME DanglingInv, NEW tool \in {"setup", "teardown"}, NEW language \in Languages,
         Call(tool, language)
  PROVE  DanglingInv'
  <1>1. /\ todo' = Steps(tool, language, disk) /\ disk' = disk /\ told' = {}
        /\ version' = version
    BY DEF Call
  <1>2. ToldWithHarness'
    BY <1>1 DEF ToldWithHarness
  <1>3. disk' \in GameType /\ version' \in 1..MaxVersion
    BY <1>1 DEF DanglingInv, SetupTypes
  <1>4. CASE tool = "setup" /\ language = "c"
    <2>1. todo' = SetupC(disk)
      BY <1>1, <1>4 DEF Steps
    <2>2. /\ todo' \in Seq(SetupSteps \ {<<"patch main.lua">>}) /\ Len(todo') >= 3
          /\ todo'[1] = <<"copy", "mcp.h">> /\ todo'[2] = <<"copy", "mcp.c">>
          /\ todo'[3] = <<"patch CMakeLists.txt">>
      BY <2>1, SetupCSteps
    <2>3. /\ DOMAIN todo' = 1..Len(todo') /\ Len(todo') \in Nat
          /\ \A i \in 1..Len(todo') : todo'[i] \in SetupSteps \ {<<"patch main.lua">>}
      BY <2>2, LenProperties, ElementOfSeq
    <2>4. todo' \in Seq(SetupSteps)
      BY <2>2, SeqMonotonic
    <2>5. ASSUME NEW i \in DOMAIN todo'
          PROVE  /\ \A name \in Needs(todo'[i]) : Comes(<<"copy", name>>, i)'
                 /\ todo'[i] \in WiringC => Comes(<<"patch CMakeLists.txt">>, i)'
      <3>0. i \in Nat /\ i >= 1 /\ (i <= 2 \/ i >= 3)
        <4>1. i \in 1..Len(todo') /\ Len(todo') \in Nat
          BY <2>3
        <4> QED
          BY <4>1
      <3>1. CASE i <= 2
        <4>1. i = 1 \/ i = 2
          BY <3>0, <3>1
        <4>2. todo'[i] \in Copying
          BY <2>2, <4>1 DEF Copying, Harness
        <4> QED
          BY <4>2, NeedsOf
      <3>2. CASE i >= 3
        <4>1. i \in Nat /\ 1 \in 1..(i - 1) /\ 2 \in 1..(i - 1)
          BY <3>0, <3>2
        <4>2. Comes(<<"copy", "mcp.h">>, i)' /\ Comes(<<"copy", "mcp.c">>, i)'
          BY <2>2, <4>1 DEF Comes
        <4>3. todo'[i] # <<"patch main.lua">>
          BY <2>3
        <4>4. Needs(todo'[i]) \subseteq {"mcp.h", "mcp.c"}
          BY <4>3, NeedsOf
        <4>5. todo'[i] \in WiringC => i # 3
          BY <2>2, NeedsOf
        <4>6. todo'[i] \in WiringC => Comes(<<"patch CMakeLists.txt">>, i)'
          <5> SUFFICES ASSUME i # 3 PROVE Comes(<<"patch CMakeLists.txt">>, i)'
            BY <4>5
          <5>1. 3 \in 1..(i - 1)
            BY <3>2, <4>1
          <5> QED
            BY <2>2, <5>1 DEF Comes
        <4> QED
          BY <4>2, <4>4, <4>6
      <3> QED
        BY <3>0, <3>1, <3>2
    <2>6. CopiesFirst'
      BY <2>5 DEF CopiesFirst
    <2>7. ASSUME NEW i \in DOMAIN todo'
          PROVE  todo'[i] # <<"remove", "mcp.h">> /\ todo'[i] # <<"remove", "mcp.c">>
      BY <2>3, SetupNotRemoving
    <2>8. RemovesLast'
      BY <2>7 DEF RemovesLast
    <2> QED
      BY <1>2, <1>3, <2>4, <2>6, <2>8 DEF DanglingInv, SetupTypes
  <1>5. CASE tool = "setup" /\ language = "lua"
    <2>1. todo' = SetupLua
      BY <1>1, <1>5 DEF Steps
    <2>2. /\ todo' \in Seq(SetupSteps) /\ Len(todo') = 2
          /\ todo'[1] = <<"copy", "mcp.lua">> /\ todo'[2] = <<"patch main.lua">>
      BY <2>1, LuaSteps
    <2>3. DOMAIN todo' = 1..2 /\ \A i \in 1..2 : todo'[i] \in SetupSteps
      BY <2>2, LenProperties, ElementOfSeq
    <2>4. todo'[1] \in Copying
      BY <2>2 DEF Copying, Harness
    <2>5. Needs(todo'[1]) = {} /\ todo'[1] \notin WiringC
      BY <2>4, NeedsOf
    <2>6. Needs(todo'[2]) = {"mcp.lua"} /\ todo'[2] \notin WiringC
      BY <2>2, NeedsOf
    <2>7. Comes(<<"copy", "mcp.lua">>, 2)'
      <3>1. 1 \in 1..(2 - 1)
        OBVIOUS
      <3> QED
        BY <2>2, <3>1 DEF Comes
    <2>8. ASSUME NEW i \in DOMAIN todo'
          PROVE  /\ \A name \in Needs(todo'[i]) : Comes(<<"copy", name>>, i)'
                 /\ todo'[i] \notin WiringC
      <3>1. i = 1 \/ i = 2
        BY <2>3
      <3> QED
        BY <2>5, <2>6, <2>7, <3>1
    <2>9. CopiesFirst'
      BY <2>8 DEF CopiesFirst
    <2>10. RemovesLast'
      BY <2>3, SetupNotRemoving DEF RemovesLast
    <2> QED
      BY <1>2, <1>3, <2>2, <2>9, <2>10 DEF DanglingInv, SetupTypes
  <1>6. CASE tool = "teardown" /\ language = "c"
    <2>1. todo' = TeardownC(disk)
      BY <1>1, <1>6 DEF Steps
    <2>2. CASE HasUnmarkedHarnessReference(disk.c)
      <3>1. todo' = <<>>
        BY <2>1, <2>2 DEF TeardownC
      <3> QED
        BY <1>2, <1>3, <3>1, NothingLeft DEF DanglingInv, SetupTypes
    <2>3. CASE ~HasUnmarkedHarnessReference(disk.c)
      <3>1. /\ todo' \in Seq(TeardownSteps) /\ Len(todo') = Len(CFiles) + 3
            /\ todo'[1] = <<"restore CMakeLists.txt">>
            /\ \A k \in 1..Len(CFiles) : todo'[k + 1] = <<"strip", CFiles[k]>>
        BY <2>1, <2>3, TeardownCSteps
      <3>2. DOMAIN todo' = 1..Len(todo') /\ \A i \in 1..Len(todo') : todo'[i] \in TeardownSteps
        BY <3>1, LenProperties, ElementOfSeq
      <3>3. CopiesFirst'
        BY <3>2, NeedsOf DEF CopiesFirst
      <3>4. ASSUME NEW i \in DOMAIN todo', NEW name, todo'[i] = <<"remove", name>>
            PROVE  i > Len(CFiles) + 1 /\ i \in Nat
        <4>1. i \in Nat /\ i >= 1 /\ Len(CFiles) \in Nat
          <5>1. i \in 1..(Len(CFiles) + 3) /\ Len(CFiles) \in Nat
            BY <3>1, <3>2, FilesType
          <5> QED
            BY <5>1
        <4>2. todo'[1] # <<"remove", name>>
          BY <3>1, StepDistinct
        <4>3. ASSUME i # 1, i <= Len(CFiles) + 1 PROVE FALSE
          <5>1. i - 1 \in 1..Len(CFiles) /\ (i - 1) + 1 = i
            BY <4>1, <4>3
          <5>2. todo'[i] = <<"strip", CFiles[i - 1]>>
            BY <3>1, <5>1
          <5> QED
            BY <3>4, <5>2, StepDistinct
        <4> QED
          BY <3>4, <4>1, <4>2, <4>3
      <3>5. ASSUME NEW i \in DOMAIN todo', NEW name, todo'[i] = <<"remove", name>>
            PROVE  /\ Comes(<<"restore CMakeLists.txt">>, i)'
                   /\ \A f \in ToSet(CFiles) : Comes(<<"strip", f>>, i)'
        <4>1. i > Len(CFiles) + 1 /\ i \in Nat
          BY <3>4, <3>5
        <4>2. Comes(<<"restore CMakeLists.txt">>, i)'
          <5>1. 1 \in 1..(i - 1)
            BY <4>1, FilesType
          <5> QED
            BY <3>1, <5>1 DEF Comes
        <4>3. ASSUME NEW f \in ToSet(CFiles) PROVE Comes(<<"strip", f>>, i)'
          <5>1. PICK k \in 1..Len(CFiles) : f = CFiles[k]
            BY FilesType
          <5>2. k + 1 \in 1..(i - 1)
            BY <4>1, FilesType
          <5>3. todo'[k + 1] = <<"strip", f>>
            BY <3>1, <5>1
          <5> QED
            BY <5>2, <5>3 DEF Comes
        <4> QED
          BY <4>2, <4>3
      <3>6. ASSUME NEW f \in ToSet(CFiles), NEW t \in Wrapping
            PROVE  ~Has(StripMarkerBlocks(disk'.c[f]), t)
        BY <1>1, <2>3 DEF HasUnmarkedHarnessReference
      <3>7. RemovesLast'
        BY <3>5, <3>6 DEF RemovesLast, Unmarked
      <3> QED
        BY <1>2, <1>3, <3>1, <3>3, <3>7 DEF DanglingInv, SetupTypes
    <2> QED
      BY <2>2, <2>3
  <1>7. CASE tool = "teardown" /\ language = "lua"
    <2>1. todo' = TeardownLua
      BY <1>1, <1>7 DEF Steps
    <2>2. /\ todo' \in Seq(TeardownSteps) /\ Len(todo') = 2
          /\ todo'[1] = <<"strip main.lua">> /\ todo'[2] = <<"remove", "mcp.lua">>
      BY <2>1, LuaSteps
    <2>3. DOMAIN todo' = 1..2 /\ \A i \in 1..2 : todo'[i] \in TeardownSteps
      BY <2>2, LenProperties, ElementOfSeq
    <2>4. CopiesFirst'
      BY <2>3, NeedsOf DEF CopiesFirst
    <2>5. ASSUME NEW i \in DOMAIN todo'
          PROVE  todo'[i] # <<"remove", "mcp.h">> /\ todo'[i] # <<"remove", "mcp.c">>
      <3>1. i = 1 \/ i = 2
        BY <2>3
      <3>2. \A name : /\ <<"strip main.lua">> # <<"remove", name>>
                      /\ name # "mcp.lua" => <<"remove", "mcp.lua">> # <<"remove", name>>
        BY StepDistinct
      <3> QED
        BY <2>2, <3>1, <3>2
    <2>6. RemovesLast'
      BY <2>5 DEF RemovesLast
    <2> QED
      BY <1>2, <1>3, <2>2, <2>4, <2>6 DEF DanglingInv, SetupTypes
  <1> QED
    BY <1>4, <1>5, <1>6, <1>7 DEF Languages

(* What the first of the writes left has to find is there.                 *)
LEMMA FirstReady ==
  ASSUME DanglingInv, todo # <<>>
  PROVE  /\ todo \in Seq(SetupSteps) => Head(todo) \in SetupSteps
         /\ todo \in Seq(TeardownSteps) => Head(todo) \in TeardownSteps
         /\ \A name \in Needs(Head(todo)) : disk.copies[name] # 0
         /\ Head(todo) \in WiringC => disk.cmake \in Seq(CMakeItems)
         /\ Head(todo) = <<"remove", "mcp.h">> => ~Refers(disk, "mcp.h")
         /\ Head(todo) = <<"remove", "mcp.c">> => ~Refers(disk, "mcp.c")
  <1>1. Head(todo) = todo[1]
    BY DEF DanglingInv, SetupTypes
  <1>2. 1 \in DOMAIN todo
    <2>1. todo \in Seq(SetupSteps \cup TeardownSteps)
      BY SeqMonotonic DEF DanglingInv, SetupTypes
    <2> QED
      BY <2>1, LenProperties, EmptySeq
  <1>3. \A step : ~Comes(step, 1)
    BY DEF Comes
  <1>4. /\ \A name \in Needs(Head(todo)) : disk.copies[name] # 0
        /\ Head(todo) \in WiringC => disk.cmake \in Seq(CMakeItems)
    BY <1>1, <1>2, <1>3 DEF DanglingInv, CopiesFirst
  <1>5. Head(todo) = <<"remove", "mcp.h">> => ~Refers(disk, "mcp.h")
    BY <1>1, <1>2, <1>3 DEF DanglingInv, RemovesLast, Unmarked, Refers
  <1>6. Head(todo) = <<"remove", "mcp.c">> => ~Refers(disk, "mcp.c")
    BY <1>1, <1>2, <1>3 DEF DanglingInv, RemovesLast
  <1>7. /\ todo \in Seq(SetupSteps) => Head(todo) \in SetupSteps
        /\ todo \in Seq(TeardownSteps) => Head(todo) \in TeardownSteps
    BY HeadTailProperties
  <1> QED
    BY <1>4, <1>5, <1>6, <1>7

(* The writes left after the first one.                                    *)
LEMMA Rest ==
  ASSUME NEW S, todo \in Seq(S), todo # <<>>, todo' = Tail(todo)
  PROVE  /\ todo' \in Seq(S)
         /\ \A i \in DOMAIN todo' :
              /\ i + 1 \in DOMAIN todo /\ todo'[i] = todo[i + 1]
              /\ \A step : Comes(step, i + 1) => step = Head(todo) \/ Comes(step, i)'
  <1>1. /\ todo' \in Seq(S) /\ Len(todo') = Len(todo) - 1
        /\ \A i \in 1..Len(todo') : todo'[i] = todo[i + 1]
    BY HeadTailProperties
  <1>2. DOMAIN todo' = 1..Len(todo') /\ DOMAIN todo = 1..Len(todo) /\ Len(todo) \in Nat
    BY <1>1, LenProperties
  <1>3. ASSUME NEW i \in DOMAIN todo'
        PROVE  /\ i + 1 \in DOMAIN todo /\ todo'[i] = todo[i + 1]
               /\ \A step : Comes(step, i + 1) => step = Head(todo) \/ Comes(step, i)'
    <2>1. i \in Nat /\ i \in 1..Len(todo') /\ i + 1 \in 1..Len(todo)
      BY <1>1, <1>2
    <2>2. ASSUME NEW step, Comes(step, i + 1), step # Head(todo) PROVE Comes(step, i)'
      <3>1. PICK j \in 1..((i + 1) - 1) : todo[j] = step
        BY <2>2 DEF Comes
      <3>2. j # 1
        BY <2>2, <3>1
      <3>3. j - 1 \in 1..(i - 1) /\ j - 1 \in 1..Len(todo') /\ (j - 1) + 1 = j
        BY <2>1, <3>2, <1>1, <1>2
      <3>4. todo'[j - 1] = step
        BY <1>1, <3>1, <3>3
      <3> QED
        BY <3>3, <3>4 DEF Comes
    <2> QED
      BY <1>1, <1>2, <2>1, <2>2
  <1> QED
    BY <1>1, <1>3

LEMMA StepOfSetup ==
  ASSUME DanglingInv, Step, todo \in Seq(SetupSteps)
  PROVE  DanglingInv' /\ Dangling(disk') \subseteq Dangling(disk)
  <1> DEFINE step == Head(todo)
  <1>1. /\ todo # <<>> /\ Readable(step, disk) /\ disk' = After(step, disk) /\ todo' = Tail(todo)
        /\ version' = version /\ told' = told \cup Told(step, disk)
    BY DEF Step
  <1>2. MaxVersion \in Nat /\ version \in 1..MaxVersion /\ disk \in GameType
    BY ConstantsAssumption DEF DanglingInv, SetupTypes
  <1>3. /\ step \in SetupSteps /\ \A name \in Needs(step) : disk.copies[name] # 0
        /\ step \in WiringC => disk.cmake \in Seq(CMakeItems)
    BY <1>1, FirstReady
  <1> HIDE DEF step
  <1>4. /\ disk' \in GameType /\ Dangling(disk') \subseteq Dangling(disk)
        /\ \A name \in Harness :
             disk.copies[name] # 0 \/ step = <<"copy", name>> => disk'.copies[name] # 0
        /\ disk.cmake \in Seq(CMakeItems) \/ step = <<"patch CMakeLists.txt">> =>
             disk'.cmake \in Seq(CMakeItems)
    BY <1>1, <1>2, <1>3, AfterSetup
  <1>5. /\ todo' \in Seq(SetupSteps)
        /\ \A i \in DOMAIN todo' :
              /\ i + 1 \in DOMAIN todo /\ todo'[i] = todo[i + 1]
              /\ \A s : Comes(s, i + 1) => s = step \/ Comes(s, i)'
    BY <1>1, Rest DEF step
  <1>6. CopiesFirst'
    <2>1. ASSUME NEW i \in DOMAIN todo', NEW name \in Needs(todo'[i])
          PROVE  disk'.copies[name] # 0 \/ Comes(<<"copy", name>>, i)'
      <3>1. disk.copies[name] # 0 \/ Comes(<<"copy", name>>, i + 1)
        BY <1>5, <2>1 DEF DanglingInv, CopiesFirst
      <3>2. name \in Harness
        BY <2>1, NeedsOf DEF Harness
      <3> QED
        BY <1>4, <1>5, <3>1, <3>2
    <2>2. ASSUME NEW i \in DOMAIN todo', todo'[i] \in WiringC
          PROVE  disk'.cmake \in Seq(CMakeItems) \/ Comes(<<"patch CMakeLists.txt">>, i)'
      <3>1. disk.cmake \in Seq(CMakeItems) \/ Comes(<<"patch CMakeLists.txt">>, i + 1)
        BY <1>5, <2>2 DEF DanglingInv, CopiesFirst
      <3> QED
        BY <1>4, <1>5, <3>1
    <2> QED
      BY <2>1, <2>2 DEF CopiesFirst
  <1>7. RemovesLast'
    <2>1. \A i \in DOMAIN todo' : todo'[i] \in SetupSteps
      BY <1>5, LenProperties, ElementOfSeq
    <2> QED
      BY <2>1, SetupNotRemoving DEF RemovesLast
  <1>8. ToldWithHarness'
    <2>1. CASE told # {}
      <3>1. /\ disk.copies["mcp.h"] # 0 /\ disk.copies["mcp.c"] # 0
            /\ disk.cmake \in Seq(CMakeItems)
        BY <2>1 DEF DanglingInv, ToldWithHarness
      <3> QED
        BY <1>4, <1>5, <3>1 DEF ToldWithHarness, Harness
    <2>2. CASE told = {} /\ Told(step, disk) = {}
      BY <1>1, <2>2 DEF ToldWithHarness
    <2>3. CASE Told(step, disk) # {}
      <3>1. step \in WiringC \cup {<<"patch CMakeLists.txt">>}
        <4>1. ASSUME step \in Copying \/ step = <<"patch main.lua">> PROVE Told(step, disk) = {}
          <5>1. step[1] \in {"copy", "patch main.lua"}
            BY <4>1, StepDistinct DEF Copying
          <5> QED
            BY <5>1 DEF Told
        <4> QED
          BY <1>3, <2>3, <4>1 DEF SetupSteps
      <3>2. Needs(step) = {"mcp.h", "mcp.c"}
        BY <3>1 DEF Needs
      <3>3. disk'.copies["mcp.h"] # 0 /\ disk'.copies["mcp.c"] # 0
        BY <1>3, <1>4, <3>2 DEF Harness
      <3>4. disk'.cmake \in Seq(CMakeItems)
        BY <1>3, <1>4, <3>1
      <3> QED
        BY <1>5, <3>3, <3>4 DEF ToldWithHarness
    <2> QED
      BY <2>1, <2>2, <2>3
  <1> QED
    BY <1>1, <1>2, <1>4, <1>5, <1>6, <1>7, <1>8 DEF DanglingInv, SetupTypes

LEMMA StepOfTeardown ==
  ASSUME DanglingInv, Step, todo \in Seq(TeardownSteps), todo \notin Seq(SetupSteps)
  PROVE  DanglingInv' /\ Dangling(disk') \subseteq Dangling(disk)
  <1> DEFINE step == Head(todo)
  <1>1. /\ todo # <<>> /\ disk' = After(step, disk) /\ todo' = Tail(todo)
        /\ version' = version /\ told' = told \cup Told(step, disk)
    BY DEF Step
  <1>2. MaxVersion \in Nat /\ version \in 1..MaxVersion /\ disk \in GameType
    BY ConstantsAssumption DEF DanglingInv, SetupTypes
  <1>3. /\ step \in TeardownSteps
        /\ step = <<"remove", "mcp.h">> => ~Refers(disk, "mcp.h")
        /\ step = <<"remove", "mcp.c">> => ~Refers(disk, "mcp.c")
    BY <1>1, FirstReady
  <1> HIDE DEF step
  <1>4. /\ disk' \in GameType /\ Dangling(disk') \subseteq Dangling(disk)
        /\ \A f \in ToSet(CFiles) :
             disk'.c[f] = IF step = <<"strip", f>> THEN StripMarkerBlocks(disk.c[f]) ELSE disk.c[f]
        /\ Refers(disk', "mcp.c") => Refers(disk, "mcp.c") /\ step # <<"restore CMakeLists.txt">>
    <2> DEFINE e == After(step, disk)
    <2>1. /\ e \in GameType /\ Dangling(e) \subseteq Dangling(disk)
          /\ \A f \in ToSet(CFiles) :
               e.c[f] = IF step = <<"strip", f>> THEN StripMarkerBlocks(disk.c[f]) ELSE disk.c[f]
          /\ Refers(e, "mcp.c") => Refers(disk, "mcp.c") /\ step # <<"restore CMakeLists.txt">>
      BY <1>2, <1>3, AfterTeardown
    <2>2. disk' = e
      BY <1>1
    <2> HIDE DEF e
    <2> QED
      BY <2>1, <2>2
  <1>5. /\ todo' \in Seq(TeardownSteps)
        /\ \A i \in DOMAIN todo' :
              /\ i + 1 \in DOMAIN todo /\ todo'[i] = todo[i + 1]
              /\ \A s : Comes(s, i + 1) => s = step \/ Comes(s, i)'
    BY <1>1, Rest DEF step
  <1>6. CopiesFirst'
    <2>1. \A i \in DOMAIN todo' : todo'[i] \in TeardownSteps
      BY <1>5, LenProperties, ElementOfSeq
    <2> QED
      BY <2>1, NeedsOf DEF CopiesFirst
  <1>7. RemovesLast'
    <2>1. ASSUME NEW i \in DOMAIN todo', todo'[i] = <<"remove", "mcp.h">>,
                 NEW f \in ToSet(CFiles), NEW t \in Wrapping, Has(disk'.c[f], t)
          PROVE  Comes(<<"strip", f>>, i)' /\ ~Has(StripMarkerBlocks(disk'.c[f]), t)
      <3>1. Has(disk.c[f], t) =>
              Comes(<<"strip", f>>, i + 1) /\ ~Has(StripMarkerBlocks(disk.c[f]), t)
        BY <1>5, <2>1 DEF DanglingInv, RemovesLast, Unmarked
      <3>2. disk.c[f] \in Seq(Lines)
        BY <1>2 DEF GameType
      <3>3. step # <<"strip", f>>
        <4>1. ASSUME step = <<"strip", f>> PROVE FALSE
          <5>1. Has(StripMarkerBlocks(disk.c[f]), t)
            BY <1>4, <2>1, <4>1
          <5>2. Has(disk.c[f], t)
            BY <3>2, <5>1, StripHas
          <5> QED
            BY <3>1, <5>1, <5>2
        <4> QED
          BY <4>1
      <3>4. disk'.c[f] = disk.c[f]
        BY <1>4, <3>3
      <3> QED
        BY <1>5, <2>1, <3>1, <3>3, <3>4
    <2>2. ASSUME NEW i \in DOMAIN todo', todo'[i] = <<"remove", "mcp.c">>, Refers(disk', "mcp.c")
          PROVE  Comes(<<"restore CMakeLists.txt">>, i)'
      <3>1. Refers(disk, "mcp.c") /\ step # <<"restore CMakeLists.txt">>
        BY <1>4, <2>2
      <3>2. Comes(<<"restore CMakeLists.txt">>, i + 1)
        BY <1>5, <2>2, <3>1 DEF DanglingInv, RemovesLast
      <3> QED
        BY <1>5, <3>1, <3>2
    <2>3. (disk.copies)' = disk'.copies /\ Refers(disk, "mcp.c")' = Refers(disk', "mcp.c")
      BY DEF Refers
    <2> QED
      BY <2>1, <2>2, <2>3 DEF RemovesLast, Unmarked
  <1>8. ToldWithHarness'
    <2>1. told = {}
      BY DEF DanglingInv, ToldWithHarness
    <2>2. step[1] \in {"remove", "strip", "restore CMakeLists.txt", "strip main.lua"}
      BY <1>3, StepDistinct DEF TeardownSteps, Removing, Stripping
    <2>3. Told(step, disk) = {}
      BY <2>2 DEF Told
    <2> QED
      BY <1>1, <2>1, <2>3 DEF ToldWithHarness
  <1> QED
    BY <1>1, <1>2, <1>4, <1>5, <1>6, <1>7, <1>8 DEF DanglingInv, SetupTypes

(* Only a teardown looks a copy up.                                        *)
LEMMA OverlooksCopy ==
  ASSUME SetupTypes, Overlook
  PROVE  todo \in Seq(TeardownSteps) /\ todo \notin Seq(SetupSteps)
  <1> DEFINE step == Head(todo)
  <1>1. todo # <<>> /\ step[1] = "remove"
    BY DEF Overlook
  <1>2. ASSUME todo \in Seq(SetupSteps) PROVE FALSE
    <2>1. step \in SetupSteps
      BY <1>1, <1>2, FirstReady
    <2> HIDE DEF step
    <2>2. step[1] # "remove"
      BY <2>1, StepHeads, StepDistinct DEF SetupSteps, Copying
    <2> QED
      BY <1>1, <2>2
  <1> QED
    BY <1>2 DEF SetupTypes

LEMMA OverlookKeeps ==
  ASSUME DanglingInv, Overlook
  PROVE  DanglingInv'
  <1> DEFINE step == Head(todo)
  <1>1. /\ todo # <<>> /\ step[1] = "remove" /\ todo' = Tail(todo)
        /\ disk' = disk /\ version' = version /\ told' = told
    BY DEF Overlook
  <1>2. todo \in Seq(TeardownSteps) /\ todo \notin Seq(SetupSteps)
    BY OverlooksCopy DEF DanglingInv
  <1> HIDE DEF step
  <1>3. step # <<"restore CMakeLists.txt">> /\ \A f : step # <<"strip", f>>
    BY <1>1, StepDistinct
  <1>4. /\ todo' \in Seq(TeardownSteps)
        /\ \A i \in DOMAIN todo' :
              /\ i + 1 \in DOMAIN todo /\ todo'[i] = todo[i + 1]
              /\ \A s : Comes(s, i + 1) => s = step \/ Comes(s, i)'
    BY <1>1, <1>2, Rest DEF step
  <1>5. CopiesFirst'
    <2>1. \A i \in DOMAIN todo' : todo'[i] \in TeardownSteps
      BY <1>4, LenProperties, ElementOfSeq
    <2> QED
      BY <2>1, NeedsOf DEF CopiesFirst
  <1>6. RemovesLast'
    <2>1. ASSUME NEW i \in DOMAIN todo', todo'[i] = <<"remove", "mcp.h">>,
                 NEW f \in ToSet(CFiles), NEW t \in Wrapping, Has(disk'.c[f], t)
          PROVE  Comes(<<"strip", f>>, i)' /\ ~Has(StripMarkerBlocks(disk'.c[f]), t)
      <3>1. Comes(<<"strip", f>>, i + 1) /\ ~Has(StripMarkerBlocks(disk.c[f]), t)
        BY <1>1, <1>4, <2>1 DEF DanglingInv, RemovesLast, Unmarked
      <3> QED
        BY <1>1, <1>3, <1>4, <2>1, <3>1
    <2>2. ASSUME NEW i \in DOMAIN todo', todo'[i] = <<"remove", "mcp.c">>, Refers(disk, "mcp.c")'
          PROVE  Comes(<<"restore CMakeLists.txt">>, i)'
      <3>1. Comes(<<"restore CMakeLists.txt">>, i + 1)
        BY <1>1, <1>4, <2>2 DEF DanglingInv, RemovesLast, Refers
      <3> QED
        BY <1>3, <1>4, <2>2, <3>1
    <2> QED
      BY <2>1, <2>2 DEF RemovesLast, Unmarked
  <1>7. ToldWithHarness'
    BY <1>1, <1>2 DEF DanglingInv, ToldWithHarness
  <1> QED
    BY <1>1, <1>4, <1>5, <1>6, <1>7 DEF DanglingInv, SetupTypes

(* The author's edits come between the calls, and keep the copies.         *)
LEMMA EditKeeps ==
  ASSUME DanglingInv, NEW d, Edit(d), d \in GameType, d.copies = disk.copies,
         Dangling(d) \subseteq Dangling(disk),
         d.cmake = disk.cmake \/ d.cmake \in Seq(CMakeItems)
  PROVE  DanglingInv' /\ Dangling(disk') \subseteq Dangling(disk)
  <1>1. todo = <<>> /\ todo' = todo /\ disk' = d /\ told' = told /\ version' = version
    BY DEF Edit, Idle
  <1>2. CopiesFirst' /\ RemovesLast' /\ todo' \in Seq(SetupSteps)
    BY <1>1, NothingLeft
  <1>3. SetupTypes'
    BY <1>1, <1>2 DEF DanglingInv, SetupTypes
  <1>4. ToldWithHarness'
    BY <1>1, <1>2 DEF DanglingInv, ToldWithHarness
  <1> QED
    BY <1>1, <1>2, <1>3, <1>4 DEF DanglingInv

LEMMA FollowKeeps ==
  ASSUME DanglingInv, FollowManualStep
  PROVE  DanglingInv' /\ Dangling(disk') \subseteq Dangling(disk)
  <1>1. PICK t \in told \cap {"init", "update"} :
          LET f == EventHandler(disk.c)
          IN f # NoFile /\ Edit([disk EXCEPT !.c[f] = Append(@, OwnLine(t))])
    BY DEF FollowManualStep
  <1> DEFINE f == EventHandler(disk.c)
             s == Append(disk.c[f], OwnLine(t))
             d == WithFile(disk, f, s)
  <1>2. Edit(d)
    BY <1>1 DEF WithFile
  <1>3. disk \in GameType /\ disk.copies["mcp.h"] # 0
    BY <1>1 DEF DanglingInv, SetupTypes, ToldWithHarness
  <1>4. f \in ToSet(CFiles) => s \in Seq(Lines)
    <2>1. OwnLine(t) \in Lines
      BY <1>1, LineTypes DEF Kinds
    <2>2. f \in ToSet(CFiles) => disk.c[f] \in Seq(Lines)
      BY <1>3 DEF GameType
    <2> HIDE DEF f
    <2> QED
      BY <2>1, <2>2, AppendProperties
  <1> HIDE DEF f, s
  <1>5. d \in GameType /\ d.copies = disk.copies /\ d.cmake = disk.cmake /\ d.lua = disk.lua
    BY <1>3, <1>4, FileType
  <1> HIDE DEF d
  <1>6. Refers(d, "mcp.c") = Refers(disk, "mcp.c") /\ Refers(d, "mcp.lua") = Refers(disk, "mcp.lua")
    BY <1>5 DEF Refers
  <1>7. Dangling(d) \subseteq Dangling(disk)
    BY <1>3, <1>5, <1>6, NoneDangles
  <1> QED
    BY <1>2, <1>5, <1>7, EditKeeps

LEMMA FollowCMakeKeeps ==
  ASSUME DanglingInv, FollowManualCMakeStep
  PROVE  DanglingInv' /\ Dangling(disk') \subseteq Dangling(disk)
  <1> DEFINE i == First(disk.cmake, {"add"})
             s == [disk.cmake EXCEPT ![i] = AddHarness(@)]
             d == [disk EXCEPT !.cmake = s]
  <1>1. i # 0 /\ Edit([disk EXCEPT !.cmake[i] = AddHarness(@)]) /\ told # {}
    BY DEF FollowManualCMakeStep
  <1>2. disk \in GameType /\ disk.copies["mcp.c"] # 0 /\ disk.cmake \in Seq(CMakeItems)
    BY <1>1 DEF DanglingInv, SetupTypes, ToldWithHarness
  <1>3. i \in 1..Len(disk.cmake) /\ disk.cmake[i].t = "add"
    BY <1>1, <1>2, FirstIs
  <1>4. disk.cmake[i] \in CMakeItems
    BY <1>2, <1>3, ElementOfSeq
  <1>5. AddHarness(disk.cmake[i]) \in CMakeItems
    BY <1>3, <1>4, AddHarnessType
  <1> HIDE DEF i
  <1>6. s \in Seq(CMakeItems)
    BY <1>2, <1>3, <1>5, ExceptSeq
  <1>7. Edit(d)
    BY <1>1
  <1> HIDE DEF s
  <1>8. /\ d \in GameType /\ d.copies = disk.copies /\ d.cmake = s /\ d.c = disk.c
        /\ d.lua = disk.lua
    BY <1>2, <1>6 DEF GameType
  <1> HIDE DEF d
  <1>9. Refers(d, "mcp.lua") = Refers(disk, "mcp.lua")
    BY <1>8 DEF Refers
  <1>10. Dangling(d) \subseteq Dangling(disk)
    BY <1>2, <1>8, <1>9, NoneDangles
  <1> QED
    BY <1>6, <1>7, <1>8, <1>10, EditKeeps

LEMMA UndoKeeps ==
  ASSUME DanglingInv, UndoInputCalls
  PROVE  DanglingInv' /\ Dangling(disk') \subseteq Dangling(disk)
  <1> DEFINE c == [f \in ToSet(CFiles) |-> Renamed(disk.c[f], "wrapper", "input")]
             d == [disk EXCEPT !.c = c]
  <1>1. Edit(d)
    BY DEF UndoInputCalls
  <1>2. disk \in GameType
    BY DEF DanglingInv, SetupTypes
  <1>3. \A f \in ToSet(CFiles) : disk.c[f] \in Seq(Lines)
    BY <1>2 DEF GameType
  <1>4. c \in [ToSet(CFiles) -> Seq(Lines)]
    BY <1>3, RenamedType DEF Kinds
  <1>5. \A f \in ToSet(CFiles) : c[f] = Renamed(disk.c[f], "wrapper", "input")
    OBVIOUS
  <1> HIDE DEF c
  <1>6. /\ d \in GameType /\ d.copies = disk.copies /\ d.cmake = disk.cmake /\ d.c = c
        /\ d.lua = disk.lua
    BY <1>2, <1>4 DEF GameType
  <1> HIDE DEF d
  <1>7. ASSUME NEW f \in ToSet(CFiles), NEW t \in Wrapping, Has(d.c[f], t)
        PROVE  Has(disk.c[f], t)
    <2>1. Has(Renamed(disk.c[f], "wrapper", "input"), t)
      BY <1>5, <1>6, <1>7
    <2> QED
      BY <1>3, <2>1, RenamedHas
  <1>8. Refers(d, "mcp.c") = Refers(disk, "mcp.c") /\ Refers(d, "mcp.lua") = Refers(disk, "mcp.lua")
    BY <1>6 DEF Refers
  <1>9. Dangling(d) \subseteq Dangling(disk)
    BY <1>6, <1>7, <1>8, NoneDangles
  <1> QED
    BY <1>1, <1>6, <1>9, EditKeeps

(* What becomes readable is what a file was that could not be read.        *)
LEMMA AccessKeeps ==
  ASSUME DanglingInv, HiddenTypes, ChangeAccess
  PROVE  /\ DanglingInv' /\ HiddenTypes'
         /\ Dangling(disk') \subseteq Dangling(disk) \cup DOMAIN hidden
  <1> DEFINE c == [f \in ToSet(CFiles) |-> IF f \in DOMAIN hidden THEN hidden[f] ELSE disk.c[f]]
  <1>1. disk \in GameType /\ version \in 1..MaxVersion /\ \A f \in ToSet(CFiles) : disk.c[f] \in Seq(Lines)
    BY DEF DanglingInv, SetupTypes, GameType
  <1>2. WithHidden(disk).c = c
    BY <1>1 DEF WithHidden, GameType
  <1>3. c \in [ToSet(CFiles) -> Seq(Lines)]
    BY <1>1 DEF HiddenTypes
  <1>4. PICK files \in SUBSET ToSet(CFiles) :
          /\ hidden' = [f \in files |-> WithHidden(disk).c[f]]
          /\ disk' = [disk EXCEPT !.c = [f \in ToSet(CFiles) |->
                        IF f \in files THEN <<>> ELSE WithHidden(disk).c[f]]]
    BY DEF ChangeAccess
  <1> DEFINE new == [f \in ToSet(CFiles) |-> IF f \in files THEN <<>> ELSE c[f]]
  <1>5. hidden' = [f \in files |-> c[f]] /\ disk' = [disk EXCEPT !.c = new]
    BY <1>2, <1>4
  <1>6. /\ todo = <<>> /\ todo' = <<>> /\ told' = told /\ version' = version
    BY DEF ChangeAccess, Idle
  <1>7. \A f \in DOMAIN hidden : f \in ToSet(CFiles) => c[f] = hidden[f]
    OBVIOUS
  <1>8. \A f \in ToSet(CFiles) : f \notin DOMAIN hidden => c[f] = disk.c[f]
    OBVIOUS
  <1> HIDE DEF c
  <1>9. HiddenTypes'
    BY <1>3, <1>5 DEF HiddenTypes
  <1>10. new \in [ToSet(CFiles) -> Seq(Lines)]
    <2>1. <<>> \in Seq(Lines)
      OBVIOUS
    <2> QED
      BY <1>3, <2>1
  <1>11. \A f \in ToSet(CFiles) : new[f] = <<>> \/ new[f] = c[f]
    OBVIOUS
  <1> HIDE DEF new
  <1>12. /\ disk' \in GameType /\ disk'.copies = disk.copies /\ disk'.cmake = disk.cmake
         /\ disk'.lua = disk.lua /\ disk'.c = new
    BY <1>1, <1>5, <1>10 DEF GameType
  <1>13. DanglingInv'
    <2>1. CopiesFirst' /\ RemovesLast' /\ todo' \in Seq(SetupSteps)
      BY <1>6, NothingLeft
    <2>2. ToldWithHarness'
      BY <1>6, <1>12, <2>1 DEF DanglingInv, ToldWithHarness
    <2> QED
      BY <1>1, <1>6, <1>12, <2>1, <2>2 DEF DanglingInv, SetupTypes
  <1>14. ASSUME NEW f \in ToSet(CFiles), f \notin DOMAIN hidden, NEW t, Has(disk'.c[f], t)
         PROVE  Has(disk.c[f], t)
    <2>1. new[f] # <<>>
      BY <1>12, <1>14 DEF Has
    <2>2. disk'.c[f] = disk.c[f]
      BY <1>8, <1>11, <1>12, <1>14, <2>1
    <2> QED
      BY <1>14, <2>2
  <1>15. \A name \in {"mcp.c", "mcp.lua"} : Refers(disk', name) = Refers(disk, name)
    BY <1>12 DEF Refers
  <1>16. Dangling(disk') \subseteq Dangling(disk) \cup DOMAIN hidden
    BY <1>12, <1>14, <1>15 DEF Dangling
  <1> QED
    BY <1>9, <1>13, <1>16

LEMMA DanglingInit ==
  ASSUME Init
  PROVE  DanglingInv /\ HiddenTypes
  <1>1. disk \in Games /\ version = 1 /\ todo = <<>> /\ told = {} /\ DOMAIN hidden = {}
    BY DEF Init
  <1>2. disk \in GameType
    BY <1>1, GamesAssumption
  <1>3. version \in 1..MaxVersion
    BY <1>1, ConstantsAssumption
  <1>4. todo \in Seq(SetupSteps)
    BY <1>1
  <1> QED
    BY <1>1, <1>2, <1>3, <1>4
    DEF DanglingInv, SetupTypes, CopiesFirst, RemovesLast, ToldWithHarness, HiddenTypes

LEMMA DanglingNext ==
  ASSUME DanglingInv, HiddenTypes, [Next]_vars
  PROVE  /\ DanglingInv' /\ HiddenTypes'
         /\ Dangling(disk') \subseteq Dangling(disk) \cup DOMAIN hidden
  <1>0. ASSUME disk' = disk PROVE Dangling(disk') \subseteq Dangling(disk)
    BY <1>0
  <1>1. ASSUME NEW tool \in {"setup", "teardown"}, NEW language \in Languages,
               Call(tool, language)
        PROVE  DanglingInv' /\ disk' = disk /\ hidden' = hidden
    BY <1>1, CallKeeps DEF Call
  <1>2. ASSUME NEW tool \in {"setup", "teardown"}, CallDetected(tool)
        PROVE  DanglingInv' /\ disk' = disk /\ hidden' = hidden
    <2>1. DetectLanguage(disk) \in Languages /\ Call(tool, DetectLanguage(disk))
      BY <1>2 DEF CallDetected, DetectLanguage, Languages
    <2> QED
      BY <1>1, <2>1
  <1>3. CASE Step
    <2>1. DanglingInv' /\ Dangling(disk') \subseteq Dangling(disk)
      BY <1>3, StepOfSetup, StepOfTeardown DEF DanglingInv, SetupTypes
    <2>2. hidden' = hidden
      BY <1>3 DEF Step
    <2> QED
      BY <2>1, <2>2 DEF HiddenTypes
  <1>4. CASE Overlook
    BY <1>0, <1>4, OverlookKeeps DEF Overlook, HiddenTypes
  <1>5. CASE Fail
    <2>1. todo' = <<>> /\ disk' = disk /\ version' = version /\ told' = told /\ hidden' = hidden
      BY <1>5 DEF Fail
    <2>2. CopiesFirst' /\ RemovesLast' /\ todo' \in Seq(SetupSteps)
      BY <2>1, NothingLeft
    <2>3. SetupTypes'
      BY <2>1, <2>2 DEF DanglingInv, SetupTypes
    <2>4. ToldWithHarness'
      BY <2>1, <2>2 DEF DanglingInv, ToldWithHarness
    <2> QED
      BY <1>0, <2>1, <2>2, <2>3, <2>4 DEF DanglingInv, HiddenTypes
  <1>6. CASE UpgradeServer
    <2>1. /\ todo = <<>> /\ todo' = todo /\ disk' = disk /\ version' = version + 1 /\ told' = told
          /\ version < MaxVersion /\ hidden' = hidden
      BY <1>6 DEF UpgradeServer, Idle
    <2>2. CopiesFirst' /\ RemovesLast' /\ todo' \in Seq(SetupSteps)
      BY <2>1, NothingLeft
    <2>3. version' \in 1..MaxVersion
      BY <2>1, ConstantsAssumption DEF DanglingInv, SetupTypes
    <2>4. SetupTypes'
      BY <2>1, <2>2, <2>3 DEF DanglingInv, SetupTypes
    <2>5. ToldWithHarness'
      BY <2>1, <2>2 DEF DanglingInv, ToldWithHarness
    <2> QED
      BY <1>0, <2>1, <2>2, <2>4, <2>5 DEF DanglingInv, HiddenTypes
  <1>7. CASE FollowManualStep \/ FollowManualCMakeStep \/ UndoInputCalls
    <2>1. DanglingInv' /\ Dangling(disk') \subseteq Dangling(disk)
      BY <1>7, FollowKeeps, FollowCMakeKeeps, UndoKeeps
    <2>2. hidden' = hidden
      BY <1>7 DEF FollowManualStep, FollowManualCMakeStep, UndoInputCalls, Edit
    <2> QED
      BY <2>1, <2>2 DEF HiddenTypes
  <1>8. CASE UNCHANGED vars
    <2>1. /\ disk' = disk /\ version' = version /\ todo' = todo /\ told' = told
          /\ hidden' = hidden
      BY <1>8 DEF vars
    <2> QED
      BY <1>0, <2>1 DEF DanglingInv, SetupTypes, CopiesFirst, RemovesLast, Unmarked, Comes,
                  ToldWithHarness, HiddenTypes
  <1>9. CASE (\E tool \in {"setup", "teardown"} : CallDetected(tool))
             \/ \E tool \in {"setup", "teardown"}, language \in Languages : Call(tool, language)
    BY <1>0, <1>1, <1>2, <1>9 DEF HiddenTypes
  <1> QED
    BY <1>3, <1>4, <1>5, <1>6, <1>7, <1>8, <1>9, AccessKeeps DEF Next

(* In games of any size, wherever a call of setup or teardown fails or the
   server dies, and however often it is repeated, upgraded or followed by an
   edit of the author: no step leaves a reference to a harness file that is
   not there, but in a C file that could not be read before it (setup.go,
   c.go:17 and c.go:702, lua.go:56). *)
THEOREM NothingDanglingCorrect == Spec => NothingDangling
  <1>1. DanglingInv /\ HiddenTypes /\ [Next]_vars =>
          [Dangling(disk') \subseteq Dangling(disk) \cup DOMAIN hidden]_vars
    BY DanglingNext
  <1>2. Init => DanglingInv /\ HiddenTypes
    BY DanglingInit
  <1>3. DanglingInv /\ HiddenTypes /\ [Next]_vars => (DanglingInv /\ HiddenTypes)'
    BY DanglingNext
  <1> QED
    BY <1>1, <1>2, <1>3, PTL DEF Spec, NothingDangling

-----------------------------------------------------------------------------
(* Blocks.  What setup inserts is three lines that are nobody's, a begin   *)
(* marker, one line and an end marker, next to lines of the author.        *)

Inserted == {"mcp.h", "init", "update", "include_directories", "import"}

Block(s, b) ==
    /\ b \in 1..(Len(s) - 2)
    /\ ~s[b].own /\ ~s[b + 1].own /\ ~s[b + 2].own
    /\ s[b].t = "BEGIN" /\ s[b + 1].t \in Inserted /\ s[b + 2].t = "END"

Formed(s) ==
    \A i \in 1..Len(s) :
      \/ s[i].own /\ s[i].t \notin {"BEGIN", "END"}
      \/ Block(s, i) \/ Block(s, i - 1) \/ Block(s, i - 2)

(* r is s with a block after its first i lines.                            *)
WithBlock(r, s, i) ==
    /\ i \in 0..Len(s) /\ Len(r) = Len(s) + 3
    /\ \A j \in 1..i : r[j] = s[j]
    /\ Block(r, i + 1)
    /\ \A j \in (i + 1)..Len(s) : r[j + 3] = s[j]

LEMMA MarkerBlockIs ==
  ASSUME NEW line
  PROVE  LET b == MarkerBlock(line)
         IN /\ Len(b) = 3 /\ b[1] = Marker("BEGIN") /\ b[2] = line /\ b[3] = Marker("END")
            /\ b \in Seq({Marker("BEGIN"), line, Marker("END")})
  BY DEF MarkerBlock

(* What is where in s with lines inserted after the first i.               *)
Inserts(r, s, i, lines) ==
    /\ Len(r) = Len(s) + Len(lines)
    /\ \A j \in 1..i : r[j] = s[j]
    /\ \A j \in 1..Len(lines) : r[i + j] = lines[j]
    /\ \A j \in (i + 1)..Len(s) : r[j + Len(lines)] = s[j]

LEMMA InsertIs ==
  ASSUME NEW S, NEW s \in Seq(S), NEW i \in 0..Len(s), NEW lines \in Seq(S), NEW r,
         r = Insert(s, i, lines)
  PROVE  r \in Seq(S) /\ Inserts(r, s, i, lines)
  <1> DEFINE head == SubSeq(s, 1, i)
             rest == SubSeq(s, i + 1, Len(s))
             front == head \o lines
  <1>1. Len(s) \in Nat /\ i \in Nat /\ Len(lines) \in Nat /\ \A j \in 1..Len(s) : s[j] \in S
    BY LenProperties, ElementOfSeq
  <1>2. head \in Seq(S) /\ Len(head) = i /\ \A j \in 1..i : head[j] = s[j]
    <2>1. 1 \in Int /\ i \in Int /\ \A j \in 1..i : s[j] \in S
      BY <1>1
    <2>2. /\ head \in Seq(S) /\ Len(head) = IF 1 <= i THEN i - 1 + 1 ELSE 0
          /\ \A j \in 1..(i - 1 + 1) : head[j] = s[1 + j - 1]
      BY <2>1, SubSeqProperties
    <2> QED
      BY <1>1, <2>2
  <1>3. /\ rest \in Seq(S) /\ Len(rest) = Len(s) - i
        /\ \A j \in 1..(Len(s) - i) : rest[j] = s[i + j]
    <2>1. i + 1 \in Int /\ Len(s) \in Int /\ \A j \in (i + 1)..Len(s) : s[j] \in S
      BY <1>1
    <2>2. /\ rest \in Seq(S)
          /\ Len(rest) = IF i + 1 <= Len(s) THEN Len(s) - (i + 1) + 1 ELSE 0
          /\ \A j \in 1..(Len(s) - (i + 1) + 1) : rest[j] = s[(i + 1) + j - 1]
      BY <2>1, SubSeqProperties
    <2>3. Len(rest) = Len(s) - i
      BY <1>1, <2>2
    <2>4. \A j \in 1..(Len(s) - i) : j \in 1..(Len(s) - (i + 1) + 1) /\ (i + 1) + j - 1 = i + j
      BY <1>1
    <2> QED
      BY <2>2, <2>3, <2>4
  <1>4. r = front \o rest
    BY DEF Insert
  <1> HIDE DEF head, rest
  <1>5. head \in Seq(S) /\ rest \in Seq(S)
    BY <1>2, <1>3
  <1>6. front = head \o lines
    OBVIOUS
  <1> HIDE DEF front
  <1>7. /\ front \in Seq(S) /\ Len(front) = Len(head) + Len(lines)
        /\ \A j \in 1..Len(head) : front[j] = head[j]
        /\ \A j \in 1..Len(lines) : front[Len(head) + j] = lines[j]
    BY <1>5, <1>6, Concat
  <1>8. front \in Seq(S)
    BY <1>7
  <1>9. /\ r \in Seq(S) /\ Len(r) = Len(front) + Len(rest)
        /\ \A j \in 1..Len(front) : r[j] = front[j]
        /\ \A j \in 1..Len(rest) : r[Len(front) + j] = rest[j]
    BY <1>4, <1>5, <1>8, Concat
  <1>10a. Len(front) = i + Len(lines) /\ Len(rest) = Len(s) - i
    BY <1>1, <1>2, <1>3, <1>7
  <1>10. /\ Len(r) = Len(s) + Len(lines)
         /\ \A j \in 1..i : j \in 1..(i + Len(lines))
         /\ \A j \in 1..Len(lines) : i + j \in 1..(i + Len(lines))
         /\ \A j \in (i + 1)..Len(s) : /\ j - i \in 1..(Len(s) - i)
                                       /\ (i + Len(lines)) + (j - i) = j + Len(lines) /\ i + (j - i) = j
    <2>1. Len(r) = (i + Len(lines)) + (Len(s) - i)
      BY <1>9, <1>10a
    <2> QED
      BY <1>1, <2>1
  <1>11. \A j \in 1..i : r[j] = s[j]
    BY <1>2, <1>7, <1>9, <1>10a, <1>10
  <1>12. \A j \in 1..Len(lines) : r[i + j] = lines[j]
    BY <1>2, <1>7, <1>9, <1>10a, <1>10
  <1>13. \A j \in (i + 1)..Len(s) : r[j + Len(lines)] = s[j]
    <2> TAKE j \in (i + 1)..Len(s)
    <2>1. r[(i + Len(lines)) + (j - i)] = rest[j - i] /\ rest[j - i] = s[i + (j - i)]
      BY <1>3, <1>9, <1>10a, <1>10
    <2> QED
      BY <1>10, <2>1
  <1> QED
    BY <1>9, <1>10, <1>11, <1>12, <1>13 DEF Inserts

(* A block inserted.                                                       *)
LEMMA LineInserted ==
  ASSUME NEW S, NEW s \in Seq(S), NEW i \in 0..Len(s), NEW line,
         line.t \in Inserted, ~line.own,
         MarkerBlock(line) \in Seq(S), NEW r, r = Insert(s, i, MarkerBlock(line))
  PROVE  /\ r \in Seq(S) /\ WithBlock(r, s, i)
         /\ r[i + 1] = Marker("BEGIN") /\ r[i + 2] = line /\ r[i + 3] = Marker("END")
  <1> DEFINE b == MarkerBlock(line)
  <1>1. Len(b) = 3 /\ b[1] = Marker("BEGIN") /\ b[2] = line /\ b[3] = Marker("END")
    BY MarkerBlockIs
  <1>2. r = Insert(s, i, b) /\ b \in Seq(S)
    OBVIOUS
  <1> HIDE DEF b
  <1>3. /\ r \in Seq(S) /\ Len(r) = Len(s) + 3
        /\ \A j \in 1..i : r[j] = s[j]
        /\ r[i + 1] = b[1] /\ r[i + 2] = b[2] /\ r[i + 3] = b[3]
        /\ \A j \in (i + 1)..Len(s) : r[j + 3] = s[j]
    <2>1. r \in Seq(S) /\ Inserts(r, s, i, b)
      BY <1>2, InsertIs
    <2>2. 1 \in 1..3 /\ 2 \in 1..3 /\ 3 \in 1..3
      OBVIOUS
    <2> QED
      BY <1>1, <2>1, <2>2 DEF Inserts
  <1>4. r[i + 1] = Marker("BEGIN") /\ r[i + 2] = line /\ r[i + 3] = Marker("END")
    BY <1>1, <1>3
  <1>5. Block(r, i + 1)
    <2>1. Len(s) \in Nat /\ i \in Nat
      BY LenProperties
    <2>2. i + 1 \in 1..(Len(r) - 2) /\ (i + 1) + 1 = i + 2 /\ (i + 1) + 2 = i + 3
      BY <1>3, <2>1
    <2>3. /\ ~r[i + 1].own /\ ~r[i + 2].own /\ ~r[i + 3].own
          /\ r[i + 1].t = "BEGIN" /\ r[i + 2].t \in Inserted /\ r[i + 3].t = "END"
      BY <1>4 DEF Marker
    <2> QED
      BY <2>2, <2>3 DEF Block
  <1> QED
    BY <1>3, <1>4, <1>5 DEF WithBlock

LEMMA BlockInserted ==
  ASSUME NEW S, NEW s \in Seq(S), NEW i \in 0..Len(s), NEW x \in Inserted,
         MarkerBlock(Line(x)) \in Seq(S), NEW r, r = Insert(s, i, MarkerBlock(Line(x)))
  PROVE  /\ r \in Seq(S) /\ WithBlock(r, s, i)
         /\ r[i + 1] = Marker("BEGIN") /\ r[i + 2] = Line(x) /\ r[i + 3] = Marker("END")
  <1>1. Line(x).t \in Inserted /\ ~Line(x).own
    BY DEF Line
  <1> QED
    BY <1>1, LineInserted

(* The code of a file with a block more.                                   *)
LEMMA HasInserted ==
  ASSUME NEW S, NEW s \in Seq(S), NEW i \in 0..Len(s), NEW x \in Inserted,
         MarkerBlock(Line(x)) \in Seq(S)
  PROVE  \A t : Has(Insert(s, i, MarkerBlock(Line(x))), t) <=> Has(s, t) \/ t = x
  <1> TAKE t
  <1> DEFINE r == Insert(s, i, MarkerBlock(Line(x)))
  <1>1. /\ r \in Seq(S) /\ WithBlock(r, s, i)
        /\ r[i + 1] = Marker("BEGIN") /\ r[i + 2] = Line(x) /\ r[i + 3] = Marker("END")
    BY BlockInserted
  <1> HIDE DEF r
  <1>2. /\ Len(s) \in Nat /\ i \in Nat /\ Len(r) = Len(s) + 3
        /\ DOMAIN s = 1..Len(s) /\ DOMAIN r = 1..Len(r)
    BY <1>1, LenProperties DEF WithBlock
  <1>3. ~IsCode(r[i + 1], {t}) /\ ~IsCode(r[i + 3], {t})
    BY <1>1 DEF Marker, IsCode
  <1>4. IsCode(r[i + 2], {t}) <=> t = x
    BY <1>1 DEF Line, IsCode
  <1>5. /\ \A j \in 1..i : r[j] = s[j]
        /\ \A j \in (i + 1)..Len(s) : r[j + 3] = s[j]
    BY <1>1 DEF WithBlock
  <1>6. ASSUME NEW k \in 1..Len(r), IsCode(r[k], {t}) PROVE Has(s, t) \/ t = x
    <2>1. \/ k \in 1..i
          \/ k = i + 1 \/ k = i + 2 \/ k = i + 3
          \/ k - 3 \in (i + 1)..Len(s) /\ (k - 3) + 3 = k
      BY <1>2
    <2>2. CASE k \in 1..i
      <3>1. k \in DOMAIN s /\ r[k] = s[k]
        BY <1>2, <1>5, <2>2
      <3> QED
        BY <1>6, <3>1 DEF Has
    <2>3. CASE k - 3 \in (i + 1)..Len(s) /\ (k - 3) + 3 = k
      <3>1. k - 3 \in DOMAIN s /\ r[k] = s[k - 3]
        <4>1. k - 3 \in 1..Len(s)
          BY <1>2, <2>3
        <4> QED
          BY <1>2, <1>5, <2>3, <4>1
      <3> QED
        BY <1>6, <3>1 DEF Has
    <2> QED
      BY <1>3, <1>4, <1>6, <2>1, <2>2, <2>3
  <1>7. ASSUME NEW k \in 1..Len(s), IsCode(s[k], {t}) PROVE Has(r, t)
    <2>1. \/ k \in 1..i /\ k \in DOMAIN r
          \/ k \in (i + 1)..Len(s) /\ k + 3 \in DOMAIN r
      BY <1>2
    <2> QED
      BY <1>5, <1>7, <2>1 DEF Has
  <1>8. t = x => Has(r, t)
    <2>1. i + 2 \in DOMAIN r
      BY <1>2
    <2> QED
      BY <1>4, <2>1 DEF Has
  <1> QED
    BY <1>2, <1>6, <1>7, <1>8 DEF Has, r

LEMMA FormedSame ==
  ASSUME NEW s, NEW r, Len(r) = Len(s), Formed(s),
         \A i \in 1..Len(s) :
           /\ r[i].own = s[i].own
           /\ r[i].t = s[i].t \/ (s[i].own /\ r[i].t \notin {"BEGIN", "END"})
  PROVE  Formed(r)
  <1>1. ASSUME NEW b, Block(s, b) PROVE Block(r, b)
    <2>1. b \in 1..Len(s) /\ b + 1 \in 1..Len(s) /\ b + 2 \in 1..Len(s) /\ b \in 1..(Len(r) - 2)
      BY <1>1 DEF Block
    <2> QED
      BY <1>1, <2>1 DEF Block
  <1> QED
    BY <1>1 DEF Formed

LEMMA FormedWithBlock ==
  ASSUME NEW S, NEW s \in Seq(S), NEW r, NEW i, WithBlock(r, s, i), Formed(s),
         i = 0 \/ i = Len(s) \/ s[i].own
  PROVE  Formed(r)
  <1>1. /\ Len(s) \in Nat /\ i \in Nat /\ i <= Len(s) /\ Len(r) = Len(s) + 3
        /\ \A j \in 1..i : r[j] = s[j]
        /\ \A j \in (i + 1)..Len(s) : r[j + 3] = s[j]
        /\ Block(r, i + 1)
    BY LenProperties DEF WithBlock
  <1>2. ASSUME NEW b, Block(s, b) PROVE b + 2 <= i \/ b > i
    <2>1. b \in 1..(Len(s) - 2) /\ ~s[b].own /\ ~s[b + 1].own /\ ~s[b + 2].own
      BY <1>2 DEF Block
    <2>2. i # 0 /\ i # Len(s) => i # b /\ i # b + 1 /\ i # b + 2
      BY <2>1
    <2> QED
      BY <1>1, <2>1, <2>2
  <1>3. ASSUME NEW b, Block(s, b), b + 2 <= i PROVE Block(r, b)
    <2>1. b \in 1..i /\ b + 1 \in 1..i /\ b + 2 \in 1..i /\ b \in 1..(Len(r) - 2)
      BY <1>1, <1>3 DEF Block
    <2> QED
      BY <1>1, <1>3, <2>1 DEF Block
  <1>4. ASSUME NEW b, Block(s, b), b > i PROVE Block(r, b + 3)
    <2>0. /\ b \in 1..(Len(s) - 2) /\ b > i /\ Len(s) \in Nat /\ i \in Nat
          /\ Len(r) = Len(s) + 3
      BY <1>1, <1>4 DEF Block
    <2>1. /\ b \in (i + 1)..Len(s) /\ b + 1 \in (i + 1)..Len(s) /\ b + 2 \in (i + 1)..Len(s)
          /\ b + 3 \in 1..(Len(r) - 2)
          /\ (b + 3) + 1 = (b + 1) + 3 /\ (b + 3) + 2 = (b + 2) + 3
      BY <2>0
    <2>2. r[b + 3] = s[b] /\ r[(b + 1) + 3] = s[b + 1] /\ r[(b + 2) + 3] = s[b + 2]
      BY <1>1, <2>1
    <2>3. r[(b + 3) + 1] = s[b + 1] /\ r[(b + 3) + 2] = s[b + 2]
      BY <2>1, <2>2
    <2> QED
      BY <1>4, <2>1, <2>2, <2>3 DEF Block
  <1> DEFINE Good(u, j) == \/ u[j].own /\ u[j].t \notin {"BEGIN", "END"}
                           \/ Block(u, j) \/ Block(u, j - 1) \/ Block(u, j - 2)
  <1>5. ASSUME NEW j \in 1..i PROVE Good(r, j)
    <2>1. j \in 1..Len(s) /\ r[j] = s[j]
      BY <1>1
    <2>2. \A b \in {j, j - 1, j - 2} : Block(s, b) => b + 2 <= i
      <3> TAKE b \in {j, j - 1, j - 2}
      <3>1. ~(b > i)
        BY <1>1
      <3> QED
        BY <1>2, <3>1
    <2>3. \A b \in {j, j - 1, j - 2} : Block(s, b) => Block(r, b)
      BY <1>3, <2>2
    <2> QED
      BY <2>1, <2>3 DEF Formed
  <1>6. ASSUME NEW j \in (i + 1)..(i + 3) PROVE Good(r, j)
    <2>1. i + 1 = j \/ i + 1 = j - 1 \/ i + 1 = j - 2
      BY <1>1
    <2> QED
      BY <1>1, <2>1
  <1>7. ASSUME NEW k \in (i + 1)..Len(s) PROVE Good(r, k + 3)
    <2>1. k \in 1..Len(s) /\ r[k + 3] = s[k]
      BY <1>1
    <2>2. \A b \in {k, k - 1, k - 2} : Block(s, b) => b > i
      <3> TAKE b \in {k, k - 1, k - 2}
      <3>1. ~(b + 2 <= i)
        BY <1>1
      <3> QED
        BY <1>2, <3>1
    <2>3. \A b \in {k, k - 1, k - 2} : Block(s, b) => Block(r, b + 3)
      BY <1>4, <2>2
    <2>4. (k - 1) + 3 = (k + 3) - 1 /\ (k - 2) + 3 = (k + 3) - 2
      BY <1>1
    <2> QED
      BY <2>1, <2>3, <2>4 DEF Formed
  <1> HIDE DEF Good
  <1>8. ASSUME NEW j \in 1..Len(r) PROVE Good(r, j)
    <2>1. j \in 1..i \/ j \in (i + 1)..(i + 3) \/ (j - 3 \in (i + 1)..Len(s) /\ (j - 3) + 3 = j)
      BY <1>1
    <2> QED
      BY <1>5, <1>6, <1>7, <2>1
  <1> QED
    BY <1>8 DEF Good, Formed

(* The first block is found, and taken as it was put there.                *)
LEMMA StripFirst ==
  ASSUME NEW S, NEW s \in Seq(S), Formed(s)
  PROVE  \/ /\ StripFirstBlock(s) = s
            /\ \A i \in 1..Len(s) : s[i].own /\ s[i].t \notin {"BEGIN", "END"}
         \/ /\ StripFirstBlock(s) \in Seq(S) /\ Formed(StripFirstBlock(s))
            /\ \E i : WithBlock(s, StripFirstBlock(s), i)
  <1> DEFINE I == {i \in 1..Len(s) : s[i].t = "BEGIN"}
             from == SelectInSeq(s, LAMBDA line : line.t = "BEGIN")
             J == {i \in from..Len(s) : s[i].t = "END"}
             to == SelectInSubSeq(s, from, Len(s), LAMBDA line : line.t = "END")
             r == StripFirstBlock(s)
  <1>1. Len(s) \in Nat /\ \A j \in 1..Len(s) : s[j] \in S
    BY LenProperties, ElementOfSeq
  <1>2. ASSUME NEW b, Block(s, b) PROVE b \in 1..Len(s) /\ s[b].t = "BEGIN"
    BY <1>1, <1>2 DEF Block
  <1>3. CASE I = {}
    <2>1. from = 0
      BY <1>3 DEF SelectInSeq
    <2>2. r = s
      BY <2>1 DEF StripFirstBlock
    <2>3. \A b : ~Block(s, b)
      BY <1>2, <1>3
    <2> QED
      BY <2>2, <2>3 DEF Formed
  <1>4. CASE I # {}
    <2>1. from = Min(I)
      BY <1>4 DEF SelectInSeq
    <2>2. I \in SUBSET Nat
      BY <1>1
    <2>3. from \in I /\ \A i \in I : from <= i
      <3> HIDE DEF I
      <3> QED
        BY <1>4, <2>1, <2>2, MinInSet
    <2>4. from \in 1..Len(s) /\ s[from].t = "BEGIN"
      BY <2>3
    <2>5. \A i \in 1..Len(s) : s[i].t = "BEGIN" => from <= i
      BY <2>3
    <2> HIDE DEF I
    <2> DEFINE f == from
    <2>6. from = f
      OBVIOUS
    <2> HIDE DEF f
    <2>7. /\ f \in 1..Len(s) /\ s[f].t = "BEGIN"
          /\ \A i \in 1..Len(s) : s[i].t = "BEGIN" => f <= i
      BY <2>4, <2>5, <2>6
    <2>8. Block(s, f)
      <3>1. \/ s[f].own /\ s[f].t \notin {"BEGIN", "END"}
            \/ Block(s, f) \/ Block(s, f - 1) \/ Block(s, f - 2)
        BY <2>7 DEF Formed
      <3>2. ~Block(s, f - 1)
        <4>1. (f - 1) + 1 = f
          BY <2>7
        <4> QED
          BY <2>7, <4>1 DEF Block, Inserted
      <3>3. ~Block(s, f - 2)
        <4>1. (f - 2) + 2 = f
          BY <2>7
        <4> QED
          BY <2>7, <4>1 DEF Block
      <3> QED
        BY <2>7, <3>1, <3>2, <3>3
    <2>9. /\ f \in 1..(Len(s) - 2) /\ ~s[f].own /\ ~s[f + 1].own /\ ~s[f + 2].own
          /\ s[f].t = "BEGIN" /\ s[f + 1].t \in Inserted /\ s[f + 2].t = "END"
      BY <2>8 DEF Block
    <2>10. to = f + 2
      <3> DEFINE K == {i \in f..Len(s) : s[i].t = "END"}
      <3>1. f + 2 \in K
        BY <2>9
      <3>2. \A i \in K : f + 2 <= i
        <4> TAKE i \in K
        <4>1. s[i].t = "END" /\ i \in Nat /\ f <= i
          BY <2>7
        <4>2. i # f /\ i # f + 1
          BY <2>9, <4>1 DEF Inserted
        <4> QED
          BY <2>7, <4>1, <4>2
      <3>3. K \in SUBSET Nat
        BY <2>7
      <3>4. to = Min(K)
        BY <2>6, <3>1 DEF SelectInSubSeq
      <3> HIDE DEF K
      <3>5. Min(K) \in K /\ \A i \in K : Min(K) <= i
        BY <3>1, <3>3, MinInSet
      <3>6. Min(K) <= f + 2 /\ f + 2 <= Min(K) /\ Min(K) \in Nat
        BY <3>1, <3>2, <3>3, <3>5
      <3> QED
        BY <2>7, <3>4, <3>6
    <2> DEFINE head == SubSeq(s, 1, f - 1)
               rest == SubSeq(s, f + 3, Len(s))
    <2>11. r = head \o rest
      <3>1. from # 0 /\ to # 0
        BY <2>6, <2>7, <2>10
      <3>2. to + 1 = f + 3
        BY <2>7, <2>10
      <3> HIDE DEF from, to
      <3>3. r = SubSeq(s, 1, from - 1) \o SubSeq(s, to + 1, Len(s))
        BY <3>1 DEF StripFirstBlock, from, to
      <3> QED
        BY <2>6, <3>2, <3>3
    <2> HIDE DEF from, to, r
    <2>12. head \in Seq(S) /\ Len(head) = f - 1 /\ \A j \in 1..(f - 1) : head[j] = s[j]
      <3>1. 1 \in Int /\ f - 1 \in Int /\ \A j \in 1..(f - 1) : s[j] \in S
        BY <1>1, <2>7
      <3>2. /\ head \in Seq(S)
            /\ Len(head) = IF 1 <= f - 1 THEN (f - 1) - 1 + 1 ELSE 0
            /\ \A j \in 1..((f - 1) - 1 + 1) : head[j] = s[1 + j - 1]
        BY <3>1, SubSeqProperties
      <3> QED
        BY <2>7, <3>2
    <2>13. /\ rest \in Seq(S) /\ Len(rest) = Len(s) - (f + 2)
           /\ \A j \in 1..(Len(s) - (f + 2)) : rest[j] = s[(f + 2) + j]
      <3>1. f + 3 \in Int /\ Len(s) \in Int /\ \A j \in (f + 3)..Len(s) : s[j] \in S
        BY <1>1, <2>7
      <3>2. /\ rest \in Seq(S)
            /\ Len(rest) = IF f + 3 <= Len(s) THEN Len(s) - (f + 3) + 1 ELSE 0
            /\ \A j \in 1..(Len(s) - (f + 3) + 1) : rest[j] = s[(f + 3) + j - 1]
        BY <3>1, SubSeqProperties
      <3>3. Len(rest) = Len(s) - (f + 2)
        BY <1>1, <2>9, <3>2
      <3>4. \A j \in 1..(Len(s) - (f + 2)) :
              j \in 1..(Len(s) - (f + 3) + 1) /\ (f + 3) + j - 1 = (f + 2) + j
        BY <1>1, <2>7
      <3> QED
        BY <3>2, <3>3, <3>4
    <2> HIDE DEF head, rest
    <2>14. head \in Seq(S) /\ rest \in Seq(S)
      BY <2>12, <2>13
    <2>15. /\ r \in Seq(S) /\ Len(r) = Len(head) + Len(rest)
           /\ \A j \in 1..Len(head) : r[j] = head[j]
           /\ \A j \in 1..Len(rest) : r[Len(head) + j] = rest[j]
      BY <2>11, <2>14, Concat
    <2>16. Len(r) = Len(s) - 3 /\ \A j \in 1..(f - 1) : r[j] = s[j]
      <3>1. Len(r) = (f - 1) + (Len(s) - (f + 2))
        BY <2>12, <2>13, <2>15
      <3>2. Len(r) = Len(s) - 3
        BY <1>1, <2>7, <3>1
      <3> QED
        BY <2>12, <2>15, <3>2
    <2>17. \A j \in f..Len(r) : s[j + 3] = r[j]
      <3> TAKE j \in f..Len(r)
      <3> DEFINE k == j - (f - 1)
      <3>1. k \in 1..(Len(s) - (f + 2)) /\ (f - 1) + k = j /\ (f + 2) + k = j + 3
        BY <1>1, <2>7, <2>16
      <3> HIDE DEF k
      <3>2. r[(f - 1) + k] = rest[k] /\ rest[k] = s[(f + 2) + k]
        BY <2>12, <2>13, <2>15, <3>1
      <3> QED
        BY <3>1, <3>2
    <2>18. WithBlock(s, r, f - 1)
      <3>1. f - 1 \in 0..Len(r) /\ Len(s) = Len(r) + 3 /\ (f - 1) + 1 = f
        BY <1>1, <2>9, <2>16
      <3> QED
        BY <2>8, <2>16, <2>17, <3>1 DEF WithBlock
    <2>19. ASSUME NEW b, Block(s, b) PROVE b >= f + 3 \/ b = f
      <3>1. b \in 1..(Len(s) - 2) /\ s[b].t = "BEGIN"
        BY <2>19 DEF Block
      <3>2. f <= b
        BY <1>1, <2>7, <3>1
      <3>3. b # f + 1 /\ b # f + 2
        BY <2>9, <3>1 DEF Inserted
      <3> QED
        BY <2>7, <3>1, <3>2, <3>3
    <2>20. Formed(r)
      <3>1. ASSUME NEW j \in 1..(f - 1)
            PROVE  r[j].own /\ r[j].t \notin {"BEGIN", "END"}
        <4>1. j \in 1..Len(s) /\ r[j] = s[j]
          BY <2>7, <2>16
        <4>2. \A b \in {j, j - 1, j - 2} : ~Block(s, b)
          <5> TAKE b \in {j, j - 1, j - 2}
          <5>1. ~(b >= f + 3 \/ b = f)
            BY <2>7
          <5> QED
            BY <2>19, <5>1
        <4> QED
          BY <4>1, <4>2 DEF Formed
      <3>2. ASSUME NEW b, Block(s, b), b >= f + 3 PROVE Block(r, b - 3)
        <4>1. b \in 1..(Len(s) - 2)
          BY <3>2 DEF Block
        <4>2. /\ b - 3 \in f..Len(r) /\ b - 2 \in f..Len(r) /\ b - 1 \in f..Len(r)
              /\ b - 3 \in 1..(Len(r) - 2)
              /\ (b - 3) + 3 = b /\ (b - 2) + 3 = b + 1 /\ (b - 1) + 3 = b + 2
              /\ (b - 3) + 1 = b - 2 /\ (b - 3) + 2 = b - 1
          BY <2>7, <2>16, <3>2, <4>1
        <4>3. r[b - 3] = s[b] /\ r[(b - 3) + 1] = s[b + 1] /\ r[(b - 3) + 2] = s[b + 2]
          BY <2>17, <4>2
        <4> QED
          BY <3>2, <4>2, <4>3 DEF Block
      <3>3. ASSUME NEW j \in f..Len(r)
            PROVE  \/ r[j].own /\ r[j].t \notin {"BEGIN", "END"}
                   \/ Block(r, j) \/ Block(r, j - 1) \/ Block(r, j - 2)
        <4>1. j + 3 \in 1..Len(s) /\ r[j] = s[j + 3]
          BY <2>7, <2>16, <2>17
        <4>2. \/ s[j + 3].own /\ s[j + 3].t \notin {"BEGIN", "END"}
              \/ Block(s, j + 3) \/ Block(s, (j + 3) - 1) \/ Block(s, (j + 3) - 2)
          BY <4>1 DEF Formed
        <4>3. /\ (j + 3) - 3 = j /\ ((j + 3) - 1) - 3 = j - 1 /\ ((j + 3) - 2) - 3 = j - 2
              /\ ~(j + 3 = f) /\ ~((j + 3) - 1 = f) /\ ~((j + 3) - 2 = f)
          BY <2>7
        <4> QED
          BY <2>19, <3>2, <4>1, <4>2, <4>3
      <3>4. \A j \in 1..Len(r) : j \in 1..(f - 1) \/ j \in f..Len(r)
        BY <2>7
      <3> QED
        BY <3>1, <3>3, <3>4 DEF Formed
    <2> QED
      BY <2>15, <2>18, <2>20 DEF r
  <1> QED
    BY <1>3, <1>4

LEMMA Upto ==
  ASSUME NEW a \in Nat, NEW b \in Nat, NEW T, a \in T, \A n \in a..(b - 1) : n \in T => n + 1 \in T
  PROVE  \A n \in a..b : n \in T
  <1> DEFINE U == {k \in Nat : a + k <= b => a + k \in T}
  <1>1. 0 \in U
    OBVIOUS
  <1>2. ASSUME NEW k \in U PROVE k + 1 \in U
    <2> SUFFICES ASSUME a + (k + 1) <= b PROVE a + (k + 1) \in T
      OBVIOUS
    <2>1. k \in Nat /\ a + k \in T /\ a + k \in a..(b - 1) /\ (a + k) + 1 = a + (k + 1)
      OBVIOUS
    <2> QED
      BY <2>1
  <1>3. U = Nat
    <2> HIDE DEF U
    <2>1. U \subseteq Nat
      BY DEF U
    <2> QED
      BY <1>1, <1>2, <2>1, NatSet
  <1>4. ASSUME NEW n \in a..b PROVE n \in T
    <2>1. n - a \in Nat /\ a + (n - a) = n /\ n <= b
      OBVIOUS
    <2>2. n - a \in U
      BY <1>3, <2>1
    <2> QED
      BY <2>1, <2>2
  <1> QED
    BY <1>4

LEMMA StripRuns ==
  ASSUME NEW S, NEW s \in Seq(S)
  PROVE  \E g : Strips(s, g) /\ StripMarkerBlocks(s) = g[Len(s)]
  <1> DEFINE N == Len(s)
             step == [p \in (1..N) \X Seq(S) |-> StripFirstBlock(p[2])]
             strip == CHOOSE g : Strips(s, g)
  <1>1. N \in Nat
    BY LenProperties
  <1>2. step \in [(1..N) \X Seq(S) -> Seq(S)]
    BY StripFirstType
  <1>3. \A n \in 1..N : \A u \in Seq(S) : step[<<n, u>>] = StripFirstBlock(u)
    OBVIOUS
  <1> HIDE DEF step, N
  <1>4. PICK f : Computes(f, N, Seq(S), s, step)
    <2>1. step \in StepFunctions(N, Seq(S))
      BY <1>2 DEF StepFunctions
    <2> QED
      BY <1>1, <2>1, Recursion
  <1>5. ASSUME NEW n \in 0..N PROVE f[n] = IF n = 0 THEN s ELSE StripFirstBlock(f[n - 1])
    <2>1. CASE n = 0
      BY <1>4, <2>1 DEF Computes
    <2>2. CASE n # 0
      <3>1. n \in 1..N /\ n - 1 \in 0..N
        BY <1>1, <2>2
      <3>2. f[n - 1] \in Seq(S)
        BY <1>4, <3>1 DEF Computes
      <3> QED
        BY <1>3, <1>4, <2>2, <3>1, <3>2 DEF Computes
    <2> QED
      BY <2>1, <2>2
  <1>6. Strips(s, f)
    BY <1>4, <1>5 DEF Strips, N, Computes
  <1>7. Strips(s, strip)
    BY <1>6
  <1>8. StripMarkerBlocks(s) = strip[Len(s)]
    BY DEF StripMarkerBlocks, Strips
  <1> QED
    BY <1>7, <1>8

(* Stripping takes the blocks, all of them, and leaves what is the author's. *)
LEMMA StripClosed ==
  ASSUME NEW S, NEW T \in SUBSET Seq(S), NEW s \in T, Formed(s),
         \A x \in T : \A y \in Seq(S) : (\E i : WithBlock(x, y, i)) => y \in T
  PROVE  StripMarkerBlocks(s) \in T /\ Authored(StripMarkerBlocks(s))
  <1> DEFINE N == Len(s)
  <1>1. N \in Nat /\ s \in Seq(S)
    BY LenProperties
  <1>2. PICK g : Strips(s, g) /\ StripMarkerBlocks(s) = g[N]
    BY <1>1, StripRuns
  <1> HIDE DEF N
  <1>3. g[0] = s /\ \A n \in 1..N : g[n] = StripFirstBlock(g[n - 1])
    BY <1>1, <1>2 DEF Strips, N
  <1> DEFINE Good(x, n) == x \in T /\ Formed(x) /\ (Len(x) + n <= N \/ Authored(x))
             G == {n \in Nat : Good(g[n], n)}
  <1>4. 0 \in G
    BY <1>1, <1>3 DEF N
  <1>5. ASSUME NEW n \in 0..(N - 1), n \in G PROVE n + 1 \in G
    <2> DEFINE x == g[n]
               y == StripFirstBlock(x)
    <2>1. Good(x, n) /\ n \in Nat
      BY <1>5
    <2>2. g[n + 1] = y
      <3>1. n + 1 \in 1..N /\ (n + 1) - 1 = n
        BY <1>1
      <3> QED
        BY <1>3, <3>1
    <2> HIDE DEF x
    <2>3. x \in Seq(S) /\ Formed(x) /\ Len(x) \in Nat /\ DOMAIN x = 1..Len(x)
      BY <2>1, LenProperties
    <2>4. CASE y = x /\ \A i \in 1..Len(x) : x[i].own /\ x[i].t \notin {"BEGIN", "END"}
      <3>1. Authored(x)
        BY <2>3, <2>4 DEF Authored
      <3>2. Good(y, n + 1)
        BY <2>1, <2>4, <3>1
      <3> HIDE DEF y, Good
      <3> QED
        BY <2>1, <2>2, <3>2
    <2>5. CASE y \in Seq(S) /\ Formed(y) /\ \E i : WithBlock(x, y, i)
      <3> HIDE DEF y
      <3>1. PICK i : WithBlock(x, y, i)
        BY <2>5
      <3>2. y \in T
        BY <2>1, <2>5
      <3>3. Len(x) = Len(y) + 3 /\ Block(x, i + 1) /\ Len(y) \in Nat
        BY <2>5, <3>1, LenProperties DEF WithBlock
      <3>4. ~Authored(x)
        <4>1. i + 1 \in 1..Len(x) /\ ~x[i + 1].own
          BY <2>3, <3>3 DEF Block
        <4> QED
          BY <2>3, <4>1 DEF Authored
      <3>5. Len(x) + n <= N
        BY <2>1, <3>4
      <3>6. Len(y) + (n + 1) <= N
        BY <1>1, <2>1, <3>3, <3>5
      <3>7. Good(y, n + 1)
        BY <2>5, <3>2, <3>6
      <3> HIDE DEF Good
      <3> QED
        BY <2>1, <2>2, <3>7
    <2> QED
      BY <2>3, <2>4, <2>5, StripFirst
  <1>6. N \in G
    <2> HIDE DEF G
    <2>1. \A n \in 0..N : n \in G
      BY <1>1, <1>4, <1>5, Upto
    <2> QED
      BY <1>1, <2>1
  <1>7. Good(g[N], N)
    BY <1>6
  <1> DEFINE r == g[N]
  <1> HIDE DEF r
  <1>8. r \in T /\ (Len(r) + N <= N \/ Authored(r))
    BY <1>7 DEF r
  <1>9. Authored(r)
    <2>1. Len(r) \in Nat /\ DOMAIN r = 1..Len(r)
      BY <1>8, LenProperties
    <2>2. CASE Len(r) + N <= N
      <3>1. DOMAIN r = {}
        BY <1>1, <2>1, <2>2
      <3> QED
        BY <3>1 DEF Authored
    <2> QED
      BY <1>8, <2>2
  <1> QED
    BY <1>2, <1>8, <1>9 DEF r

(* The lines of the author, one by one.                                    *)
Owning(s, g) ==
    /\ g[0] = <<>>
    /\ \A n \in 1..Len(s) : g[n] = IF s[n].own THEN Append(g[n - 1], s[n]) ELSE g[n - 1]

LEMMA OwnedRuns ==
  ASSUME NEW S, NEW s \in Seq(S)
  PROVE  \E g : Owning(s, g) /\ Owned(s) = g[Len(s)]
  <1> DEFINE N == Len(s)
             K == Seq(S)
             Kept(n, u) == IF s[n].own THEN Append(u, s[n]) ELSE u
             step == [p \in (1..N) \X K |-> Kept(p[1], p[2])]
             Defines(g) == g = [n \in 0..N |-> IF n = 0 THEN <<>>
                                   ELSE IF s[n].own THEN Append(g[n - 1], s[n]) ELSE g[n - 1]]
             owned == CHOOSE g : Defines(g)
  <1>1. N \in Nat /\ \A n \in 1..N : s[n] \in S
    BY LenProperties, ElementOfSeq
  <1>2. ASSUME NEW n \in 1..N, NEW u \in K PROVE Kept(n, u) \in K
    BY <1>1, AppendProperties
  <1>3. <<>> \in K
    OBVIOUS
  <1> HIDE DEF K
  <1>4. step \in StepFunctions(N, K)
    BY <1>2 DEF StepFunctions
  <1>5. \A n \in 1..N : \A u \in K : step[<<n, u>>] = Kept(n, u)
    OBVIOUS
  <1> HIDE DEF step, N
  <1>6. PICK f : Computes(f, N, K, <<>>, step)
    BY <1>1, <1>3, <1>4, Recursion
  <1>7. ASSUME NEW n \in 0..N
        PROVE  f[n] = IF n = 0 THEN <<>>
                      ELSE IF s[n].own THEN Append(f[n - 1], s[n]) ELSE f[n - 1]
    <2>1. CASE n = 0
      BY <1>6, <2>1 DEF Computes
    <2>2. CASE n # 0
      <3>1. n \in 1..N /\ n - 1 \in 0..N
        BY <1>1, <2>2
      <3>2. f[n - 1] \in K
        BY <1>6, <3>1 DEF Computes
      <3> QED
        BY <1>5, <1>6, <2>2, <3>1, <3>2 DEF Computes
    <2> QED
      BY <2>1, <2>2
  <1>8. Defines(f)
    BY <1>6, <1>7 DEF Computes
  <1>9. Defines(owned)
    BY <1>8
  <1>10. Owned(s) = owned[N]
    BY DEF Owned, N
  <1> HIDE DEF owned
  <1>11. owned[0] = <<>>
    BY <1>1, <1>9
  <1>12. \A n \in 1..N : owned[n] = IF s[n].own THEN Append(owned[n - 1], s[n]) ELSE owned[n - 1]
    <2> TAKE n \in 1..N
    <2>1. n \in 0..N /\ n # 0
      BY <1>1
    <2> QED
      BY <1>9, <2>1
  <1> QED
    BY <1>10, <1>11, <1>12 DEF Owning, N

LEMMA OwnedSame ==
  ASSUME NEW S, NEW s \in Seq(S), NEW r \in Seq(S), Len(r) = Len(s),
         \A i \in 1..Len(s) : r[i].own = s[i].own /\ (s[i].own => r[i] = s[i])
  PROVE  Owned(r) = Owned(s)
  <1>1. PICK g : Owning(s, g) /\ Owned(s) = g[Len(s)]
    BY OwnedRuns
  <1>2. PICK h : Owning(r, h) /\ Owned(r) = h[Len(r)]
    BY OwnedRuns
  <1> DEFINE T == {n \in Nat : h[n] = g[n]}
  <1>3. Len(s) \in Nat /\ 0 \in T
    BY <1>1, <1>2, LenProperties DEF Owning
  <1>4. ASSUME NEW n \in 0..(Len(s) - 1), n \in T PROVE n + 1 \in T
    <2>1. n + 1 \in 1..Len(s) /\ n + 1 \in 1..Len(r) /\ (n + 1) - 1 = n
      BY <1>3
    <2>2. /\ h[n + 1] = IF r[n + 1].own THEN Append(h[n], r[n + 1]) ELSE h[n]
          /\ g[n + 1] = IF s[n + 1].own THEN Append(g[n], s[n + 1]) ELSE g[n]
      BY <1>1, <1>2, <2>1 DEF Owning
    <2>3. h[n + 1] = g[n + 1]
      BY <1>4, <2>1, <2>2
    <2> QED
      BY <1>3, <2>3
  <1>5. Len(s) \in T
    <2> HIDE DEF T
    <2>1. \A n \in 0..Len(s) : n \in T
      BY <1>3, <1>4, Upto
    <2> QED
      BY <1>3, <2>1
  <1> QED
    BY <1>1, <1>2, <1>5

LEMMA OwnedWithBlock ==
  ASSUME NEW S, NEW s \in Seq(S), NEW r \in Seq(S), NEW i, WithBlock(r, s, i)
  PROVE  Owned(r) = Owned(s)
  <1>1. PICK g : Owning(s, g) /\ Owned(s) = g[Len(s)]
    BY OwnedRuns
  <1>2. PICK h : Owning(r, h) /\ Owned(r) = h[Len(r)]
    BY OwnedRuns
  <1>3. /\ Len(s) \in Nat /\ i \in Nat /\ i <= Len(s) /\ Len(r) = Len(s) + 3
        /\ \A j \in 1..i : r[j] = s[j]
        /\ \A j \in (i + 1)..Len(s) : r[j + 3] = s[j]
    BY LenProperties DEF WithBlock
  <1>4. ~r[i + 1].own /\ ~r[i + 2].own /\ ~r[i + 3].own
    <2>1. (i + 1) + 1 = i + 2 /\ (i + 1) + 2 = i + 3
      BY <1>3
    <2> QED
      BY <2>1 DEF WithBlock, Block
  <1> DEFINE T == {n \in Nat : h[n] = g[n]}
             U == {n \in Nat : h[n + 3] = g[n]}
  <1>5. 0 \in T
    BY <1>1, <1>2 DEF Owning
  <1>6. ASSUME NEW n \in 0..(i - 1), n \in T PROVE n + 1 \in T
    <2>1. /\ n + 1 \in 1..Len(s) /\ n + 1 \in 1..Len(r) /\ n + 1 \in 1..i /\ (n + 1) - 1 = n
          /\ n + 1 \in Nat
      BY <1>3
    <2>2. /\ h[n + 1] = IF r[n + 1].own THEN Append(h[n], r[n + 1]) ELSE h[n]
          /\ g[n + 1] = IF s[n + 1].own THEN Append(g[n], s[n + 1]) ELSE g[n]
      BY <1>1, <1>2, <2>1 DEF Owning
    <2>3. h[n + 1] = g[n + 1]
      BY <1>3, <1>6, <2>1, <2>2
    <2> QED
      BY <2>1, <2>3
  <1>7. i \in T
    <2> HIDE DEF T
    <2>1. \A n \in 0..i : n \in T
      BY <1>3, <1>5, <1>6, Upto
    <2> QED
      BY <1>3, <2>1
  <1>8. i \in U
    <2>1. /\ i + 1 \in 1..Len(r) /\ i + 2 \in 1..Len(r) /\ i + 3 \in 1..Len(r)
          /\ (i + 1) - 1 = i /\ (i + 2) - 1 = i + 1 /\ (i + 3) - 1 = i + 2
      BY <1>3
    <2>2. h[i + 1] = h[i] /\ h[i + 2] = h[i + 1] /\ h[i + 3] = h[i + 2]
      BY <1>2, <1>4, <2>1 DEF Owning
    <2> QED
      BY <1>3, <1>7, <2>2
  <1>9. ASSUME NEW n \in i..(Len(s) - 1), n \in U PROVE n + 1 \in U
    <2>1. /\ n + 1 \in 1..Len(s) /\ (n + 1) + 3 \in 1..Len(r) /\ n + 1 \in (i + 1)..Len(s)
          /\ (n + 1) - 1 = n /\ ((n + 1) + 3) - 1 = n + 3 /\ n + 1 \in Nat
      BY <1>3
    <2>2. /\ h[(n + 1) + 3] = IF r[(n + 1) + 3].own THEN Append(h[n + 3], r[(n + 1) + 3])
                              ELSE h[n + 3]
          /\ g[n + 1] = IF s[n + 1].own THEN Append(g[n], s[n + 1]) ELSE g[n]
      BY <1>1, <1>2, <2>1 DEF Owning
    <2>3. r[(n + 1) + 3] = s[n + 1] /\ h[n + 3] = g[n]
      BY <1>3, <1>9, <2>1
    <2>4. h[(n + 1) + 3] = g[n + 1]
      BY <2>2, <2>3
    <2> QED
      BY <2>1, <2>4
  <1>10. Len(s) \in U
    <2> HIDE DEF U
    <2>1. \A n \in i..Len(s) : n \in U
      BY <1>3, <1>8, <1>9, Upto
    <2> QED
      BY <1>3, <2>1
  <1> QED
    BY <1>1, <1>2, <1>3, <1>10

-----------------------------------------------------------------------------
(* Where setup inserts: never inside a block.                              *)

LEMMA FirstAt ==
  ASSUME NEW S, NEW s \in Seq(S), NEW types, First(s, types) # 0
  PROVE  /\ First(s, types) \in 1..Len(s) /\ IsCode(s[First(s, types)], types)
         /\ \A j \in 1..Len(s) : IsCode(s[j], types) => First(s, types) <= j
  <1> DEFINE I == {i \in 1..Len(s) : IsCode(s[i], types)}
  <1>1. I # {} /\ First(s, types) = Min(I)
    BY DEF First, SelectInSeq
  <1>2. I \in SUBSET Nat
    BY LenProperties
  <1>3. First(s, types) \in I /\ \A j \in I : First(s, types) <= j
    <2> HIDE DEF I
    <2> QED
      BY <1>1, <1>2, MinInSet
  <1> QED
    BY <1>3

LEMMA FirstNone ==
  ASSUME NEW s, NEW types
  PROVE  First(s, types) = 0 => \A j \in 1..Len(s) : ~IsCode(s[j], types)
  <1> DEFINE I == {i \in 1..Len(s) : IsCode(s[i], types)}
  <1>1. ASSUME I # {}, I \in SUBSET (1..Len(s)), First(s, types) = 0 PROVE FALSE
    <2>1. I \in SUBSET Nat
      BY <1>1
    <2>2. First(s, types) = Min(I)
      BY <1>1 DEF First, SelectInSeq
    <2> HIDE DEF I
    <2>3. Min(I) \in I
      BY <1>1, <2>1, MinInSet
    <2>4. 0 \in 1..Len(s)
      BY <1>1, <2>2, <2>3
    <2> QED
      BY <2>4
  <1> QED
    BY <1>1

LEMMA FinalAt ==
  ASSUME NEW S, NEW s \in Seq(S), NEW types, Final(s, types) # 0
  PROVE  Final(s, types) \in 1..Len(s) /\ IsCode(s[Final(s, types)], types)
  <1> DEFINE I == {i \in 1..Len(s) : IsCode(s[i], types)}
  <1>1. I # {} /\ Final(s, types) = Max(I)
    BY DEF Final, SelectLastInSeq
  <1>2. I \in SUBSET (0..Len(s)) /\ Len(s) \in Nat
    BY LenProperties
  <1>3. Final(s, types) \in I
    <2> HIDE DEF I
    <2> QED
      BY <1>1, <1>2, MaxInSet
  <1> QED
    BY <1>3

LEMMA FormedOwn ==
  ASSUME NEW s, Formed(s), NEW i \in 1..Len(s), s[i].t \notin {"BEGIN", "END"} \cup Inserted
  PROVE  s[i].own
  <1>1. /\ (i - 1) + 1 = i /\ (i - 2) + 2 = i
    OBVIOUS
  <1>2. ~Block(s, i) /\ ~Block(s, i - 1) /\ ~Block(s, i - 2)
    BY <1>1 DEF Block
  <1> QED
    BY <1>2 DEF Formed

LEMMA FormedAuthored ==
  ASSUME NEW S, NEW s \in Seq(S), Authored(s)
  PROVE  Formed(s)
  <1>1. DOMAIN s = 1..Len(s)
    BY LenProperties
  <1> QED
    BY <1>1 DEF Authored, Formed

LEMMA FormedAppend ==
  ASSUME NEW S, NEW s \in Seq(S), NEW line \in S, Formed(s),
         line.own, line.t \notin {"BEGIN", "END"}
  PROVE  Formed(Append(s, line))
  <1> DEFINE r == Append(s, line)
  <1>1. /\ Len(s) \in Nat /\ Len(r) = Len(s) + 1
        /\ \A i \in 1..Len(s) : r[i] = s[i]
        /\ r[Len(s) + 1] = line
    BY LenProperties, AppendProperties
  <1> HIDE DEF r
  <1>2. ASSUME NEW b, Block(s, b) PROVE Block(r, b)
    <2>1. /\ b \in 1..Len(s) /\ b + 1 \in 1..Len(s) /\ b + 2 \in 1..Len(s)
          /\ b \in 1..(Len(r) - 2)
      BY <1>1, <1>2 DEF Block
    <2> QED
      BY <1>1, <1>2, <2>1 DEF Block
  <1>3. ASSUME NEW i \in 1..Len(r)
        PROVE  \/ r[i].own /\ r[i].t \notin {"BEGIN", "END"}
               \/ Block(r, i) \/ Block(r, i - 1) \/ Block(r, i - 2)
    <2>1. i \in 1..Len(s) \/ i = Len(s) + 1
      BY <1>1
    <2> QED
      BY <1>1, <1>2, <2>1 DEF Formed
  <1> QED
    BY <1>3 DEF Formed, r

(* The author's part of a C file.                                          *)
OwnC(s) == Owned(Renamed(s, "wrapper", "input"))

Renames(r, s, from, to) ==
    /\ Len(r) = Len(s)
    /\ \A i \in 1..Len(s) :
         /\ r[i] = IF IsCode(s[i], {from}) THEN [s[i] EXCEPT !.t = to] ELSE s[i]
         /\ r[i].own = s[i].own /\ r[i].code = s[i].code
         /\ r[i].t = IF IsCode(s[i], {from}) THEN to ELSE s[i].t

LEMMA RenamedIs ==
  ASSUME NEW s \in Seq(Lines), NEW from, NEW to \in Kinds
  PROVE  /\ Renamed(s, from, to) \in Seq(Lines)
         /\ Renames(Renamed(s, from, to), s, from, to)
  <1> DEFINE r == Renamed(s, from, to)
  <1>1. DOMAIN s = 1..Len(s) /\ Len(s) \in Nat /\ \A i \in 1..Len(s) : s[i] \in Lines
    BY LenProperties, ElementOfSeq
  <1>2. r \in Seq(Lines)
    BY RenamedType
  <1>3. DOMAIN r = 1..Len(s)
    BY <1>1 DEF Renamed
  <1>4. Len(r) = Len(s)
    BY <1>1, <1>2, <1>3, LenProperties
  <1>5. \A i \in 1..Len(s) : r[i] = IF IsCode(s[i], {from}) THEN [s[i] EXCEPT !.t = to] ELSE s[i]
    BY <1>1 DEF Renamed
  <1> HIDE DEF r
  <1>6. ASSUME NEW i \in 1..Len(s)
        PROVE  /\ r[i].own = s[i].own /\ r[i].code = s[i].code
               /\ r[i].t = IF IsCode(s[i], {from}) THEN to ELSE s[i].t
    <2>1. s[i] \in Lines
      BY <1>1
    <2>2. /\ [s[i] EXCEPT !.t = to].own = s[i].own /\ [s[i] EXCEPT !.t = to].code = s[i].code
          /\ [s[i] EXCEPT !.t = to].t = to
      BY <2>1 DEF Lines
    <2> QED
      BY <1>5, <2>2
  <1> QED
    BY <1>2, <1>4, <1>5, <1>6 DEF r, Renames

LEMMA RenamedWithBlock ==
  ASSUME NEW s \in Seq(Lines), NEW r \in Seq(Lines), NEW i, WithBlock(r, s, i)
  PROVE  OwnC(r) = OwnC(s)
  <1> DEFINE p == Renamed(s, "wrapper", "input")
             q == Renamed(r, "wrapper", "input")
  <1>1. "input" \in Kinds
    BY DEF Kinds
  <1>2. /\ p \in Seq(Lines) /\ Len(p) = Len(s)
        /\ \A j \in 1..Len(s) :
             p[j] = IF IsCode(s[j], {"wrapper"}) THEN [s[j] EXCEPT !.t = "input"] ELSE s[j]
    BY <1>1, RenamedIs DEF Renames
  <1>3. /\ q \in Seq(Lines) /\ Len(q) = Len(r)
        /\ \A j \in 1..Len(r) :
             q[j] = IF IsCode(r[j], {"wrapper"}) THEN [r[j] EXCEPT !.t = "input"] ELSE r[j]
    BY <1>1, RenamedIs DEF Renames
  <1> HIDE DEF p, q
  <1>4. /\ Len(s) \in Nat /\ i \in Nat /\ i <= Len(s) /\ Len(r) = Len(s) + 3
        /\ \A j \in 1..i : r[j] = s[j]
        /\ \A j \in (i + 1)..Len(s) : r[j + 3] = s[j]
    BY LenProperties DEF WithBlock
  <1>5. \A j \in 1..i : q[j] = p[j]
    <2> TAKE j \in 1..i
    <2>1. j \in 1..Len(s) /\ j \in 1..Len(r) /\ r[j] = s[j]
      BY <1>4
    <2> QED
      BY <1>2, <1>3, <2>1
  <1>6. \A j \in (i + 1)..Len(s) : q[j + 3] = p[j]
    <2> TAKE j \in (i + 1)..Len(s)
    <2>1. j \in 1..Len(s) /\ j + 3 \in 1..Len(r) /\ r[j + 3] = s[j]
      BY <1>4
    <2> QED
      BY <1>2, <1>3, <2>1
  <1>7. Block(q, i + 1)
    <2>1. /\ (i + 1) \in 1..Len(r) /\ (i + 1) + 1 \in 1..Len(r) /\ (i + 1) + 2 \in 1..Len(r)
          /\ i + 1 \in 1..(Len(q) - 2)
      BY <1>3, <1>4
    <2>2. /\ ~r[i + 1].own /\ ~r[(i + 1) + 1].own /\ ~r[(i + 1) + 2].own
          /\ r[i + 1].t = "BEGIN" /\ r[(i + 1) + 1].t \in Inserted /\ r[(i + 1) + 2].t = "END"
      BY DEF WithBlock, Block
    <2>3. /\ q[i + 1] = r[i + 1] /\ q[(i + 1) + 1] = r[(i + 1) + 1]
          /\ q[(i + 1) + 2] = r[(i + 1) + 2]
      BY <1>3, <2>1, <2>2 DEF IsCode, Inserted
    <2> QED
      BY <2>1, <2>2, <2>3 DEF Block
  <1>8. WithBlock(q, p, i)
    BY <1>2, <1>3, <1>4, <1>5, <1>6, <1>7 DEF WithBlock
  <1>9. Owned(q) = Owned(p)
    BY <1>2, <1>3, <1>8, OwnedWithBlock
  <1> QED
    BY <1>9 DEF OwnC, p, q

(* A block goes in after a line of the author's, or in front of all.       *)
LEMMA AuthorInsert ==
  ASSUME NEW s \in Seq(Lines), Formed(s), NEW i \in 0..Len(s),
         i # 0 => s[i].t \notin {"BEGIN", "END"} \cup Inserted,
         NEW x \in Inserted
  PROVE  LET r == Insert(s, i, MarkerBlock(Line(x)))
         IN r \in Seq(Lines) /\ Formed(r) /\ OwnC(r) = OwnC(s)
  <1> DEFINE r == Insert(s, i, MarkerBlock(Line(x)))
  <1>1. MarkerBlock(Line(x)) \in Seq(Lines)
    BY LineTypes DEF Inserted, Kinds
  <1>2. r \in Seq(Lines) /\ WithBlock(r, s, i)
    BY <1>1, BlockInserted
  <1> HIDE DEF r
  <1>3. i = 0 \/ s[i].own
    <2>1. i # 0 => i \in 1..Len(s)
      OBVIOUS
    <2> QED
      BY <2>1, FormedOwn
  <1>4. Formed(r)
    BY <1>2, <1>3, FormedWithBlock
  <1>5. OwnC(r) = OwnC(s)
    BY <1>2, RenamedWithBlock
  <1> QED
    BY <1>2, <1>4, <1>5 DEF r

LEMMA FormedRenamed ==
  ASSUME NEW s \in Seq(Lines), Formed(s), NEW from, NEW to \in Kinds,
         from \notin {"BEGIN", "END"} \cup Inserted, to \notin {"BEGIN", "END"}
  PROVE  Formed(Renamed(s, from, to))
  <1> DEFINE r == Renamed(s, from, to)
  <1>1. Renames(r, s, from, to)
    BY RenamedIs
  <1> HIDE DEF r
  <1>2. \A i \in 1..Len(s) : IsCode(s[i], {from}) => s[i].own
    BY FormedOwn DEF IsCode
  <1>3. Formed(r)
    BY <1>1, <1>2, FormedSame DEF Renames
  <1> QED
    BY <1>3 DEF r

LEMMA IncludeKeeps ==
  ASSUME NEW s \in Seq(Lines), Formed(s)
  PROVE  LET r == InsertIncludeIfMissing(s)
         IN r \in Seq(Lines) /\ Formed(r) /\ OwnC(r) = OwnC(s)
  <1>1. Final(s, {"include"}) \in 0..Len(s)
    BY FinalInSeq
  <1>2. Final(s, {"include"}) # 0 => s[Final(s, {"include"})].t = "include"
    BY FinalAt DEF IsCode
  <1>3. "mcp.h" \in Inserted /\ "include" \notin {"BEGIN", "END"} \cup Inserted
    BY DEF Inserted
  <1> QED
    BY <1>1, <1>2, <1>3, AuthorInsert DEF InsertIncludeIfMissing

LEMMA WrapKeeps ==
  ASSUME NEW s \in Seq(Lines), Formed(s)
  PROVE  LET r == Renamed(s, "input", "wrapper")
         IN r \in Seq(Lines) /\ Formed(r) /\ OwnC(r) = OwnC(s)
  <1> DEFINE r == Renamed(s, "input", "wrapper")
             p == Renamed(r, "wrapper", "input")
             q == Renamed(s, "wrapper", "input")
  <1>1. /\ "input" \in Kinds /\ "wrapper" \in Kinds /\ "input" \notin {"BEGIN", "END"} \cup Inserted
        /\ "wrapper" \notin {"BEGIN", "END"}
    BY DEF Kinds, Inserted
  <1>2. Formed(r)
    BY <1>1, FormedRenamed
  <1>3. r \in Seq(Lines) /\ Renames(r, s, "input", "wrapper")
    BY <1>1, RenamedIs
  <1> HIDE DEF r
  <1>4. p \in Seq(Lines) /\ Renames(p, r, "wrapper", "input")
    BY <1>1, <1>3, RenamedIs
  <1>5. q \in Seq(Lines) /\ Renames(q, s, "wrapper", "input")
    BY <1>1, RenamedIs
  <1> HIDE DEF p, q
  <1>6. ASSUME NEW i \in 1..Len(s) PROVE p[i] = q[i]
    <2>1. s[i] \in Lines /\ i \in 1..Len(r)
      BY <1>3, ElementOfSeq DEF Renames
    <2>2. /\ r[i] = IF IsCode(s[i], {"input"}) THEN [s[i] EXCEPT !.t = "wrapper"] ELSE s[i]
          /\ p[i] = IF IsCode(r[i], {"wrapper"}) THEN [r[i] EXCEPT !.t = "input"] ELSE r[i]
          /\ q[i] = IF IsCode(s[i], {"wrapper"}) THEN [s[i] EXCEPT !.t = "input"] ELSE s[i]
      BY <1>3, <1>4, <1>5, <2>1 DEF Renames
    <2>3. CASE IsCode(s[i], {"input"})
      <3>1. r[i] = [s[i] EXCEPT !.t = "wrapper"]
        BY <2>2, <2>3
      <3>2. IsCode(r[i], {"wrapper"}) /\ [r[i] EXCEPT !.t = "input"] = s[i]
        BY <2>1, <2>3, <3>1 DEF Lines, IsCode
      <3>3. ~IsCode(s[i], {"wrapper"})
        BY <2>3 DEF IsCode
      <3> QED
        BY <2>2, <3>2, <3>3
    <2>4. CASE ~IsCode(s[i], {"input"})
      BY <2>2, <2>4
    <2> QED
      BY <2>3, <2>4
  <1>7. Owned(p) = Owned(q)
    <2>1. Len(p) = Len(q) /\ Len(q) = Len(s)
      BY <1>3, <1>4, <1>5 DEF Renames
    <2> QED
      BY <1>4, <1>5, <1>6, <2>1, OwnedSame
  <1> QED
    BY <1>2, <1>3, <1>7 DEF OwnC, r, p, q

LEMMA StripKeeps ==
  ASSUME NEW s \in Seq(Lines), Formed(s)
  PROVE  LET r == StripMarkerBlocks(s)
         IN /\ r \in Seq(Lines) /\ Formed(r) /\ Authored(r)
            /\ OwnC(r) = OwnC(s) /\ Owned(r) = Owned(s)
  <1> DEFINE T == {x \in Seq(Lines) : OwnC(x) = OwnC(s) /\ Owned(x) = Owned(s)}
             r == StripMarkerBlocks(s)
  <1>1. s \in T /\ T \in SUBSET Seq(Lines)
    OBVIOUS
  <1>2. ASSUME NEW x \in T, NEW y \in Seq(Lines), \E i : WithBlock(x, y, i) PROVE y \in T
    <2>1. PICK i : WithBlock(x, y, i)
      BY <1>2
    <2>2. OwnC(x) = OwnC(y) /\ Owned(x) = Owned(y)
      BY <2>1, OwnedWithBlock, RenamedWithBlock
    <2> QED
      BY <2>2
  <1> HIDE DEF T
  <1>3. r \in T /\ Authored(r)
    BY <1>1, <1>2, StripClosed
  <1> HIDE DEF r
  <1>4. r \in Seq(Lines) /\ OwnC(r) = OwnC(s) /\ Owned(r) = Owned(s)
    BY <1>3 DEF T
  <1>5. Formed(r)
    BY <1>3, <1>4, FormedAuthored
  <1> QED
    BY <1>3, <1>4, <1>5 DEF r

-----------------------------------------------------------------------------
(* The author's part of CMakeLists.txt.                                    *)

LEMMA WithoutRuns ==
  ASSUME NEW S, NEW args \in Seq(S), NEW arg
  PROVE  \E g : Keeps(args, arg, g) /\ Without(args, arg) = g[Len(args)]
  <1> DEFINE N == Len(args)
             K == Seq(S)
             Kept(n, u) == IF args[n] = arg THEN u ELSE Append(u, args[n])
             step == [p \in (1..N) \X K |-> Kept(p[1], p[2])]
             kept == CHOOSE g : Keeps(args, arg, g)
  <1>1. N \in Nat /\ \A n \in 1..N : args[n] \in S
    BY LenProperties, ElementOfSeq
  <1>2. ASSUME NEW n \in 1..N, NEW u \in K PROVE Kept(n, u) \in K
    BY <1>1, AppendProperties
  <1>3. <<>> \in K
    OBVIOUS
  <1> HIDE DEF K
  <1>4. step \in StepFunctions(N, K)
    BY <1>2 DEF StepFunctions
  <1>5. \A n \in 1..N : \A u \in K : step[<<n, u>>] = Kept(n, u)
    OBVIOUS
  <1> HIDE DEF step, N
  <1>6. PICK f : Computes(f, N, K, <<>>, step)
    BY <1>1, <1>3, <1>4, Recursion
  <1>7. ASSUME NEW n \in 0..N
        PROVE  f[n] = IF n = 0 THEN <<>>
                      ELSE IF args[n] = arg THEN f[n - 1] ELSE Append(f[n - 1], args[n])
    <2>1. CASE n = 0
      BY <1>6, <2>1 DEF Computes
    <2>2. CASE n # 0
      <3>1. n \in 1..N /\ n - 1 \in 0..N
        BY <1>1, <2>2
      <3>2. f[n - 1] \in K
        BY <1>6, <3>1 DEF Computes
      <3> QED
        BY <1>5, <1>6, <2>2, <3>1, <3>2 DEF Computes
    <2> QED
      BY <2>1, <2>2
  <1>8. Keeps(args, arg, f)
    BY <1>6, <1>7 DEF Keeps, N, Computes
  <1>9. Keeps(args, arg, kept)
    BY <1>8
  <1>10. Without(args, arg) = kept[N]
    BY DEF Without, Keeps, N
  <1> QED
    BY <1>9, <1>10 DEF N

LEMMA WithoutAbsent ==
  ASSUME NEW S, NEW arg, NEW args \in Seq(S \ {arg})
  PROVE  Without(args, arg) = args
  <1>1. PICK g : Keeps(args, arg, g) /\ Without(args, arg) = g[Len(args)]
    BY WithoutRuns
  <1>2. Len(args) \in Nat /\ \A n \in 1..Len(args) : args[n] \in S \ {arg}
    BY LenProperties, ElementOfSeq
  <1>3. /\ g[0] = <<>>
        /\ \A n \in 1..Len(args) : g[n] = Append(g[n - 1], args[n])
    <2>1. g[0] = <<>>
      BY <1>1, <1>2 DEF Keeps
    <2>2. ASSUME NEW n \in 1..Len(args) PROVE g[n] = Append(g[n - 1], args[n])
      <3>1. n \in 0..Len(args) /\ n # 0 /\ args[n] # arg
        BY <1>2
      <3> QED
        BY <1>1, <3>1 DEF Keeps
    <2> QED
      BY <2>1, <2>2
  <1> DEFINE Good(n) == g[n] \in Seq(S) /\ Len(g[n]) = n /\ \A j \in 1..n : g[n][j] = args[j]
             G == {n \in Nat : Good(n)}
  <1>4. 0 \in G
    <2>1. <<>> \in Seq(S) /\ Len(<<>>) = 0 /\ 1..0 = {}
      OBVIOUS
    <2>2. g[0] \in Seq(S) /\ Len(g[0]) = 0
      BY <1>3, <2>1
    <2> QED
      BY <2>2
  <1>5. ASSUME NEW n \in 0..(Len(args) - 1), n \in G PROVE n + 1 \in G
    <2>1. g[n + 1] = Append(g[n], args[n + 1]) /\ args[n + 1] \in S /\ n + 1 \in Nat
      <3>1. n + 1 \in 1..Len(args) /\ (n + 1) - 1 = n
        BY <1>2
      <3>2. g[n + 1] = Append(g[(n + 1) - 1], args[n + 1])
        BY <1>3, <3>1
      <3> QED
        BY <1>2, <3>1, <3>2
    <2> DEFINE u == g[n]
               w == g[n + 1]
    <2>2. u \in Seq(S) /\ Len(u) = n /\ \A j \in 1..n : u[j] = args[j]
      BY <1>5
    <2>3. w = Append(u, args[n + 1])
      BY <2>1
    <2> HIDE DEF u, w
    <2>4. /\ w \in Seq(S) /\ Len(w) = n + 1
          /\ \A j \in 1..n : w[j] = u[j]
          /\ w[n + 1] = args[n + 1]
      BY <2>1, <2>2, <2>3, AppendProperties
    <2>5. \A j \in 1..(n + 1) : w[j] = args[j]
      <3> TAKE j \in 1..(n + 1)
      <3>1. j \in 1..n \/ j = n + 1
        OBVIOUS
      <3> QED
        BY <2>2, <2>4, <3>1
    <2> QED
      BY <2>1, <2>4, <2>5 DEF w
  <1>6. Len(args) \in G
    <2> HIDE DEF G
    <2>1. \A n \in 0..Len(args) : n \in G
      BY <1>2, <1>4, <1>5, Upto
    <2> QED
      BY <1>2, <2>1
  <1>7. Good(Len(args))
    BY <1>6
  <1> DEFINE r == g[Len(args)]
  <1>8. /\ r \in Seq(S) /\ Len(r) = Len(args) /\ \A j \in 1..Len(args) : r[j] = args[j]
    BY <1>7
  <1>9. args \in Seq(S)
    BY SeqMonotonic
  <1> HIDE DEF r
  <1>10. r = args
    BY <1>8, <1>9, SeqEqual
  <1> QED
    BY <1>1, <1>10 DEF r

LEMMA WithoutAppended ==
  ASSUME NEW S, NEW args \in Seq(S), NEW arg \in S
  PROVE  Without(Append(args, arg), arg) = Without(args, arg)
  <1> DEFINE more == Append(args, arg)
  <1>1. /\ more \in Seq(S) /\ Len(more) = Len(args) + 1 /\ Len(args) \in Nat
        /\ \A j \in 1..Len(args) : more[j] = args[j]
        /\ more[Len(args) + 1] = arg
    BY LenProperties, AppendProperties
  <1> HIDE DEF more
  <1>2. PICK g : Keeps(args, arg, g) /\ Without(args, arg) = g[Len(args)]
    BY WithoutRuns
  <1>3. PICK h : Keeps(more, arg, h) /\ Without(more, arg) = h[Len(more)]
    BY <1>1, WithoutRuns
  <1> DEFINE T == {n \in Nat : h[n] = g[n]}
  <1>4. 0 \in T
    BY <1>1, <1>2, <1>3 DEF Keeps
  <1>5. ASSUME NEW n \in 0..(Len(args) - 1), n \in T PROVE n + 1 \in T
    <2>1. /\ n + 1 \in 0..Len(args) /\ n + 1 \in 0..Len(more) /\ n + 1 # 0 /\ (n + 1) - 1 = n
          /\ n + 1 \in 1..Len(args) /\ n + 1 \in Nat
      BY <1>1
    <2>2. h[n + 1] = IF more[n + 1] = arg THEN h[n] ELSE Append(h[n], more[n + 1])
      BY <1>3, <2>1 DEF Keeps
    <2>3. g[n + 1] = IF args[n + 1] = arg THEN g[n] ELSE Append(g[n], args[n + 1])
      BY <1>2, <2>1 DEF Keeps
    <2>4. h[n] = g[n] /\ more[n + 1] = args[n + 1]
      BY <1>1, <1>5, <2>1
    <2>5. h[n + 1] = g[n + 1]
      BY <2>2, <2>3, <2>4
    <2> QED
      BY <2>1, <2>5
  <1>6. h[Len(args)] = g[Len(args)]
    <2>1. Len(args) \in T
      <3> HIDE DEF T
      <3>1. \A n \in 0..Len(args) : n \in T
        BY <1>1, <1>4, <1>5, Upto
      <3> QED
        BY <1>1, <3>1
    <2> QED
      BY <2>1
  <1>7. h[Len(more)] = h[Len(args)]
    <2>1. Len(more) \in 0..Len(more) /\ Len(more) # 0 /\ Len(more) - 1 = Len(args)
      BY <1>1
    <2> DEFINE k == Len(more)
    <2>2. k \in 0..k /\ k # 0 /\ k - 1 = Len(args) /\ more[k] = arg /\ k = Len(more)
      BY <1>1, <2>1
    <2> HIDE DEF k
    <2>3. h[k] = IF more[k] = arg THEN h[k - 1] ELSE Append(h[k - 1], more[k])
      BY <1>3, <2>2 DEF Keeps
    <2> QED
      BY <2>2, <2>3
  <1> QED
    BY <1>2, <1>3, <1>6, <1>7 DEF more

(* The arguments setup lists are taken out, and the author's lines picked.  *)
OwnM(s) == Owned([i \in DOMAIN s |-> Unlisted(s[i])])

Unlists(r, s) == Len(r) = Len(s) /\ \A i \in 1..Len(s) : r[i] = Unlisted(s[i])

LEMMA UnlistedIs ==
  ASSUME NEW item \in CMakeItems
  PROVE  /\ Unlisted(item) \in CMakeItems
         /\ Unlisted(item).own = item.own /\ Unlisted(item).t = item.t
         /\ item.t \notin Commands => Unlisted(item) = item
  <1>1. CASE item.t \notin Commands
    BY <1>1 DEF Unlisted
  <1>2. CASE item.t \in Commands
    <2> DEFINE args == Without(item.args, "mcp.c")
    <2>1. item \in CMakeCalls
      BY <1>2 DEF CMakeItems
    <2>2. item.args \in Seq(Sources \cup References)
      BY <2>1 DEF CMakeCalls
    <2>3. args \in Seq((Sources \cup References) \ {"mcp.c"})
      BY <2>2, WithoutType
    <2> HIDE DEF args
    <2>4. args \in Seq(Sources \cup References)
      BY <2>3
    <2>5. Unlisted(item) = [item EXCEPT !.args = args]
      BY <1>2 DEF Unlisted, args
    <2>6. /\ [item EXCEPT !.args = args] \in CMakeCalls
          /\ [item EXCEPT !.args = args].own = item.own /\ [item EXCEPT !.args = args].t = item.t
      BY <2>1, <2>4 DEF CMakeCalls
    <2>7. [item EXCEPT !.args = args] \in CMakeItems
      BY <2>6 DEF CMakeItems
    <2> QED
      BY <1>2, <2>5, <2>6, <2>7
  <1> QED
    BY <1>1, <1>2

LEMMA UnlistingIs ==
  ASSUME NEW s \in Seq(CMakeItems), NEW r, r = [i \in DOMAIN s |-> Unlisted(s[i])]
  PROVE  r \in Seq(CMakeItems) /\ Unlists(r, s)
  <1>1. DOMAIN s = 1..Len(s) /\ Len(s) \in Nat /\ \A i \in 1..Len(s) : s[i] \in CMakeItems
    BY LenProperties, ElementOfSeq
  <1>2. \A i \in 1..Len(s) : Unlisted(s[i]) \in CMakeItems
    BY <1>1, UnlistedIs
  <1>3. r \in Seq(CMakeItems)
    BY <1>1, <1>2
  <1>4. DOMAIN r = 1..Len(s)
    BY <1>1
  <1>5. Len(r) = Len(s)
    BY <1>1, <1>3, <1>4, LenProperties
  <1>6. \A i \in 1..Len(s) : r[i] = Unlisted(s[i])
    BY <1>1
  <1> QED
    BY <1>3, <1>5, <1>6 DEF Unlists

LEMMA UnlistedSame ==
  ASSUME NEW s \in Seq(CMakeItems), NEW r \in Seq(CMakeItems), Len(r) = Len(s),
         \A i \in 1..Len(s) : Unlisted(r[i]) = Unlisted(s[i])
  PROVE  OwnM(r) = OwnM(s)
  <1> DEFINE p == [i \in DOMAIN s |-> Unlisted(s[i])]
             q == [i \in DOMAIN r |-> Unlisted(r[i])]
  <1>1. OwnM(s) = Owned(p) /\ OwnM(r) = Owned(q)
    BY DEF OwnM
  <1>2. p \in Seq(CMakeItems) /\ Unlists(p, s)
    BY UnlistingIs
  <1>3. q \in Seq(CMakeItems) /\ Unlists(q, r)
    BY UnlistingIs
  <1> HIDE DEF p, q
  <1>4. Len(q) = Len(p) /\ \A i \in 1..Len(p) : q[i] = p[i]
    BY <1>2, <1>3 DEF Unlists
  <1>5. Owned(q) = Owned(p)
    BY <1>2, <1>3, <1>4, OwnedSame
  <1> QED
    BY <1>1, <1>5

LEMMA UnlistedWithBlock ==
  ASSUME NEW s \in Seq(CMakeItems), NEW r \in Seq(CMakeItems), NEW i, WithBlock(r, s, i)
  PROVE  OwnM(r) = OwnM(s)
  <1> DEFINE p == [j \in DOMAIN s |-> Unlisted(s[j])]
             q == [j \in DOMAIN r |-> Unlisted(r[j])]
  <1>1. OwnM(s) = Owned(p) /\ OwnM(r) = Owned(q)
    BY DEF OwnM
  <1>2. p \in Seq(CMakeItems) /\ Len(p) = Len(s) /\ \A j \in 1..Len(s) : p[j] = Unlisted(s[j])
    BY UnlistingIs DEF Unlists
  <1>3. q \in Seq(CMakeItems) /\ Len(q) = Len(r) /\ \A j \in 1..Len(r) : q[j] = Unlisted(r[j])
    BY UnlistingIs DEF Unlists
  <1> HIDE DEF p, q
  <1>4. /\ Len(s) \in Nat /\ i \in Nat /\ i <= Len(s) /\ Len(r) = Len(s) + 3
        /\ \A j \in 1..i : r[j] = s[j]
        /\ \A j \in (i + 1)..Len(s) : r[j + 3] = s[j]
    BY LenProperties DEF WithBlock
  <1>5. \A j \in 1..i : q[j] = p[j]
    <2> TAKE j \in 1..i
    <2>1. j \in 1..Len(s) /\ j \in 1..Len(r) /\ r[j] = s[j]
      BY <1>4
    <2> QED
      BY <1>2, <1>3, <2>1
  <1>6. \A j \in (i + 1)..Len(s) : q[j + 3] = p[j]
    <2> TAKE j \in (i + 1)..Len(s)
    <2>1. j \in 1..Len(s) /\ j + 3 \in 1..Len(r) /\ r[j + 3] = s[j]
      BY <1>4
    <2> QED
      BY <1>2, <1>3, <2>1
  <1>7. Block(q, i + 1)
    <2>1. /\ (i + 1) \in 1..Len(r) /\ (i + 1) + 1 \in 1..Len(r) /\ (i + 1) + 2 \in 1..Len(r)
          /\ i + 1 \in 1..(Len(q) - 2)
      BY <1>3, <1>4
    <2>2. /\ ~r[i + 1].own /\ ~r[(i + 1) + 1].own /\ ~r[(i + 1) + 2].own
          /\ r[i + 1].t = "BEGIN" /\ r[(i + 1) + 1].t \in Inserted /\ r[(i + 1) + 2].t = "END"
      BY DEF WithBlock, Block
    <2>3. /\ Unlisted(r[i + 1]) = r[i + 1] /\ Unlisted(r[(i + 1) + 1]) = r[(i + 1) + 1]
          /\ Unlisted(r[(i + 1) + 2]) = r[(i + 1) + 2]
      BY <2>2 DEF Unlisted, Inserted, Commands
    <2>4. /\ q[i + 1] = r[i + 1] /\ q[(i + 1) + 1] = r[(i + 1) + 1]
          /\ q[(i + 1) + 2] = r[(i + 1) + 2]
      BY <1>3, <2>1, <2>3
    <2> QED
      BY <2>1, <2>2, <2>4 DEF Block
  <1>8. WithBlock(q, p, i)
    BY <1>2, <1>3, <1>4, <1>5, <1>6, <1>7 DEF WithBlock
  <1>9. Owned(q) = Owned(p)
    BY <1>2, <1>3, <1>8, OwnedWithBlock
  <1> QED
    BY <1>1, <1>9

(* An argument listed is one that is taken out again.                      *)
LEMMA AddHarnessKeeps ==
  ASSUME NEW item \in CMakeItems, item.t \in {"set", "add"}
  PROVE  /\ AddHarness(item).own = item.own /\ AddHarness(item).t = item.t
         /\ AddHarness(item).code = item.code
         /\ AddHarness(item).args = Append(item.args, "mcp.c")
         /\ Unlisted(AddHarness(item)) = Unlisted(item)
  <1> DEFINE new == Append(item.args, "mcp.c")
             args == Without(item.args, "mcp.c")
  <1>1. item \in CMakeCalls
    BY DEF CMakeItems, Commands
  <1>2. item.args \in Seq(Sources \cup References) /\ "mcp.c" \in Sources \cup References
    BY <1>1, ConstantsAssumption DEF CMakeCalls
  <1>3. Without(new, "mcp.c") = args
    BY <1>2, WithoutAppended
  <1>4. AddHarness(item) = [item EXCEPT !.args = new]
    BY DEF AddHarness
  <1> HIDE DEF new, args
  <1>5. /\ AddHarness(item).own = item.own /\ AddHarness(item).t = item.t
        /\ AddHarness(item).code = item.code /\ AddHarness(item).args = new
    BY <1>1, <1>4 DEF CMakeCalls
  <1>6. Unlisted(AddHarness(item)) = [AddHarness(item) EXCEPT !.args = args]
    BY <1>3, <1>5 DEF Unlisted, Commands
  <1>7. Unlisted(item) = [item EXCEPT !.args = args]
    BY DEF Unlisted, Commands, args
  <1>8. [[item EXCEPT !.args = new] EXCEPT !.args = args] = [item EXCEPT !.args = args]
    BY <1>1 DEF CMakeCalls
  <1> QED
    BY <1>4, <1>5, <1>6, <1>7, <1>8 DEF new

(* Some calls of set() and of add_executable() are given the harness.      *)
Lists(r, s) ==
    /\ Len(r) = Len(s)
    /\ \A i \in 1..Len(s) :
         r[i] = s[i] \/ (s[i].t \in {"set", "add"} /\ r[i] = AddHarness(s[i]))

LEMMA ListsKeep ==
  ASSUME NEW s \in Seq(CMakeItems), NEW r \in Seq(CMakeItems), Lists(r, s)
  PROVE  /\ OwnM(r) = OwnM(s)
         /\ Formed(s) => Formed(r)
         /\ \A t : Has(r, t) = Has(s, t)
  <1>1. /\ DOMAIN s = 1..Len(s) /\ DOMAIN r = 1..Len(s) /\ Len(r) = Len(s)
        /\ \A i \in 1..Len(s) : s[i] \in CMakeItems
    BY LenProperties, ElementOfSeq DEF Lists
  <1>2. ASSUME NEW i \in 1..Len(s)
        PROVE  /\ r[i].own = s[i].own /\ r[i].t = s[i].t /\ r[i].code = s[i].code
               /\ Unlisted(r[i]) = Unlisted(s[i])
    <2>1. CASE r[i] = s[i]
      BY <2>1
    <2>2. CASE s[i].t \in {"set", "add"} /\ r[i] = AddHarness(s[i])
      BY <1>1, <2>2, AddHarnessKeeps
    <2> QED
      BY <2>1, <2>2 DEF Lists
  <1>3. OwnM(r) = OwnM(s)
    BY <1>1, <1>2, UnlistedSame
  <1>4. Formed(s) => Formed(r)
    BY <1>1, <1>2, FormedSame
  <1>5. \A t : Has(r, t) = Has(s, t)
    BY <1>1, <1>2 DEF Has, IsCode
  <1> QED
    BY <1>3, <1>4, <1>5

LEMMA SourceListLists ==
  ASSUME NEW s \in Seq(CMakeItems), NEW game
  PROVE  Lists(PatchCMakeSourceList(s, game), s)
  <1> DEFINE List(item) == item.t = "set" /\ item.alone /\ BuildsGame(ToSet(item.args), game)
             list == SelectInSeq(s, LAMBDA item : List(item))
             L == {i \in 1..Len(s) : List(s[i])}
             Target(item) == /\ item.t = "add" /\ "mcp.c" \notin ToSet(item.args)
                             /\ TargetBuildsGame(s, ToSet(item.args), game)
             new == [i \in DOMAIN s |-> IF Target(s[i]) THEN AddHarness(s[i]) ELSE s[i]]
             r == PatchCMakeSourceList(s, game)
  <1>1. DOMAIN s = 1..Len(s) /\ Len(s) \in Nat
    BY LenProperties
  <1>2. r = IF list # 0 THEN [s EXCEPT ![list] = AddHarness(@)] ELSE new
    BY DEF PatchCMakeSourceList
  <1>3. r \in Seq(CMakeItems)
    BY SourceListType
  <1> HIDE DEF r
  <1>4. ASSUME list # 0 PROVE Lists(r, s)
    <2>1. L # {} /\ list = Min(L)
      BY <1>4 DEF SelectInSeq
    <2>2. L \in SUBSET Nat
      BY <1>1
    <2>3. list \in L
      <3> HIDE DEF L, list
      <3> QED
        BY <2>1, <2>2, MinInSet
    <2>4. list \in 1..Len(s) /\ s[list].t = "set"
      <3> HIDE DEF list
      <3> QED
        BY <2>3
    <2>5. r = [s EXCEPT ![list] = AddHarness(@)]
      BY <1>2, <1>4
    <2> HIDE DEF list, L
    <2>6. DOMAIN r = DOMAIN s /\ \A i \in 1..Len(s) : r[i] = IF i = list THEN AddHarness(s[i]) ELSE s[i]
      BY <1>1, <2>4, <2>5
    <2>7. Len(r) = Len(s)
      BY <1>1, <1>3, <2>6, LenProperties
    <2>8. ASSUME NEW i \in 1..Len(s)
          PROVE  r[i] = s[i] \/ (s[i].t \in {"set", "add"} /\ r[i] = AddHarness(s[i]))
      <3>1. CASE i = list
        BY <2>4, <2>6, <3>1
      <3>2. CASE i # list
        BY <2>6, <3>2
      <3> QED
        BY <3>1, <3>2
    <2> QED
      BY <2>7, <2>8 DEF Lists
  <1>5. ASSUME list = 0 PROVE Lists(r, s)
    <2>1. r = new
      BY <1>2, <1>5
    <2> HIDE DEF list
    <2>2. DOMAIN r = DOMAIN s
      BY <2>1
    <2>3. Len(r) = Len(s)
      BY <1>1, <1>3, <2>2, LenProperties
    <2>4. ASSUME NEW i \in 1..Len(s)
          PROVE  r[i] = s[i] \/ (s[i].t \in {"set", "add"} /\ r[i] = AddHarness(s[i]))
      <3>1. r[i] = IF Target(s[i]) THEN AddHarness(s[i]) ELSE s[i]
        BY <1>1, <2>1
      <3>2. Target(s[i]) => s[i].t \in {"set", "add"}
        OBVIOUS
      <3> HIDE DEF Target
      <3> QED
        BY <3>1, <3>2
    <2> QED
      BY <2>3, <2>4 DEF Lists
  <1> QED
    BY <1>4, <1>5 DEF r

LEMMA IncludeDirectoriesKeeps ==
  ASSUME NEW s \in Seq(CMakeItems), Formed(s)
  PROVE  LET r == PatchCMakeIncludeDirectories(s)
         IN r \in Seq(CMakeItems) /\ Formed(r) /\ OwnM(r) = OwnM(s)
  <1> DEFINE Project(item) == item.t = "project" /\ item.alone
             project == SelectInSeq(s, LAMBDA item : Project(item))
             P == {i \in 1..Len(s) : Project(s[i])}
             line == [t |-> "include_directories", code |-> s[project].code, own |-> FALSE]
             block == MarkerBlock(line)
             new == Insert(s, project, block)
             r == PatchCMakeIncludeDirectories(s)
  <1>1. Len(s) \in Nat
    BY LenProperties
  <1>2. r = IF Has(s, "include_directories") \/ project = 0 THEN s ELSE new
    BY DEF PatchCMakeIncludeDirectories
  <1>4. ASSUME project # 0 PROVE project \in 1..Len(s) /\ s[project].own
    <2>1. P # {} /\ project = Min(P)
      BY <1>4 DEF SelectInSeq
    <2>2. P \in SUBSET Nat
      BY <1>1
    <2>3. project \in P
      <3> HIDE DEF P, project
      <3> QED
        BY <2>1, <2>2, MinInSet
    <2> HIDE DEF project
    <2>4. project \in 1..Len(s) /\ s[project].t = "project"
      BY <2>3
    <2>5. s[project].own
      BY <2>4, FormedOwn DEF Inserted
    <2> QED
      BY <1>1, <2>4, <2>5
  <1> HIDE DEF project
  <1>5. ASSUME project # 0 PROVE new \in Seq(CMakeItems) /\ Formed(new) /\ OwnM(new) = OwnM(s)
    <2>1. project \in 1..Len(s) /\ project \in 0..Len(s) /\ s[project].own
      BY <1>1, <1>4, <1>5
    <2>2. block \in Seq(CMakeItems) /\ line.t \in Inserted /\ ~line.own
      BY <2>1, DirectoriesLine DEF Inserted
    <2> HIDE DEF line
    <2>3. new \in Seq(CMakeItems) /\ WithBlock(new, s, project)
      BY <2>1, <2>2, LineInserted
    <2> HIDE DEF new
    <2>4. Formed(new)
      BY <2>1, <2>3, FormedWithBlock
    <2>5. OwnM(new) = OwnM(s)
      BY <2>3, UnlistedWithBlock
    <2> QED
      BY <2>3, <2>4, <2>5
  <1> HIDE DEF new, r
  <1>6. r \in Seq(CMakeItems) /\ Formed(r) /\ OwnM(r) = OwnM(s)
    BY <1>2, <1>5
  <1> QED
    BY <1>6 DEF r

LEMMA PatchCMakeKeeps ==
  ASSUME NEW s \in Seq(CMakeItems), Formed(s), NEW game, NEW listed, NEW r,
         listed = IF CMakeListsContain(s) THEN s ELSE PatchCMakeSourceList(s, game),
         r = PatchCMakeIncludeDirectories(listed)
  PROVE  r \in Seq(CMakeItems) /\ Formed(r) /\ OwnM(r) = OwnM(s)
  <1>1. listed \in Seq(CMakeItems) /\ Formed(listed) /\ OwnM(listed) = OwnM(s)
    <2>1. PatchCMakeSourceList(s, game) \in Seq(CMakeItems)
      BY SourceListType
    <2>2. Lists(PatchCMakeSourceList(s, game), s)
      BY SourceListLists
    <2> DEFINE u == PatchCMakeSourceList(s, game)
    <2>3. listed = s \/ listed = u
      OBVIOUS
    <2> HIDE DEF u
    <2>4. Formed(u) /\ OwnM(u) = OwnM(s)
      BY <2>1, <2>2, ListsKeep DEF u
    <2> QED
      BY <2>1, <2>3, <2>4 DEF u
  <1> QED
    BY <1>1, IncludeDirectoriesKeeps

(* Teardown takes out what setup listed, then the blocks.                  *)
LEMMA UnlistedTwice ==
  ASSUME NEW item \in CMakeItems
  PROVE  Unlisted(Unlisted(item)) = Unlisted(item)
  <1>1. CASE item.t \notin Commands
    BY <1>1 DEF Unlisted
  <1>2. CASE item.t \in Commands
    <2> DEFINE args == Without(item.args, "mcp.c")
               new == [item EXCEPT !.args = args]
    <2>1. item \in CMakeCalls
      BY <1>2 DEF CMakeItems
    <2>2. item.args \in Seq(Sources \cup References)
      BY <2>1 DEF CMakeCalls
    <2>3. args \in Seq((Sources \cup References) \ {"mcp.c"})
      BY <2>2, WithoutType
    <2>4. Unlisted(item) = new
      BY <1>2 DEF Unlisted
    <2> HIDE DEF args
    <2>5. Without(args, "mcp.c") = args
      BY <2>3, WithoutAbsent
    <2>6. new.args = args /\ new.t = item.t
      BY <2>1 DEF CMakeCalls
    <2>7. [new EXCEPT !.args = args] = new
      BY <2>1 DEF CMakeCalls
    <2> HIDE DEF new
    <2>8. Unlisted(new) = [new EXCEPT !.args = Without(new.args, "mcp.c")]
      BY <1>2, <2>6 DEF Unlisted
    <2> QED
      BY <2>4, <2>5, <2>6, <2>7, <2>8
  <1> QED
    BY <1>1, <1>2

LEMMA RestoreKeeps ==
  ASSUME NEW d \in GameType, d.cmake \in Seq(CMakeItems), Formed(d.cmake)
  PROVE  LET r == TeardownCMakeLists(d).cmake
         IN /\ r \in Seq(CMakeItems) /\ Formed(r) /\ Authored(r)
            /\ OwnM(r) = OwnM(d.cmake)
  <1> DEFINE Filter(item) == IF ~IsCode(item, Commands) THEN item
                             ELSE [item EXCEPT !.args = Without(@, "mcp.c")]
             s == d.cmake
             new == [i \in DOMAIN s |-> Filter(s[i])]
             r == StripMarkerBlocks(new)
             T == {x \in Seq(CMakeItems) : OwnM(x) = OwnM(s)}
  <1>1. /\ s \in Seq(CMakeItems) /\ DOMAIN s = 1..Len(s) /\ Len(s) \in Nat
        /\ \A i \in 1..Len(s) : s[i] \in CMakeItems
    BY LenProperties, ElementOfSeq
  <1>2. ASSUME NEW item \in CMakeItems PROVE Filter(item) \in {item, Unlisted(item)}
    BY DEF IsCode, Unlisted
  <1>3. ASSUME NEW item \in CMakeItems
        PROVE  /\ Filter(item) \in CMakeItems
               /\ Filter(item).own = item.own /\ Filter(item).t = item.t
               /\ Unlisted(Filter(item)) = Unlisted(item)
    <2> DEFINE u == Filter(item)
    <2>1. u = item \/ u = Unlisted(item)
      BY <1>2
    <2> HIDE DEF u
    <2>2. u \in CMakeItems /\ u.own = item.own /\ u.t = item.t /\ Unlisted(u) = Unlisted(item)
      BY <2>1, UnlistedIs, UnlistedTwice
    <2> QED
      BY <2>2 DEF u
  <1>4. TeardownCMakeLists(d) = [d EXCEPT !.cmake = r]
    <2>1. d.cmake # NoFile
      BY NoFileAssumption
    <2> QED
      BY <2>1 DEF TeardownCMakeLists
  <1> HIDE DEF Filter
  <1>5. new \in Seq(CMakeItems)
    BY <1>1, <1>3
  <1>6. DOMAIN new = DOMAIN s /\ \A i \in 1..Len(s) : new[i] = Filter(s[i])
    BY <1>1
  <1>7. Len(new) = Len(s)
    BY <1>1, <1>5, <1>6, LenProperties
  <1> HIDE DEF new
  <1>8. Formed(new)
    <2>1. \A i \in 1..Len(s) : new[i].own = s[i].own /\ new[i].t = s[i].t
      BY <1>1, <1>3, <1>6
    <2>2. Formed(s)
      OBVIOUS
    <2> QED
      BY <1>7, <2>1, <2>2, FormedSame
  <1>9. OwnM(new) = OwnM(s)
    <2>1. \A i \in 1..Len(s) : Unlisted(new[i]) = Unlisted(s[i])
      BY <1>1, <1>3, <1>6
    <2> HIDE DEF s
    <2> QED
      BY <1>1, <1>5, <1>7, <2>1, UnlistedSame
  <1>10. new \in T /\ T \in SUBSET Seq(CMakeItems)
    BY <1>5, <1>9
  <1>11. ASSUME NEW x \in T, NEW y \in Seq(CMakeItems), \E i : WithBlock(x, y, i) PROVE y \in T
    <2>1. PICK i : WithBlock(x, y, i)
      BY <1>11
    <2>2. OwnM(x) = OwnM(y)
      BY <2>1, UnlistedWithBlock
    <2> QED
      BY <2>2
  <1> HIDE DEF T
  <1>12. r \in T /\ Authored(r)
    BY <1>8, <1>10, <1>11, StripClosed
  <1> HIDE DEF r
  <1>13. r \in Seq(CMakeItems) /\ OwnM(r) = OwnM(s)
    BY <1>12 DEF T
  <1>14. Formed(r)
    BY <1>12, <1>13, FormedAuthored
  <1>15. TeardownCMakeLists(d).cmake = r
    BY <1>4 DEF GameType
  <1> QED
    BY <1>12, <1>13, <1>14, <1>15

(* main.lua: the block is the last.                                        *)
LEMMA AppendedBlock ==
  ASSUME NEW s \in Seq(Lines), Formed(s), NEW r, r = s \o MarkerBlock(Line("import"))
  PROVE  r \in Seq(Lines) /\ Formed(r) /\ Owned(r) = Owned(s)
  <1> DEFINE b == MarkerBlock(Line("import"))
  <1>1. Len(b) = 3 /\ b[1] = Marker("BEGIN") /\ b[2] = Line("import") /\ b[3] = Marker("END")
    BY MarkerBlockIs
  <1>2. b \in Seq(Lines)
    BY LineTypes DEF Kinds
  <1>3. r = s \o b
    OBVIOUS
  <1> HIDE DEF b
  <1>4. /\ r \in Seq(Lines) /\ Len(r) = Len(s) + Len(b)
        /\ \A i \in 1..Len(s) : r[i] = s[i]
        /\ \A i \in 1..Len(b) : r[Len(s) + i] = b[i]
    <2>1. s \in Seq(Lines) /\ b \in Seq(Lines)
      BY <1>2
    <2>2. /\ s \o b \in Seq(Lines) /\ Len(s \o b) = Len(s) + Len(b)
          /\ \A i \in 1..Len(s) : (s \o b)[i] = s[i]
          /\ \A i \in 1..Len(b) : (s \o b)[Len(s) + i] = b[i]
      BY <2>1, Concat
    <2> QED
      BY <1>3, <2>2
  <1>5. /\ Len(s) \in Nat /\ 1 \in 1..Len(b) /\ 2 \in 1..Len(b) /\ 3 \in 1..Len(b)
        /\ Len(r) = Len(s) + 3
    BY <1>1, <1>4, LenProperties
  <1>6. r[Len(s) + 1] = b[1] /\ r[Len(s) + 2] = b[2] /\ r[Len(s) + 3] = b[3]
    BY <1>4, <1>5
  <1>7. Block(r, Len(s) + 1)
    <2>1. /\ Len(s) + 1 \in 1..(Len(r) - 2)
          /\ (Len(s) + 1) + 1 = Len(s) + 2 /\ (Len(s) + 1) + 2 = Len(s) + 3
      BY <1>5
    <2>2. /\ ~b[1].own /\ ~b[2].own /\ ~b[3].own
          /\ b[1].t = "BEGIN" /\ b[2].t \in Inserted /\ b[3].t = "END"
      BY <1>1 DEF Marker, Line, Inserted
    <2> QED
      BY <1>6, <2>1, <2>2 DEF Block
  <1>8. WithBlock(r, s, Len(s))
    <2>1. /\ Len(s) \in 0..Len(s)
          /\ \A j \in (Len(s) + 1)..Len(s) : r[j + 3] = s[j]
      BY <1>5
    <2> QED
      BY <1>4, <1>5, <1>7, <2>1 DEF WithBlock
  <1>9. r \in Seq(Lines)
    BY <1>4
  <1>10. Formed(r)
    <2> DEFINE n == Len(s)
    <2>1. WithBlock(r, s, n) /\ n = Len(s)
      BY <1>8
    <2> HIDE DEF n
    <2> QED
      BY <2>1, FormedWithBlock
  <1>11. Owned(r) = Owned(s)
    BY <1>8, <1>9, OwnedWithBlock
  <1> QED
    BY <1>9, <1>10, <1>11

-----------------------------------------------------------------------------
(* A game.                                                                 *)
FilesFormed(d) ==
    /\ \A f \in ToSet(CFiles) : Formed(d.c[f])
    /\ d.cmake # NoFile => Formed(d.cmake)
    /\ d.lua # NoFile => Formed(d.lua)

(* What every write of setup and teardown leaves of the game d in e.       *)
KeptIn(d, e) == FilesFormed(e) /\ Own(e) = Own(d)

LEMMA OwnSame ==
  ASSUME NEW d, NEW e,
         \A f \in ToSet(CFiles) : OwnC(e.c[f]) = OwnC(d.c[f]),
         \/ e.cmake = d.cmake
         \/ e.cmake # NoFile /\ d.cmake # NoFile /\ OwnM(e.cmake) = OwnM(d.cmake),
         \/ e.lua = d.lua
         \/ e.lua # NoFile /\ d.lua # NoFile /\ Owned(e.lua) = Owned(d.lua)
  PROVE  Own(e) = Own(d)
  <1>1. [f \in ToSet(CFiles) |-> OwnC(e.c[f])] = [f \in ToSet(CFiles) |-> OwnC(d.c[f])]
    OBVIOUS
  <1>2. (IF e.cmake = NoFile THEN NoFile ELSE OwnM(e.cmake))
        = (IF d.cmake = NoFile THEN NoFile ELSE OwnM(d.cmake))
    OBVIOUS
  <1>3. (IF e.lua = NoFile THEN NoFile ELSE Owned(e.lua))
        = (IF d.lua = NoFile THEN NoFile ELSE Owned(d.lua))
    OBVIOUS
  <1> QED
    BY <1>1, <1>2, <1>3 DEF Own, OwnC, OwnM

LEMMA FileKept ==
  ASSUME NEW d \in GameType, FilesFormed(d), NEW f, NEW s,
         f \in ToSet(CFiles) => s \in Seq(Lines) /\ Formed(s) /\ OwnC(s) = OwnC(d.c[f])
  PROVE  KeptIn(d, WithFile(d, f, s))
  <1> DEFINE e == WithFile(d, f, s)
  <1>1. /\ e.cmake = d.cmake /\ e.lua = d.lua
        /\ \A g \in ToSet(CFiles) : e.c[g] = IF g = f THEN s ELSE d.c[g]
    BY FileType
  <1> HIDE DEF e
  <1>2. FilesFormed(e)
    BY <1>1 DEF FilesFormed
  <1>3. \A g \in ToSet(CFiles) : OwnC(e.c[g]) = OwnC(d.c[g])
    BY <1>1
  <1>4. Own(e) = Own(d)
    BY <1>1, <1>3, OwnSame
  <1> QED
    BY <1>2, <1>4 DEF KeptIn, e

LEMMA InitKept ==
  ASSUME NEW d \in GameType, FilesFormed(d)
  PROVE  KeptIn(d, PatchEventHandlerInit(d))
  <1> DEFINE f == EventHandler(d.c)
             s == InsertIncludeIfMissing(d.c[f])
             at == First(s, InitForms)
             placed == Insert(s, at, MarkerBlock(Line("init")))
             new == IF Has(s, "init") \/ at = 0 \/ s[at].t = "bare" THEN s ELSE placed
  <1>1. ASSUME f \in ToSet(CFiles)
        PROVE  new \in Seq(Lines) /\ Formed(new) /\ OwnC(new) = OwnC(d.c[f])
    <2>1. d.c[f] \in Seq(Lines) /\ Formed(d.c[f])
      BY <1>1 DEF GameType, FilesFormed
    <2> HIDE DEF f
    <2>2. s \in Seq(Lines) /\ Formed(s) /\ OwnC(s) = OwnC(d.c[f])
      BY <2>1, IncludeKeeps
    <2> HIDE DEF s
    <2>3. at # 0 => at \in 1..Len(s) /\ s[at].t \in InitForms
      BY <2>2, FirstAt DEF IsCode
    <2>4. InitForms \cap ({"BEGIN", "END"} \cup Inserted) = {} /\ "init" \in Inserted
      BY DEF InitForms, Inserted
    <2> HIDE DEF at
    <2>5. ASSUME at # 0
          PROVE  placed \in Seq(Lines) /\ Formed(placed) /\ OwnC(placed) = OwnC(s)
      <3>1. at \in 0..Len(s) /\ s[at].t \notin {"BEGIN", "END"} \cup Inserted
        BY <2>3, <2>4, <2>5
      <3> QED
        BY <2>2, <2>4, <3>1, AuthorInsert
    <2> HIDE DEF placed
    <2> QED
      BY <2>2, <2>5
  <1>2. PatchEventHandlerInit(d) = WithFile(d, f, new)
    BY DEF PatchEventHandlerInit, WithFile
  <1> HIDE DEF f, new
  <1> QED
    BY <1>1, <1>2, FileKept

LEMMA SameKept ==
  ASSUME NEW d, FilesFormed(d)
  PROVE  KeptIn(d, d)
  BY DEF KeptIn

LEMMA UpdateKept ==
  ASSUME NEW d \in GameType, FilesFormed(d)
  PROVE  KeptIn(d, PatchUpdateCallback(d))
  <1> DEFINE f == UpdateFile(d.c)
             at == First(d.c[f], {"update()"})
             new == Insert(d.c[f], at, MarkerBlock(Line("update")))
  <1>1. ASSUME f \in ToSet(CFiles)
        PROVE  new \in Seq(Lines) /\ Formed(new) /\ OwnC(new) = OwnC(d.c[f])
    <2>1. d.c[f] \in Seq(Lines) /\ Formed(d.c[f])
      BY <1>1 DEF GameType, FilesFormed
    <2> HIDE DEF f
    <2>2. at \in 0..Len(d.c[f])
      BY <2>1, FirstInSeq
    <2>3. at # 0 => d.c[f][at].t = "update()"
      BY <2>1, FirstAt DEF IsCode
    <2>4. "update()" \notin {"BEGIN", "END"} \cup Inserted /\ "update" \in Inserted
      BY DEF Inserted
    <2> HIDE DEF at
    <2> QED
      BY <2>1, <2>2, <2>3, <2>4, AuthorInsert
  <1>2. PatchUpdateCallback(d) \in {d, WithFile(d, f, new)}
    BY DEF PatchUpdateCallback, WithFile
  <1> HIDE DEF f, new
  <1> QED
    BY <1>1, <1>2, FileKept, SameKept

LEMMA InputKept ==
  ASSUME NEW d \in GameType, FilesFormed(d), NEW f \in ToSet(CFiles)
  PROVE  KeptIn(d, PatchInputCalls(d, f))
  <1> DEFINE s == Renamed(d.c[f], "input", "wrapper")
             new == InsertIncludeIfMissing(s)
  <1>1. d.c[f] \in Seq(Lines) /\ Formed(d.c[f])
    BY DEF GameType, FilesFormed
  <1>2. s \in Seq(Lines) /\ Formed(s) /\ OwnC(s) = OwnC(d.c[f])
    BY <1>1, WrapKeeps
  <1>3. PatchInputCalls(d, f) \in {d, WithFile(d, f, new)}
    BY DEF PatchInputCalls, WithFile
  <1> HIDE DEF s
  <1>4. new \in Seq(Lines) /\ Formed(new) /\ OwnC(new) = OwnC(d.c[f])
    BY <1>2, IncludeKeeps
  <1> HIDE DEF new
  <1> QED
    BY <1>3, <1>4, FileKept, SameKept

LEMMA CMakeKept ==
  ASSUME NEW d \in GameType, FilesFormed(d), d.cmake \in Seq(CMakeItems)
  PROVE  KeptIn(d, PatchCMakeLists(d))
  <1> DEFINE listed == IF CMakeListsContain(d.cmake) THEN d.cmake
                       ELSE PatchCMakeSourceList(d.cmake, EventHandler(d.c))
             new == PatchCMakeIncludeDirectories(listed)
             e == PatchCMakeLists(d)
  <1>1. d.cmake # NoFile /\ Formed(d.cmake)
    BY NoFileAssumption DEF FilesFormed
  <1>2. new \in Seq(CMakeItems) /\ Formed(new) /\ OwnM(new) = OwnM(d.cmake)
    <2> HIDE DEF listed, new
    <2>1. /\ listed = IF CMakeListsContain(d.cmake) THEN d.cmake
                      ELSE PatchCMakeSourceList(d.cmake, EventHandler(d.c))
          /\ new = PatchCMakeIncludeDirectories(listed)
      BY DEF listed, new
    <2> QED
      BY <1>1, <2>1, PatchCMakeKeeps
  <1>3. e = [d EXCEPT !.cmake = new]
    BY DEF PatchCMakeLists
  <1> HIDE DEF new, e
  <1>4. e.cmake = new /\ e.c = d.c /\ e.lua = d.lua
    BY <1>3 DEF GameType
  <1>5. FilesFormed(e)
    BY <1>2, <1>4 DEF FilesFormed
  <1>6. Own(e) = Own(d)
    <2>1. new # NoFile
      BY <1>2, NoFileAssumption
    <2> QED
      BY <1>1, <1>2, <1>4, <2>1, OwnSame
  <1> QED
    BY <1>5, <1>6 DEF KeptIn, e

LEMMA RestoreKept ==
  ASSUME NEW d \in GameType, FilesFormed(d)
  PROVE  /\ KeptIn(d, TeardownCMakeLists(d))
         /\ TeardownCMakeLists(d).cmake # NoFile => Authored(TeardownCMakeLists(d).cmake)
  <1> DEFINE e == TeardownCMakeLists(d)
  <1>1. CASE d.cmake = NoFile
    <2>1. e = d
      BY <1>1 DEF TeardownCMakeLists
    <2> QED
      BY <1>1, <2>1, SameKept
  <1>2. CASE d.cmake # NoFile
    <2>1. d.cmake \in Seq(CMakeItems) /\ Formed(d.cmake)
      BY <1>2 DEF GameType, FilesFormed
    <2>2. /\ e.cmake \in Seq(CMakeItems) /\ Formed(e.cmake) /\ Authored(e.cmake)
          /\ OwnM(e.cmake) = OwnM(d.cmake)
      BY <2>1, RestoreKeeps
    <2>3. e.c = d.c /\ e.lua = d.lua
      BY RestoreType
    <2> HIDE DEF e
    <2>4. e.cmake # NoFile
      BY <2>2, NoFileAssumption
    <2>5. FilesFormed(e)
      BY <2>2, <2>3 DEF FilesFormed
    <2>6. Own(e) = Own(d)
      BY <1>2, <2>2, <2>3, <2>4, OwnSame
    <2> QED
      BY <2>2, <2>5, <2>6 DEF KeptIn, e
  <1> QED
    BY <1>1, <1>2

LEMMA LuaKept ==
  ASSUME NEW d \in GameType, FilesFormed(d), d.lua \in Seq(Lines)
  PROVE  KeptIn(d, PatchLuaMain(d)) /\ KeptIn(d, StripLuaMain(d))
  <1> DEFINE placed == d.lua \o MarkerBlock(Line("import"))
             stripped == StripMarkerBlocks(d.lua)
  <1>1. Formed(d.lua) /\ d.lua # NoFile
    BY NoFileAssumption DEF FilesFormed
  <1>2. placed \in Seq(Lines) /\ Formed(placed) /\ Owned(placed) = Owned(d.lua)
    BY <1>1, AppendedBlock
  <1>3. stripped \in Seq(Lines) /\ Formed(stripped) /\ Owned(stripped) = Owned(d.lua)
    BY <1>1, StripKeeps
  <1>4. PatchLuaMain(d) \in {d, [d EXCEPT !.lua = placed]}
    BY DEF PatchLuaMain
  <1>5. StripLuaMain(d) = [d EXCEPT !.lua = stripped]
    BY <1>1 DEF StripLuaMain
  <1>6. ASSUME NEW s \in Seq(Lines), Formed(s), Owned(s) = Owned(d.lua)
        PROVE  KeptIn(d, [d EXCEPT !.lua = s])
    <2> DEFINE e == [d EXCEPT !.lua = s]
    <2>1. e.lua = s /\ e.c = d.c /\ e.cmake = d.cmake
      BY DEF GameType
    <2> HIDE DEF e
    <2>2. FilesFormed(e)
      BY <1>6, <2>1 DEF FilesFormed
    <2>3. s # NoFile
      BY NoFileAssumption
    <2>4. Own(e) = Own(d)
      BY <1>1, <1>6, <2>1, <2>3, OwnSame
    <2> QED
      BY <2>2, <2>4 DEF KeptIn, e
  <1> HIDE DEF placed, stripped
  <1> QED
    BY <1>2, <1>3, <1>4, <1>5, <1>6, SameKept

LEMMA CopiesKept ==
  ASSUME NEW d \in GameType, FilesFormed(d), NEW e,
         e.c = d.c, e.cmake = d.cmake, e.lua = d.lua
  PROVE  KeptIn(d, e)
  <1>1. FilesFormed(e)
    BY DEF FilesFormed
  <1>2. Own(e) = Own(d)
    BY OwnSame
  <1> QED
    BY <1>1, <1>2 DEF KeptIn

LEMMA SetupKeeps ==
  ASSUME NEW d \in GameType, FilesFormed(d), NEW step \in SetupSteps, Readable(step, d)
  PROVE  KeptIn(d, After(step, d))
  <1>1. ASSUME NEW name \in Harness, step = <<"copy", name>> PROVE KeptIn(d, After(step, d))
    <2> DEFINE e == After(step, d)
    <2>1. e = [d EXCEPT !.copies[name] = version]
      BY <1>1 DEF After
    <2>2. e.c = d.c /\ e.cmake = d.cmake /\ e.lua = d.lua
      BY <2>1 DEF GameType
    <2> HIDE DEF e
    <2>3. KeptIn(d, e)
      BY <2>2, CopiesKept
    <2> QED
      BY <2>3 DEF e
  <1>2. CASE step = <<"patch init">>
    <2>1. After(step, d) = PatchEventHandlerInit(d)
      BY <1>2 DEF After
    <2> QED
      BY <2>1, InitKept
  <1>3. CASE step = <<"patch update">>
    <2>1. After(step, d) = PatchUpdateCallback(d)
      BY <1>3 DEF After
    <2> QED
      BY <2>1, UpdateKept
  <1>4. ASSUME NEW f \in ToSet(CFiles), step = <<"patch input", f>>
        PROVE  KeptIn(d, After(step, d))
    <2>1. After(step, d) = PatchInputCalls(d, f)
      BY <1>4 DEF After
    <2> QED
      BY <2>1, InputKept
  <1>5. CASE step = <<"patch CMakeLists.txt">>
    <2>1. After(step, d) = PatchCMakeLists(d)
      BY <1>5 DEF After
    <2>2. d.cmake \in Seq(CMakeItems)
      BY <1>5 DEF Readable, GameType
    <2> QED
      BY <2>1, <2>2, CMakeKept
  <1>6. CASE step = <<"patch main.lua">>
    <2>1. After(step, d) = PatchLuaMain(d)
      BY <1>6 DEF After
    <2>2. d.lua \in Seq(Lines)
      BY <1>6 DEF Readable, GameType
    <2> QED
      BY <2>1, <2>2, LuaKept
  <1> QED
    BY <1>1, <1>2, <1>3, <1>4, <1>5, <1>6, StepNames DEF WiringC

LEMMA TeardownKeeps ==
  ASSUME NEW d \in GameType, FilesFormed(d), NEW step \in TeardownSteps
  PROVE  KeptIn(d, After(step, d))
  <1>1. ASSUME NEW name \in Harness, step = <<"remove", name>> PROVE KeptIn(d, After(step, d))
    <2> DEFINE e == After(step, d)
    <2>1. e = d \/ e = [d EXCEPT !.copies[name] = 0]
      BY <1>1 DEF After
    <2>2. e.c = d.c /\ e.cmake = d.cmake /\ e.lua = d.lua
      BY <2>1 DEF GameType
    <2> HIDE DEF e
    <2>3. KeptIn(d, e)
      BY <2>2, CopiesKept
    <2> QED
      BY <2>3 DEF e
  <1>2. ASSUME NEW f \in ToSet(CFiles), step = <<"strip", f>> PROVE KeptIn(d, After(step, d))
    <2>1. After(step, d) = WithFile(d, f, StripMarkerBlocks(d.c[f]))
      BY <1>2 DEF After, WithFile
    <2>2. d.c[f] \in Seq(Lines) /\ Formed(d.c[f])
      BY DEF GameType, FilesFormed
    <2> DEFINE s == StripMarkerBlocks(d.c[f])
    <2>3. s \in Seq(Lines) /\ Formed(s) /\ OwnC(s) = OwnC(d.c[f])
      BY <2>2, StripKeeps
    <2> HIDE DEF s
    <2>4. KeptIn(d, WithFile(d, f, s))
      BY <2>3, FileKept
    <2> QED
      BY <2>1, <2>4 DEF s
  <1>3. CASE step = <<"restore CMakeLists.txt">>
    <2>1. After(step, d) = TeardownCMakeLists(d)
      BY <1>3 DEF After
    <2> QED
      BY <2>1, RestoreKept
  <1>4. CASE step = <<"strip main.lua">>
    <2>1. After(step, d) = StripLuaMain(d)
      BY <1>4 DEF After
    <2>2. CASE d.lua = NoFile
      <3>1. After(step, d) = d
        BY <2>1, <2>2 DEF StripLuaMain
      <3> QED
        BY <3>1, SameKept
    <2>3. CASE d.lua \in Seq(Lines)
      BY <2>1, <2>3, LuaKept
    <2> QED
      BY <2>2, <2>3 DEF GameType
  <1> QED
    BY <1>1, <1>2, <1>3, <1>4, StepNames

-----------------------------------------------------------------------------
(* The invariant: every block in the files is whole, and what is in none   *)
(* is the author's.                                                        *)
HiddenFormed == \A f \in DOMAIN hidden : Formed(hidden[f])

KeptInv == DanglingInv /\ HiddenTypes /\ FilesFormed(disk) /\ HiddenFormed /\ GameKept

(* What cannot be read is kept when what can be read is.                    *)
LEMMA WithHiddenIs ==
  ASSUME NEW d \in GameType
  PROVE  /\ WithHidden(d).c = [f \in ToSet(CFiles) |-> IF f \in DOMAIN hidden THEN hidden[f] ELSE d.c[f]]
         /\ WithHidden(d).cmake = d.cmake /\ WithHidden(d).lua = d.lua
         /\ WithHidden(d).copies = d.copies
  BY DEF WithHidden, GameType

LEMMA HiddenKept ==
  ASSUME NEW d \in GameType, NEW e \in GameType, Own(e) = Own(d)
  PROVE  Own(WithHidden(e)) = Own(WithHidden(d))
  <1>1. ASSUME NEW x
        PROVE  Own(x).c = [f \in ToSet(CFiles) |-> OwnC(x.c[f])]
    BY DEF Own, OwnC
  <1>2. ASSUME NEW f \in ToSet(CFiles)
        PROVE  OwnC(WithHidden(e).c[f]) = OwnC(WithHidden(d).c[f])
    <2>1. Own(e).c[f] = OwnC(e.c[f]) /\ Own(d).c[f] = OwnC(d.c[f])
      BY <1>1
    <2>2. OwnC(e.c[f]) = OwnC(d.c[f])
      BY <2>1
    <2>3. /\ WithHidden(e).c[f] = IF f \in DOMAIN hidden THEN hidden[f] ELSE e.c[f]
          /\ WithHidden(d).c[f] = IF f \in DOMAIN hidden THEN hidden[f] ELSE d.c[f]
      BY WithHiddenIs
    <2> QED
      BY <2>2, <2>3
  <1>3. Own(WithHidden(e)).c = Own(WithHidden(d)).c
    BY <1>1, <1>2
  <1>4. /\ Own(WithHidden(e)).cmake = Own(WithHidden(d)).cmake
        /\ Own(WithHidden(e)).lua = Own(WithHidden(d)).lua
    <2>1. ASSUME NEW x
          PROVE  /\ Own(x).cmake = IF x.cmake = NoFile THEN NoFile ELSE OwnM(x.cmake)
                 /\ Own(x).lua = IF x.lua = NoFile THEN NoFile ELSE Owned(x.lua)
      BY DEF Own, OwnM
    <2>2. ASSUME NEW x \in GameType
          PROVE  Own(WithHidden(x)).cmake = Own(x).cmake /\ Own(WithHidden(x)).lua = Own(x).lua
      <3>1. WithHidden(x).cmake = x.cmake /\ WithHidden(x).lua = x.lua
        BY <2>2, WithHiddenIs
      <3>2. PICK y : y = WithHidden(x)
        OBVIOUS
      <3>3. /\ Own(y).cmake = IF y.cmake = NoFile THEN NoFile ELSE OwnM(y.cmake)
            /\ Own(y).lua = IF y.lua = NoFile THEN NoFile ELSE Owned(y.lua)
        BY <2>1
      <3> QED
        BY <2>1, <3>1, <3>2, <3>3
    <2>3. Own(e).cmake = Own(d).cmake /\ Own(e).lua = Own(d).lua
      OBVIOUS
    <2> QED
      BY <2>2, <2>3
  <1>5. \A x : Own(x) = [c |-> Own(x).c, cmake |-> Own(x).cmake, lua |-> Own(x).lua]
    BY DEF Own
  <1> QED
    BY <1>3, <1>4, <1>5

LEMMA EditFormed ==
  ASSUME KeptInv, NEW d, Edit(d), FilesFormed(d)
  PROVE  FilesFormed(disk)' /\ GameKept'
  <1>1. disk' = d /\ hidden' = hidden /\ own' = Own(WithHidden(d))
    BY DEF Edit
  <1>2. GameKept'
    BY <1>1 DEF GameKept, WithHidden
  <1>3. FilesFormed(disk')
    BY <1>1
  <1> QED
    BY <1>2, <1>3 DEF FilesFormed

LEMMA FollowFormed ==
  ASSUME KeptInv, FollowManualStep
  PROVE  FilesFormed(disk)' /\ GameKept'
  <1>1. PICK t \in told \cap {"init", "update"} :
          LET f == EventHandler(disk.c)
          IN f # NoFile /\ Edit([disk EXCEPT !.c[f] = Append(@, OwnLine(t))])
    BY DEF FollowManualStep
  <1> DEFINE f == EventHandler(disk.c)
             line == OwnLine(t)
             s == Append(disk.c[f], line)
             d == WithFile(disk, f, s)
  <1>2. Edit(d)
    BY <1>1 DEF WithFile
  <1>3. disk \in GameType /\ FilesFormed(disk)
    BY DEF KeptInv, DanglingInv, SetupTypes
  <1>4. line \in Lines /\ line.own /\ line.t \notin {"BEGIN", "END"}
    <2>1. line \in Lines
      BY <1>1, LineTypes DEF Kinds
    <2>2. line.own /\ line.t = t
      BY DEF OwnLine, Line
    <2> QED
      BY <1>1, <2>1, <2>2
  <1> HIDE DEF f, line
  <1>5. ASSUME f \in ToSet(CFiles) PROVE s \in Seq(Lines) /\ Formed(s)
    <2>1. disk.c[f] \in Seq(Lines) /\ Formed(disk.c[f])
      BY <1>3, <1>5 DEF GameType, FilesFormed
    <2> QED
      BY <1>4, <2>1, FormedAppend, AppendProperties
  <1> HIDE DEF s
  <1>6. /\ d.cmake = disk.cmake /\ d.lua = disk.lua
        /\ \A g \in ToSet(CFiles) : d.c[g] = IF g = f THEN s ELSE disk.c[g]
    BY <1>3, <1>5, FileType
  <1> HIDE DEF d
  <1>7. FilesFormed(d)
    BY <1>3, <1>5, <1>6 DEF FilesFormed
  <1> QED
    BY <1>2, <1>7, EditFormed

LEMMA FollowCMakeFormed ==
  ASSUME KeptInv, FollowManualCMakeStep
  PROVE  FilesFormed(disk)' /\ GameKept'
  <1> DEFINE i == First(disk.cmake, {"add"})
             s == [disk.cmake EXCEPT ![i] = AddHarness(@)]
             d == [disk EXCEPT !.cmake = s]
  <1>1. i # 0 /\ Edit([disk EXCEPT !.cmake[i] = AddHarness(@)]) /\ told # {}
    BY DEF FollowManualCMakeStep
  <1>2. /\ disk \in GameType /\ FilesFormed(disk) /\ disk.cmake \in Seq(CMakeItems)
        /\ disk.cmake # NoFile
    BY <1>1, NoFileAssumption DEF KeptInv, DanglingInv, SetupTypes, ToldWithHarness
  <1>3. i \in 1..Len(disk.cmake) /\ disk.cmake[i].t = "add"
    BY <1>1, <1>2, FirstIs
  <1>4. disk.cmake[i] \in CMakeItems
    BY <1>2, <1>3, ElementOfSeq
  <1>5. AddHarness(disk.cmake[i]) \in CMakeItems
    BY <1>3, <1>4, AddHarnessType
  <1>6. Edit(d)
    BY <1>1
  <1> HIDE DEF i
  <1>7. s \in Seq(CMakeItems)
    BY <1>2, <1>3, <1>5, ExceptSeq
  <1>8. Lists(s, disk.cmake)
    <2>1. DOMAIN s = DOMAIN disk.cmake /\ DOMAIN disk.cmake = 1..Len(disk.cmake)
      BY <1>2, LenProperties
    <2>2. Len(s) = Len(disk.cmake)
      BY <1>2, <1>7, <2>1, LenProperties
    <2>3. ASSUME NEW k \in 1..Len(disk.cmake)
          PROVE  \/ s[k] = disk.cmake[k]
                 \/ disk.cmake[k].t \in {"set", "add"} /\ s[k] = AddHarness(disk.cmake[k])
      <3>1. s[k] = IF k = i THEN AddHarness(disk.cmake[k]) ELSE disk.cmake[k]
        BY <1>3, <2>1
      <3> QED
        BY <1>3, <3>1
    <2> HIDE DEF s
    <2> QED
      BY <2>2, <2>3 DEF Lists
  <1> HIDE DEF s
  <1>9. Formed(s)
    BY <1>2, <1>7, <1>8, ListsKeep DEF FilesFormed
  <1>10. d.cmake = s /\ d.c = disk.c /\ d.lua = disk.lua
    BY <1>2 DEF GameType
  <1> HIDE DEF d
  <1>11. FilesFormed(d)
    BY <1>2, <1>9, <1>10 DEF FilesFormed
  <1> QED
    BY <1>6, <1>11, EditFormed

LEMMA UndoFormed ==
  ASSUME KeptInv, UndoInputCalls
  PROVE  FilesFormed(disk)' /\ GameKept'
  <1> DEFINE c == [f \in ToSet(CFiles) |-> Renamed(disk.c[f], "wrapper", "input")]
             d == [disk EXCEPT !.c = c]
  <1>1. Edit(d)
    BY DEF UndoInputCalls
  <1>2. disk \in GameType /\ FilesFormed(disk)
    BY DEF KeptInv, DanglingInv, SetupTypes
  <1>3. \A f \in ToSet(CFiles) : disk.c[f] \in Seq(Lines) /\ Formed(disk.c[f])
    BY <1>2 DEF GameType, FilesFormed
  <1>4. /\ "wrapper" \notin {"BEGIN", "END"} \cup Inserted /\ "input" \in Kinds
        /\ "input" \notin {"BEGIN", "END"}
    BY DEF Inserted, Kinds
  <1>5. \A f \in ToSet(CFiles) : c[f] = Renamed(disk.c[f], "wrapper", "input")
    OBVIOUS
  <1> HIDE DEF c
  <1>6. \A f \in ToSet(CFiles) : Formed(c[f])
    BY <1>3, <1>4, <1>5, FormedRenamed
  <1>7. d.cmake = disk.cmake /\ d.c = c /\ d.lua = disk.lua
    BY <1>2 DEF GameType
  <1> HIDE DEF d
  <1>8. FilesFormed(d)
    BY <1>2, <1>6, <1>7 DEF FilesFormed
  <1> QED
    BY <1>1, <1>8, EditFormed

(* A file that becomes unreadable, or readable again, is what it was.       *)
LEMMA AccessFormed ==
  ASSUME KeptInv, ChangeAccess
  PROVE  FilesFormed(disk)' /\ HiddenFormed' /\ GameKept'
  <1> DEFINE c == [f \in ToSet(CFiles) |-> IF f \in DOMAIN hidden THEN hidden[f] ELSE disk.c[f]]
  <1>1. disk \in GameType /\ FilesFormed(disk) /\ HiddenFormed /\ Own(WithHidden(disk)) = own
    BY DEF KeptInv, DanglingInv, SetupTypes, GameKept
  <1>2. WithHidden(disk).c = c
    BY <1>1, WithHiddenIs
  <1>3. PICK files \in SUBSET ToSet(CFiles) :
          /\ hidden' = [f \in files |-> WithHidden(disk).c[f]]
          /\ disk' = [disk EXCEPT !.c = [f \in ToSet(CFiles) |->
                        IF f \in files THEN <<>> ELSE WithHidden(disk).c[f]]]
    BY DEF ChangeAccess
  <1> DEFINE new == [f \in ToSet(CFiles) |-> IF f \in files THEN <<>> ELSE c[f]]
  <1>4. hidden' = [f \in files |-> c[f]] /\ disk' = [disk EXCEPT !.c = new] /\ own' = own
    BY <1>2, <1>3 DEF ChangeAccess
  <1>5. \A f \in ToSet(CFiles) : Formed(c[f])
    BY <1>1 DEF FilesFormed, HiddenFormed
  <1>6. Formed(<<>>)
    <2>1. <<>> \in Seq(Lines) /\ Authored(<<>>)
      BY DEF Authored
    <2> QED
      BY <2>1, FormedAuthored
  <1>7. c \in [ToSet(CFiles) -> Seq(Lines)]
    BY <1>1 DEF KeptInv, HiddenTypes, GameType
  <1> HIDE DEF c
  <1>8. /\ disk'.c = new /\ disk'.cmake = disk.cmake /\ disk'.lua = disk.lua
        /\ \A f \in ToSet(CFiles) : Formed(new[f])
    BY <1>1, <1>4, <1>5, <1>6 DEF GameType
  <1>9. FilesFormed(disk)'
    BY <1>1, <1>8 DEF FilesFormed
  <1>10. HiddenFormed'
    BY <1>4, <1>5 DEF HiddenFormed
  <1>11. WithHidden(disk)' = WithHidden(disk)
    <2>1. [f \in ToSet(CFiles) |-> IF f \in DOMAIN hidden' THEN hidden'[f] ELSE new[f]] = c
      BY <1>4, <1>7
    <2>2. WithHidden(disk)' = [disk' EXCEPT !.c = c]
      BY <1>8, <2>1 DEF WithHidden
    <2>3. WithHidden(disk) = [disk EXCEPT !.c = c]
      BY <1>1 DEF WithHidden, c
    <2>4. disk' = [disk EXCEPT !.c = new]
      BY <1>4
    <2> HIDE DEF new
    <2> QED
      BY <1>1, <2>2, <2>3, <2>4 DEF GameType
  <1>12. GameKept'
    BY <1>1, <1>4, <1>11 DEF GameKept
  <1> QED
    BY <1>9, <1>10, <1>12

LEMMA KeptInit ==
  ASSUME Init
  PROVE  KeptInv
  <1>1. DanglingInv /\ HiddenTypes
    BY DanglingInit
  <1>2. disk \in Games /\ own = Own(disk) /\ DOMAIN hidden = {}
    BY DEF Init
  <1>3. disk \in GameType
    BY <1>2, GamesAssumption
  <1>4. \A f \in ToSet(CFiles) : disk.c[f] \in Seq(Lines) /\ Authored(disk.c[f])
    BY <1>2, <1>3, AuthorsAssumption DEF GameType
  <1>5. disk.cmake # NoFile => disk.cmake \in Seq(CMakeItems) /\ Authored(disk.cmake)
    BY <1>2, <1>3, AuthorsAssumption DEF GameType
  <1>6. disk.lua # NoFile => disk.lua \in Seq(Lines) /\ Authored(disk.lua)
    BY <1>2, <1>3, AuthorsAssumption DEF GameType
  <1>7. FilesFormed(disk)
    BY <1>4, <1>5, <1>6, FormedAuthored DEF FilesFormed
  <1>8. WithHidden(disk) = disk
    BY <1>2, <1>3 DEF WithHidden, GameType
  <1> QED
    BY <1>1, <1>2, <1>7, <1>8 DEF KeptInv, HiddenFormed, GameKept

LEMMA KeptNext ==
  ASSUME KeptInv, [Next]_vars
  PROVE  KeptInv'
  <1> USE DEF KeptInv
  <1>1. DanglingInv' /\ HiddenTypes'
    BY DanglingNext
  <1>2. ASSUME disk' = disk, hidden' = hidden, own' = own
        PROVE  FilesFormed(disk)' /\ HiddenFormed' /\ GameKept'
    BY <1>2 DEF FilesFormed, HiddenFormed, GameKept, WithHidden
  <1>3. CASE Step
    <2> DEFINE step == Head(todo)
               e == After(step, disk)
    <2>1. /\ Readable(step, disk) /\ disk' = e /\ own' = own /\ todo # <<>>
          /\ hidden' = hidden
      BY <1>3 DEF Step
    <2>2. disk \in GameType /\ (step \in SetupSteps \/ step \in TeardownSteps)
      <3>1. todo \in Seq(SetupSteps) \/ todo \in Seq(TeardownSteps)
        BY DEF DanglingInv, SetupTypes
      <3> QED
        BY <2>1, <3>1, HeadTailProperties DEF DanglingInv, SetupTypes
    <2> HIDE DEF step
    <2>3. KeptIn(disk, e)
      BY <2>1, <2>2, SetupKeeps, TeardownKeeps
    <2> HIDE DEF e
    <2>4. FilesFormed(disk') /\ Own(disk') = Own(disk)
      BY <2>1, <2>3 DEF KeptIn
    <2>5. GameKept'
      <3>1. disk' \in GameType
        BY <1>1 DEF DanglingInv, SetupTypes
      <3>2. Own(WithHidden(disk')) = Own(WithHidden(disk))
        BY <2>2, <2>4, <3>1, HiddenKept
      <3>3. WithHidden(disk)' = WithHidden(disk')
        BY <2>1 DEF WithHidden
      <3> QED
        BY <2>1, <3>2, <3>3 DEF GameKept
    <2> QED
      BY <1>1, <2>1, <2>4, <2>5 DEF FilesFormed, HiddenFormed
  <1>4. ASSUME NEW tool \in {"setup", "teardown"}, NEW language, Call(tool, language)
        PROVE  KeptInv'
    <2>1. disk' = disk /\ hidden' = hidden /\ own' = own
      BY <1>4 DEF Call
    <2> QED
      BY <1>1, <1>2, <2>1
  <1>5. ASSUME NEW tool \in {"setup", "teardown"}, CallDetected(tool) PROVE KeptInv'
    BY <1>4, <1>5 DEF CallDetected
  <1>6. CASE Overlook \/ Fail \/ UpgradeServer \/ UNCHANGED vars
    <2>1. disk' = disk /\ hidden' = hidden /\ own' = own
      BY <1>6 DEF Overlook, Fail, UpgradeServer, vars
    <2> QED
      BY <1>1, <1>2, <2>1
  <1>7. CASE FollowManualStep \/ FollowManualCMakeStep \/ UndoInputCalls
    <2>1. HiddenFormed'
      BY <1>7 DEF FollowManualStep, FollowManualCMakeStep, UndoInputCalls, Edit, HiddenFormed
    <2> QED
      BY <1>1, <1>7, <2>1, FollowFormed, FollowCMakeFormed, UndoFormed
  <1>8. CASE ChangeAccess
    BY <1>1, <1>8, AccessFormed
  <1> QED
    BY <1>3, <1>4, <1>5, <1>6, <1>7, <1>8 DEF Next

(* In games of any size and through any number of calls, failures, repeats
   and upgrades, in any order: every line that the author wrote is there once
   and in its place, and is what it was but for the wrapper that reads its
   input and for the harness in its source list (markers.go, c.go:318 and
   scan.FilterCMakeArgs). *)
THEOREM GameKeptCorrect == Spec => []GameKept
  <1>1. KeptInv => GameKept
    BY DEF KeptInv
  <1> QED
    BY <1>1, KeptInit, KeptNext, PTL DEF Spec

-----------------------------------------------------------------------------
(* A teardown is all or nothing.  The call and the writes it has left go   *)
(* together; what each write of a teardown undoes is undone when it is not *)
(* left, and what has begun finds no harness outside of the blocks.        *)

CallTypes == [tool : {"none", "setup", "teardown"}, language : {"none"} \cup Languages,
              state : {"none", "running", "done", "failed"}]

TodoOfCall ==
    /\ call \in CallTypes
    /\ (todo # <<>>) <=> (call.state = "running")
    /\ call.tool = "none" => todo = <<>>
    /\ call.tool = "setup" => todo \in Seq(SetupSteps)
    /\ call.tool = "teardown" => todo \in Seq(TeardownSteps)
    /\ call.language # "c" => \A i \in DOMAIN todo : todo[i] \notin Stripping

Left(x) == \E i \in DOMAIN todo : todo[i] = x

Torn ==
    /\ \/ Left(<<"restore CMakeLists.txt">>) \/ disk.cmake = NoFile
       \/ Authored(disk.cmake) /\ ~CMakeListsContain(disk.cmake)
    /\ \A f \in ToSet(CFiles) :
         \/ Left(<<"strip", f>>)
         \/ Authored(disk.c[f]) /\ \A t \in Wrapping : ~Has(disk.c[f], t)
    /\ \A name \in {"mcp.h", "mcp.c"} \ unseen : Left(<<"remove", name>>) \/ disk.copies[name] = 0

TeardownWhole ==
    call.tool = "teardown" /\ call.language = "c" =>
      \/ call.state = "done" /\ disk = start
      \/ call.state \in {"running", "done"} /\ ~HasUnmarkedHarnessReference(disk.c) /\ Torn
      \/ call.state = "failed" /\ ~HasUnmarkedHarnessReference(disk.c)

WholeInv == KeptInv /\ TodoOfCall /\ TeardownWhole

LEMMA LeftRest ==
  ASSUME NEW S, todo \in Seq(S), todo # <<>>, todo' = Tail(todo)
  PROVE  \A x : Left(x) <=> x = Head(todo) \/ Left(x)'
  <1>1. /\ todo' \in Seq(S) /\ Len(todo') = Len(todo) - 1 /\ Head(todo) = todo[1]
        /\ \A i \in 1..Len(todo') : todo'[i] = todo[i + 1]
    BY HeadTailProperties
  <1>2. DOMAIN todo' = 1..Len(todo') /\ DOMAIN todo = 1..Len(todo) /\ Len(todo) \in Nat
    BY <1>1, LenProperties
  <1>3. Len(todo) >= 1
    BY <1>2, LenProperties, EmptySeq
  <1>4. ASSUME NEW x, Left(x), x # Head(todo) PROVE Left(x)'
    <2>1. PICK i \in DOMAIN todo : todo[i] = x
      BY <1>4 DEF Left
    <2>2. i # 1
      BY <1>1, <1>4, <2>1
    <2>3. i - 1 \in DOMAIN todo' /\ (i - 1) + 1 = i
      BY <1>1, <1>2, <2>1, <2>2
    <2>4. todo'[i - 1] = x
      BY <1>1, <1>2, <2>1, <2>3
    <2> QED
      BY <2>3, <2>4 DEF Left
  <1>5. ASSUME NEW x, Left(x)' PROVE Left(x)
    <2>1. PICK i \in DOMAIN todo' : todo'[i] = x
      BY <1>5 DEF Left
    <2>2. i + 1 \in DOMAIN todo /\ todo[i + 1] = x
      BY <1>1, <1>2, <2>1
    <2> QED
      BY <2>2 DEF Left
  <1>6. Left(Head(todo))
    <2>1. 1 \in DOMAIN todo
      BY <1>2, <1>3
    <2> QED
      BY <1>1, <2>1 DEF Left
  <1> QED
    BY <1>4, <1>5, <1>6

LEMMA LeftSame == todo' = todo => \A x : Left(x)' = Left(x)
  BY DEF Left

(* The writes of a call are those of its tool; only the teardown of a C game
   strips C files.                                                         *)
LEMMA StepsOf ==
  ASSUME NEW d, NEW tool \in {"setup", "teardown"}, NEW language \in Languages
  PROVE  /\ tool = "setup" => Steps(tool, language, d) \in Seq(SetupSteps)
         /\ tool = "teardown" => Steps(tool, language, d) \in Seq(TeardownSteps)
         /\ language = "lua" =>
              \A i \in DOMAIN Steps(tool, language, d) : Steps(tool, language, d)[i] \notin Stripping
  <1>1. CASE tool = "setup"
    <2>1. SetupC(d) \in Seq(SetupSteps) /\ SetupLua \in Seq(SetupSteps)
      BY SetupCSteps, LuaSteps, SeqMonotonic
    <2>2. Steps(tool, language, d) = IF language = "c" THEN SetupC(d) ELSE SetupLua
      BY <1>1 DEF Steps, Languages
    <2>3. Steps(tool, language, d) \in Seq(SetupSteps)
      BY <2>1, <2>2
    <2> DEFINE u == Steps(tool, language, d)
    <2> HIDE DEF u
    <2>4. u \in Seq(SetupSteps)
      BY <2>3 DEF u
    <2>5. \A i \in DOMAIN u : u[i] \in SetupSteps
      BY <2>4, LenProperties, ElementOfSeq
    <2>6. \A i \in DOMAIN u : u[i] \notin Stripping
      BY <2>5, SetupNotRemoving
    <2> QED
      BY <1>1, <2>4, <2>6 DEF u
  <1>2. CASE tool = "teardown" /\ language = "c"
    <2>1. Steps(tool, language, d) = TeardownC(d)
      BY <1>2 DEF Steps
    <2>2. TeardownC(d) \in Seq(TeardownSteps)
      <3>1. CASE HasUnmarkedHarnessReference(d.c)
        BY <3>1 DEF TeardownC
      <3>2. CASE ~HasUnmarkedHarnessReference(d.c)
        BY <3>2, TeardownCSteps
      <3> QED
        BY <3>1, <3>2
    <2> QED
      BY <1>2, <2>1, <2>2
  <1>3. CASE tool = "teardown" /\ language = "lua"
    <2>1. Steps(tool, language, d) = TeardownLua
      BY <1>3 DEF Steps
    <2>2. /\ TeardownLua \in Seq(TeardownSteps) /\ DOMAIN TeardownLua = 1..2
          /\ TeardownLua[1] = <<"strip main.lua">> /\ TeardownLua[2] = <<"remove", "mcp.lua">>
      BY LuaSteps, LenProperties
    <2>3. <<"strip main.lua">> \notin Stripping /\ <<"remove", "mcp.lua">> \notin Stripping
      BY StepDistinct DEF Stripping
    <2>4. \A i \in DOMAIN TeardownLua : TeardownLua[i] \notin Stripping
      <3>1. \A i \in 1..2 : i = 1 \/ i = 2
        OBVIOUS
      <3> QED
        BY <2>2, <2>3, <3>1
    <2> QED
      BY <1>3, <2>1, <2>2, <2>4
  <1> QED
    BY <1>1, <1>2, <1>3 DEF Languages

LEMMA TodoInit == Init => TodoOfCall
  BY DEF Init, TodoOfCall, NoCall, CallTypes

LEMMA TodoOfNewCall ==
  ASSUME NEW tool \in {"setup", "teardown"}, NEW language \in Languages, Call(tool, language)
  PROVE  TodoOfCall'
  <1>1. /\ todo' = Steps(tool, language, disk)
        /\ call' = [tool |-> tool, language |-> language,
                    state |-> IF todo' = <<>> THEN "done" ELSE "running"]
    BY DEF Call
  <1>2. /\ call' \in CallTypes
        /\ (todo' # <<>>) <=> (call'.state = "running")
        /\ call'.tool = tool /\ call'.language = language
    BY <1>1 DEF CallTypes
  <1>3. language # "c" => language = "lua"
    BY DEF Languages
  <1> QED
    BY <1>1, <1>2, <1>3, StepsOf DEF TodoOfCall

LEMMA TodoNext ==
  ASSUME TodoOfCall, SetupTypes, [Next]_vars
  PROVE  TodoOfCall'
  <1>1. ASSUME NEW tool \in {"setup", "teardown"}, CallDetected(tool) PROVE TodoOfCall'
    <2>1. DetectLanguage(disk) \in Languages /\ Call(tool, DetectLanguage(disk))
      BY <1>1 DEF CallDetected, DetectLanguage, Languages
    <2> QED
      BY <2>1, TodoOfNewCall
  <1>2. ASSUME NEW tool \in {"setup", "teardown"}, NEW language \in Languages,
               Call(tool, language)
        PROVE  TodoOfCall'
    BY <1>2, TodoOfNewCall
  <1>3. CASE Step \/ Overlook
    <2>1. /\ todo # <<>> /\ todo' = Tail(todo)
          /\ call' = [call EXCEPT !.state = IF todo' = <<>> THEN "done" ELSE "running"]
      BY <1>3 DEF Step, Overlook
    <2>2. /\ call' \in CallTypes
          /\ (todo' # <<>>) <=> (call'.state = "running")
          /\ call'.tool = call.tool /\ call'.language = call.language
      BY <2>1 DEF TodoOfCall, CallTypes
    <2>3. /\ call.tool # "none"
          /\ call.tool = "setup" => todo' \in Seq(SetupSteps)
          /\ call.tool = "teardown" => todo' \in Seq(TeardownSteps)
      BY <2>1, HeadTailProperties DEF TodoOfCall
    <2>4. call.language # "c" => \A i \in DOMAIN todo' : todo'[i] \notin Stripping
      <3>1. todo \in Seq(SetupSteps) \/ todo \in Seq(TeardownSteps)
        BY DEF SetupTypes
      <3>2. \A i \in DOMAIN todo' : i + 1 \in DOMAIN todo /\ todo'[i] = todo[i + 1]
        BY <2>1, <3>1, Rest
      <3> QED
        BY <3>2 DEF TodoOfCall
    <2> QED
      BY <2>2, <2>3, <2>4 DEF TodoOfCall
  <1>4. CASE Fail
    <2>1. todo # <<>> /\ todo' = <<>> /\ call' = [call EXCEPT !.state = "failed"]
      BY <1>4 DEF Fail
    <2>2. call' \in CallTypes /\ call'.state = "failed"
      BY <2>1 DEF TodoOfCall, CallTypes
    <2> QED
      BY <2>1, <2>2 DEF TodoOfCall
  <1>5. CASE FollowManualStep \/ FollowManualCMakeStep \/ UndoInputCalls
             \/ ChangeAccess \/ UpgradeServer
    <2>1. todo = <<>> /\ todo' = todo /\ call' = NoCall
      BY <1>5 DEF FollowManualStep, FollowManualCMakeStep, UndoInputCalls, ChangeAccess, UpgradeServer, Edit, Idle
    <2> QED
      BY <2>1 DEF TodoOfCall, NoCall, CallTypes
  <1>6. CASE UNCHANGED vars
    BY <1>6 DEF vars, TodoOfCall
  <1> QED
    BY <1>1, <1>2, <1>3, <1>4, <1>5, <1>6 DEF Next

(* What a write of a teardown leaves of a C game.                          *)
Undone(e, d, step) ==
    /\ \A f \in ToSet(CFiles) :
         e.c[f] = IF step = <<"strip", f>> THEN StripMarkerBlocks(d.c[f]) ELSE d.c[f]
    /\ e.cmake = IF step = <<"restore CMakeLists.txt">> THEN TeardownCMakeLists(d).cmake
                 ELSE d.cmake
    /\ \A name \in {"mcp.h", "mcp.c"} :
         e.copies[name] = IF step = <<"remove", name>> THEN 0 ELSE d.copies[name]

LEMMA AfterTeardownIs ==
  ASSUME NEW d \in GameType, NEW step \in TeardownSteps, NEW e, e = After(step, d)
  PROVE  Undone(e, d, step)
  <1>1. ASSUME NEW name \in Harness, step = <<"remove", name>>
        PROVE  /\ e.c = d.c /\ e.cmake = d.cmake
               /\ \A m \in {"mcp.h", "mcp.c"} : e.copies[m] = IF m = name THEN 0 ELSE d.copies[m]
    <2>1. e = IF name = "mcp.lua" /\ KeepsLuaHarness(d) THEN d ELSE [d EXCEPT !.copies[name] = 0]
      BY <1>1 DEF After
    <2> QED
      BY <2>1 DEF GameType, Harness
  <1>2. ASSUME NEW f \in ToSet(CFiles), step = <<"strip", f>>
        PROVE  /\ e.cmake = d.cmake /\ e.copies = d.copies
               /\ \A g \in ToSet(CFiles) :
                    e.c[g] = IF g = f THEN StripMarkerBlocks(d.c[g]) ELSE d.c[g]
    <2>1. e = [d EXCEPT !.c[f] = StripMarkerBlocks(@)]
      BY <1>2 DEF After
    <2> QED
      BY <2>1 DEF GameType
  <1>3. ASSUME step = <<"restore CMakeLists.txt">>
        PROVE  e.c = d.c /\ e.cmake = TeardownCMakeLists(d).cmake /\ e.copies = d.copies
    <2>1. e = TeardownCMakeLists(d)
      BY <1>3 DEF After
    <2> QED
      BY <2>1, RestoreType
  <1>4. ASSUME step = <<"strip main.lua">>
        PROVE  e.c = d.c /\ e.cmake = d.cmake /\ e.copies = d.copies
    <2>1. e = StripLuaMain(d)
      BY <1>4 DEF After
    <2> QED
      BY <2>1, LuaType
  <1>5. \A x, y : /\ <<"remove", x>> # <<"strip", y>> /\ <<"restore CMakeLists.txt">> # <<"strip", y>>
                  /\ <<"restore CMakeLists.txt">> # <<"remove", y>>
                  /\ <<"strip main.lua">> # <<"remove", y>> /\ <<"strip main.lua">> # <<"strip", y>>
                  /\ <<"strip main.lua">> # <<"restore CMakeLists.txt">>
                  /\ (<<"remove", x>> = <<"remove", y>>) = (x = y)
                  /\ (<<"strip", x>> = <<"strip", y>>) = (x = y)
    BY StepDistinct
  <1>6. CASE \E name \in Harness : step = <<"remove", name>>
    <2>1. PICK name \in Harness : step = <<"remove", name>>
      BY <1>6
    <2> QED
      BY <1>1, <1>5, <2>1 DEF Undone
  <1>7. CASE \E f \in ToSet(CFiles) : step = <<"strip", f>>
    <2>1. PICK f \in ToSet(CFiles) : step = <<"strip", f>>
      BY <1>7
    <2> QED
      BY <1>2, <1>5, <2>1 DEF Undone
  <1>8. CASE step = <<"restore CMakeLists.txt">>
    BY <1>3, <1>5, <1>8 DEF Undone
  <1>9. CASE step = <<"strip main.lua">>
    BY <1>4, <1>5, <1>9 DEF Undone
  <1> QED
    BY <1>6, <1>7, <1>8, <1>9, StepNames

(* Before the first write of a teardown of a C game every one is left.     *)
LEMMA TornAtFirst ==
  ASSUME ~HasUnmarkedHarnessReference(disk.c), todo' = TeardownC(disk)
  PROVE  todo' # <<>> /\ Torn'
  <1> DEFINE u == TeardownC(disk)
  <1>1. /\ u \in Seq(TeardownSteps) /\ Len(u) = Len(CFiles) + 3
        /\ u[1] = <<"restore CMakeLists.txt">>
        /\ \A k \in 1..Len(CFiles) : u[k + 1] = <<"strip", CFiles[k]>>
        /\ u[(Len(CFiles) + 1) + 1] = <<"remove", "mcp.h">>
        /\ u[(Len(CFiles) + 1) + 2] = <<"remove", "mcp.c">>
    BY TeardownCSteps
  <1>2. todo' = u
    OBVIOUS
  <1> HIDE DEF u
  <1>3. DOMAIN u = 1..(Len(CFiles) + 3)
    BY <1>1, LenProperties
  <1>4. /\ Len(CFiles) \in Nat /\ 1 \in DOMAIN u
        /\ \A k \in 1..Len(CFiles) : k + 1 \in DOMAIN u
        /\ (Len(CFiles) + 1) + 1 \in DOMAIN u /\ (Len(CFiles) + 1) + 2 \in DOMAIN u
    <2>1. Len(CFiles) \in Nat
      BY FilesType
    <2> QED
      BY <1>3, <2>1
  <1>5. Left(<<"restore CMakeLists.txt">>)'
    BY <1>1, <1>2, <1>4 DEF Left
  <1>6. ASSUME NEW f \in ToSet(CFiles) PROVE Left(<<"strip", f>>)'
    <2>1. PICK k \in 1..Len(CFiles) : f = CFiles[k]
      BY FilesType
    <2> QED
      BY <1>1, <1>2, <1>4, <2>1 DEF Left
  <1>7. \A name \in {"mcp.h", "mcp.c"} : Left(<<"remove", name>>)'
    <2>1. Left(<<"remove", "mcp.h">>)' /\ Left(<<"remove", "mcp.c">>)'
      BY <1>1, <1>2, <1>4 DEF Left
    <2> QED
      BY <2>1
  <1>8. todo' # <<>>
    <2>1. u # <<>>
      <3>1. 1 \notin DOMAIN <<>>
        OBVIOUS
      <3> QED
        BY <1>4, <3>1
    <2> QED
      BY <1>2, <2>1
  <1>9. Torn'
    <2>1. \A name \in {"mcp.h", "mcp.c"} \ unseen' : Left(<<"remove", name>>)'
      BY <1>7
    <2> QED
      BY <1>5, <1>6, <2>1 DEF Torn
  <1> QED
    BY <1>8, <1>9

LEMMA WholeCall ==
  ASSUME WholeInv, NEW tool \in {"setup", "teardown"}, NEW language \in Languages,
         Call(tool, language)
  PROVE  TeardownWhole'
  <1>1. /\ todo' = Steps(tool, language, disk) /\ disk' = disk
        /\ call' = [tool |-> tool, language |-> language,
                    state |-> IF todo' = <<>> THEN "done" ELSE "running"]
        /\ start' = IF call' = [call EXCEPT !.state = call'.state] /\ call.state = "failed"
                    THEN start ELSE disk
    BY DEF Call
  <1>2. CASE ~(tool = "teardown" /\ language = "c")
    <2>1. ~(call'.tool = "teardown" /\ call'.language = "c")
      BY <1>1, <1>2
    <2> QED
      BY <2>1 DEF TeardownWhole
  <1>3. CASE tool = "teardown" /\ language = "c"
    <2>1. todo' = TeardownC(disk)
      BY <1>1, <1>3 DEF Steps
    <2>2. CASE ~HasUnmarkedHarnessReference(disk.c)
      <3>1. todo' # <<>> /\ Torn'
        BY <2>1, <2>2, TornAtFirst
      <3>2. call'.state = "running" /\ ~HasUnmarkedHarnessReference(disk'.c)
        BY <1>1, <2>2, <3>1
      <3> QED
        BY <3>1, <3>2 DEF TeardownWhole
    <2>3. CASE HasUnmarkedHarnessReference(disk.c)
      <3>1. call'.state = "done"
        BY <1>1, <2>1, <2>3 DEF TeardownC
      <3>2. ASSUME call' = [call EXCEPT !.state = call'.state], call.state = "failed"
            PROVE  FALSE
        <4>1. call \in CallTypes /\ call'.tool = "teardown" /\ call'.language = "c"
          BY <1>1, <1>3 DEF WholeInv, TodoOfCall
        <4>2. call.tool = "teardown" /\ call.language = "c"
          BY <3>2, <4>1 DEF CallTypes
        <4> QED
          BY <2>3, <3>2, <4>2 DEF WholeInv, TeardownWhole
      <3>3. disk' = start'
        BY <1>1, <3>2
      <3> QED
        BY <3>1, <3>3 DEF TeardownWhole
    <2> QED
      BY <2>2, <2>3
  <1> QED
    BY <1>2, <1>3

(* A write of a teardown undoes what it is named for, and no other spoils it. *)
LEMMA TornStep ==
  ASSUME WholeInv, Step, Torn, ~HasUnmarkedHarnessReference(disk.c),
         todo \in Seq(TeardownSteps)
  PROVE  ~HasUnmarkedHarnessReference(disk'.c) /\ Torn'
  <1> DEFINE step == Head(todo)
  <1>1. /\ todo # <<>> /\ disk' = After(step, disk) /\ todo' = Tail(todo)
        /\ unseen' = unseen
    BY DEF Step
  <1>2. step \in TeardownSteps
    BY <1>1, HeadTailProperties
  <1>3. disk \in GameType /\ FilesFormed(disk)
    BY DEF WholeInv, KeptInv, DanglingInv, SetupTypes
  <1>4. \A x : Left(x) => x = step \/ Left(x)'
    BY <1>1, LeftRest
  <1> HIDE DEF step
  <1>5. Undone(disk', disk, step)
    <2> DEFINE e == After(step, disk)
    <2>1. e = After(step, disk) /\ disk' = e
      BY <1>1
    <2> HIDE DEF e
    <2> QED
      BY <1>2, <1>3, <2>1, AfterTeardownIs
  <1>6. ASSUME NEW f \in ToSet(CFiles)
        PROVE  /\ Authored(StripMarkerBlocks(disk.c[f]))
               /\ StripMarkerBlocks(disk.c[f]) \in Seq(Lines) /\ disk.c[f] \in Seq(Lines)
               /\ \A t \in Wrapping : ~Has(StripMarkerBlocks(disk.c[f]), t)
    <2>1. disk.c[f] \in Seq(Lines) /\ Formed(disk.c[f])
      BY <1>3 DEF GameType, FilesFormed
    <2>2. \A t \in Wrapping : ~Has(StripMarkerBlocks(disk.c[f]), t)
      BY DEF HasUnmarkedHarnessReference
    <2> QED
      BY <2>1, <2>2, StripKeeps
  <1>7. ASSUME NEW f \in ToSet(CFiles), NEW t \in Wrapping
        PROVE  ~Has(StripMarkerBlocks(disk'.c[f]), t)
    <2>1. disk'.c[f] = disk.c[f] \/ disk'.c[f] = StripMarkerBlocks(disk.c[f])
      BY <1>5 DEF Undone
    <2>2. ~Has(StripMarkerBlocks(StripMarkerBlocks(disk.c[f])), t)
      BY <1>6, StripHas
    <2> QED
      BY <1>6, <2>1, <2>2
  <1>8. \/ Left(<<"restore CMakeLists.txt">>)' \/ disk'.cmake = NoFile
        \/ Authored(disk'.cmake) /\ ~CMakeListsContain(disk'.cmake)
    <2>1. CASE step = <<"restore CMakeLists.txt">>
      <3> DEFINE m == TeardownCMakeLists(disk).cmake
      <3>1. m # NoFile => Authored(m) /\ ~CMakeListsContain(m)
        BY <1>3, RestoreKept, RestoreType DEF Refers
      <3>2. disk'.cmake = m
        BY <1>5, <2>1 DEF Undone
      <3> HIDE DEF m
      <3> QED
        BY <3>1, <3>2
    <2>2. CASE step # <<"restore CMakeLists.txt">>
      <3>1. disk'.cmake = disk.cmake
        BY <1>5, <2>2 DEF Undone
      <3> QED
        BY <1>4, <2>2, <3>1 DEF Torn
    <2> QED
      BY <2>1, <2>2
  <1>9. ASSUME NEW f \in ToSet(CFiles)
        PROVE  \/ Left(<<"strip", f>>)'
               \/ Authored(disk'.c[f]) /\ \A t \in Wrapping : ~Has(disk'.c[f], t)
    <2>1. CASE step = <<"strip", f>>
      BY <1>5, <1>6, <2>1 DEF Undone
    <2>2. CASE step # <<"strip", f>>
      BY <1>4, <1>5, <2>2 DEF Torn, Undone
    <2> QED
      BY <2>1, <2>2
  <1>10. ASSUME NEW name \in {"mcp.h", "mcp.c"} \ unseen
         PROVE  Left(<<"remove", name>>)' \/ disk'.copies[name] = 0
    BY <1>4, <1>5 DEF Torn, Undone
  <1>11. Torn'
    BY <1>1, <1>8, <1>9, <1>10 DEF Torn
  <1> QED
    BY <1>7, <1>11 DEF HasUnmarkedHarnessReference

LEMMA WholeStep ==
  ASSUME WholeInv, Step
  PROVE  TeardownWhole'
  <1>1. /\ todo # <<>>
        /\ call' = [call EXCEPT !.state = IF todo' = <<>> THEN "done" ELSE "running"]
    BY DEF Step
  <1>2. call \in CallTypes /\ call.state = "running"
    BY <1>1 DEF WholeInv, TodoOfCall
  <1>3. /\ call'.state \in {"running", "done"}
        /\ call'.tool = call.tool /\ call'.language = call.language
    BY <1>1, <1>2 DEF CallTypes
  <1>4. CASE call.tool = "teardown" /\ call.language = "c"
    <2>1. Torn /\ ~HasUnmarkedHarnessReference(disk.c) /\ todo \in Seq(TeardownSteps)
      BY <1>2, <1>4 DEF WholeInv, TeardownWhole, TodoOfCall
    <2>2. ~HasUnmarkedHarnessReference(disk'.c) /\ Torn'
      BY <2>1, TornStep
    <2> QED
      BY <1>3, <2>2 DEF TeardownWhole
  <1>5. CASE ~(call.tool = "teardown" /\ call.language = "c")
    BY <1>3, <1>5 DEF TeardownWhole
  <1> QED
    BY <1>4, <1>5

(* A copy that cannot be looked up is the one thing that is left.          *)
LEMMA WholeOverlook ==
  ASSUME WholeInv, Overlook
  PROVE  TeardownWhole'
  <1> DEFINE step == Head(todo)
  <1>1. /\ todo # <<>> /\ step[1] = "remove" /\ todo' = Tail(todo)
        /\ disk' = disk /\ unseen' = unseen \cup {step[2]} /\ start' = start
        /\ call' = [call EXCEPT !.state = IF todo' = <<>> THEN "done" ELSE "running"]
    BY DEF Overlook
  <1>2. call \in CallTypes /\ call.state = "running"
    BY <1>1 DEF WholeInv, TodoOfCall
  <1>3. /\ call'.state \in {"running", "done"}
        /\ call'.tool = call.tool /\ call'.language = call.language
    BY <1>1, <1>2 DEF CallTypes
  <1>4. CASE call.tool = "teardown" /\ call.language = "c"
    <2>1. Torn /\ ~HasUnmarkedHarnessReference(disk.c) /\ todo \in Seq(TeardownSteps)
      BY <1>2, <1>4 DEF WholeInv, TeardownWhole, TodoOfCall
    <2>2. \A x : Left(x) => x = step \/ Left(x)'
      BY <1>1, <2>1, LeftRest
    <2> HIDE DEF step
    <2>3. /\ step # <<"restore CMakeLists.txt">> /\ \A f : step # <<"strip", f>>
          /\ \A name : step = <<"remove", name>> => step[2] = name
      <3>1. /\ <<"restore CMakeLists.txt">>[1] # "remove"
            /\ \A f : <<"strip", f>>[1] # "remove"
            /\ \A name : <<"remove", name>>[2] = name
        OBVIOUS
      <3> QED
        BY <1>1, <3>1
    <2>4. /\ Left(<<"restore CMakeLists.txt">>) => Left(<<"restore CMakeLists.txt">>)'
          /\ \A f \in ToSet(CFiles) : Left(<<"strip", f>>) => Left(<<"strip", f>>)'
          /\ \A name \in {"mcp.h", "mcp.c"} \ unseen' :
                Left(<<"remove", name>>) => Left(<<"remove", name>>)'
      BY <1>1, <2>2, <2>3
    <2>5. \A name \in {"mcp.h", "mcp.c"} \ unseen' : name \in {"mcp.h", "mcp.c"} \ unseen
      BY <1>1
    <2>6. Torn'
      BY <1>1, <2>1, <2>4, <2>5 DEF Torn
    <2> QED
      BY <1>1, <1>3, <2>1, <2>6 DEF TeardownWhole
  <1>5. CASE ~(call.tool = "teardown" /\ call.language = "c")
    BY <1>3, <1>5 DEF TeardownWhole
  <1> QED
    BY <1>4, <1>5

LEMMA WholeInit == Init => WholeInv
  <1> SUFFICES ASSUME Init PROVE WholeInv
    OBVIOUS
  <1>1. KeptInv /\ TodoOfCall
    BY KeptInit, TodoInit
  <1>2. call.tool = "none"
    BY DEF Init, NoCall
  <1> QED
    BY <1>1, <1>2 DEF WholeInv, TeardownWhole

LEMMA WholeNext ==
  ASSUME WholeInv, [Next]_vars
  PROVE  WholeInv'
  <1>1. KeptInv'
    BY KeptNext DEF WholeInv
  <1>2. TodoOfCall'
    BY TodoNext DEF WholeInv, KeptInv, DanglingInv
  <1>3. ASSUME NEW tool \in {"setup", "teardown"}, CallDetected(tool) PROVE TeardownWhole'
    <2>1. DetectLanguage(disk) \in Languages /\ Call(tool, DetectLanguage(disk))
      BY <1>3 DEF CallDetected, DetectLanguage, Languages
    <2> QED
      BY <2>1, WholeCall
  <1>4. ASSUME NEW tool \in {"setup", "teardown"}, NEW language \in Languages,
               Call(tool, language)
        PROVE  TeardownWhole'
    BY <1>4, WholeCall
  <1>5. ASSUME Fail
        PROVE  TeardownWhole'
    <2>1. todo # <<>> /\ call' = [call EXCEPT !.state = "failed"] /\ disk' = disk
      BY <1>5 DEF Fail
    <2>2. call \in CallTypes /\ call.state = "running"
      BY <2>1 DEF WholeInv, TodoOfCall
    <2>3. call'.state = "failed" /\ call'.tool = call.tool /\ call'.language = call.language
      BY <2>1, <2>2 DEF CallTypes
    <2> QED
      BY <2>1, <2>2, <2>3 DEF WholeInv, TeardownWhole
  <1>6. ASSUME FollowManualStep \/ FollowManualCMakeStep \/ UndoInputCalls
               \/ ChangeAccess \/ UpgradeServer
        PROVE  TeardownWhole'
    <2>1. call' = NoCall
      BY <1>6 DEF FollowManualStep, FollowManualCMakeStep, UndoInputCalls, ChangeAccess, UpgradeServer, Edit
    <2> QED
      BY <2>1 DEF TeardownWhole, NoCall
  <1>7. ASSUME UNCHANGED vars
        PROVE  TeardownWhole'
    BY <1>7 DEF vars, WholeInv, TeardownWhole, Torn, Left
  <1>8. TeardownWhole'
    BY <1>3, <1>4, <1>5, <1>6, <1>7, WholeStep, WholeOverlook DEF Next
  <1> QED
    BY <1>1, <1>2, <1>8 DEF WholeInv

(* In games of any size: a teardown of a C game that ends, be it the first
   or one that repeats what failed or what a dead server left, has changed
   nothing of what can be read, or has taken out of it every block and every
   listed source, left only lines of the author that do not refer to the
   harness, and removed both copies but one that could not be looked up
   (c.go:702, c.go:813, setup.go:84). *)
THEOREM TeardownIsWholeCorrect == Spec => []TeardownIsWhole
  <1>1. WholeInv => TeardownIsWhole
    <2> SUFFICES ASSUME WholeInv, call = [tool |-> "teardown", language |-> "c", state |-> "done"],
                        disk # start
                 PROVE  /\ \A f \in ToSet(CFiles) :
                             Authored(disk.c[f]) /\ \A t \in Wrapping : ~Has(disk.c[f], t)
                        /\ disk.cmake # NoFile => Authored(disk.cmake) /\ ~CMakeListsContain(disk.cmake)
                        /\ \A name \in {"mcp.h", "mcp.c"} \ unseen : disk.copies[name] = 0
      BY DEF TeardownIsWhole
    <2>1. call.tool = "teardown" /\ call.language = "c" /\ call.state = "done"
      OBVIOUS
    <2>2. Torn
      BY <2>1 DEF WholeInv, TeardownWhole
    <2>3. todo = <<>>
      BY <2>1 DEF WholeInv, TodoOfCall
    <2>4. \A x : ~Left(x)
      BY <2>3 DEF Left
    <2> QED
      BY <2>2, <2>4 DEF Torn
  <1> QED
    BY <1>1, WholeInit, WholeNext, PTL DEF Spec

-----------------------------------------------------------------------------
(* A setup wires what it says it wires.  What a patch adds to the code of a *)
(* C file and what it leaves.                                              *)

LEMMA HasInclude ==
  ASSUME NEW s \in Seq(Lines)
  PROVE  \A t : Has(InsertIncludeIfMissing(s), t) <=> Has(s, t) \/ t = "mcp.h"
  <1>1. Final(s, {"include"}) \in 0..Len(s)
    BY FinalInSeq
  <1>2. "mcp.h" \in Inserted /\ MarkerBlock(Line("mcp.h")) \in Seq(Lines)
    BY LineTypes DEF Inserted, Kinds
  <1>3. \A t : Has(Insert(s, Final(s, {"include"}), MarkerBlock(Line("mcp.h"))), t)
                 <=> Has(s, t) \/ t = "mcp.h"
    BY <1>1, <1>2, HasInserted
  <1> QED
    BY <1>3 DEF InsertIncludeIfMissing

LEMMA HasRenamed ==
  ASSUME NEW s \in Seq(Lines), NEW from \in Kinds, NEW to \in Kinds, from # to
  PROVE  \A t : Has(Renamed(s, from, to), t)
                  <=> (t # from /\ Has(s, t)) \/ (t = to /\ Has(s, from))
  <1> DEFINE r == Renamed(s, from, to)
  <1>1. r \in Seq(Lines) /\ Renames(r, s, from, to)
    BY RenamedIs
  <1> HIDE DEF r
  <1>2. DOMAIN s = 1..Len(s) /\ DOMAIN r = 1..Len(s)
    BY <1>1, LenProperties DEF Renames
  <1>3. \A i \in 1..Len(s) : /\ r[i].code = s[i].code
                             /\ r[i].t = IF s[i].code /\ s[i].t = from THEN to ELSE s[i].t
    BY <1>1 DEF Renames, IsCode
  <1> QED
    BY <1>2, <1>3 DEF Has, IsCode, r

LEMMA HasAppended ==
  ASSUME NEW s \in Seq(Lines), NEW x
  PROVE  \A t : Has(Append(s, OwnLine(x)), t) <=> Has(s, t) \/ t = x
  <1> DEFINE line == OwnLine(x)
             r == Append(s, line)
  <1>1. line.t = x /\ line.code
    BY DEF OwnLine, Line
  <1> HIDE DEF line
  <1>2. /\ Len(s) \in Nat /\ DOMAIN s = 1..Len(s) /\ DOMAIN r = 1..(Len(s) + 1)
        /\ \A i \in 1..Len(s) : r[i] = s[i]
        /\ r[Len(s) + 1] = line
    <2>1. s \in Seq(Lines \cup {line})
      BY SeqMonotonic
    <2> QED
      BY <2>1, LenProperties, AppendProperties
  <1> HIDE DEF r
  <1>3. \A i \in DOMAIN r : i \in DOMAIN s \/ i = Len(s) + 1
    BY <1>2
  <1>4. Len(s) + 1 \in DOMAIN r /\ \A i \in DOMAIN s : i \in DOMAIN r
    BY <1>2
  <1> QED
    BY <1>1, <1>2, <1>3, <1>4 DEF Has, IsCode, r, line

(* The first line of some types is still the first in front of which and
   after which a block goes in.                                            *)
LEMMA FirstKept ==
  ASSUME NEW S, NEW s \in Seq(S), NEW r \in Seq(S), NEW i, WithBlock(r, s, i), NEW types,
         ~IsCode(r[i + 1], types), ~IsCode(r[i + 2], types), ~IsCode(r[i + 3], types),
         First(s, types) # 0
  PROVE  First(r, types) # 0 /\ r[First(r, types)] = s[First(s, types)]
  <1> DEFINE a == First(s, types)
             b == IF a <= i THEN a ELSE a + 3
             e == First(r, types)
  <1>1. a \in 1..Len(s) /\ IsCode(s[a], types) /\ \A j \in 1..Len(s) : IsCode(s[j], types) => a <= j
    BY FirstAt
  <1>2. e # 0 => e \in 1..Len(r) /\ IsCode(r[e], types)
                 /\ \A j \in 1..Len(r) : IsCode(r[j], types) => e <= j
    BY FirstAt
  <1>3. e = 0 => \A j \in 1..Len(r) : ~IsCode(r[j], types)
    BY FirstNone
  <1> HIDE DEF a, e
  <1>4. /\ Len(s) \in Nat /\ i \in 0..Len(s) /\ Len(r) = Len(s) + 3
        /\ \A j \in 1..i : r[j] = s[j]
        /\ \A j \in (i + 1)..Len(s) : r[j + 3] = s[j]
    BY LenProperties DEF WithBlock
  <1>5. b \in 1..Len(r) /\ r[b] = s[a]
    <2>1. CASE a <= i
      <3>1. a \in 1..i /\ a \in 1..Len(r) /\ b = a
        BY <1>1, <1>4, <2>1
      <3> QED
        BY <1>4, <3>1
    <2>2. CASE ~(a <= i)
      <3>1. a \in (i + 1)..Len(s) /\ a + 3 \in 1..Len(r) /\ b = a + 3
        BY <1>1, <1>4, <2>2
      <3> QED
        BY <1>4, <3>1
    <2> QED
      BY <2>1, <2>2
  <1>6. e # 0 /\ e \in 1..Len(r) /\ IsCode(r[e], types) /\ e <= b
    BY <1>1, <1>2, <1>3, <1>5
  <1>7. e # i + 1 /\ e # i + 2 /\ e # i + 3
    BY <1>6
  <1>8. e \in 1..i \/ (e - 3 \in (i + 1)..Len(s) /\ (e - 3) + 3 = e)
    BY <1>4, <1>6, <1>7
  <1>9. CASE e \in 1..i
    <2>1. r[e] = s[e] /\ e \in 1..Len(s)
      BY <1>4, <1>9
    <2>2. a <= e
      BY <1>1, <1>6, <2>1
    <2>3. e = a
      BY <1>1, <1>4, <1>6, <1>9, <2>2
    <2> QED
      BY <1>6, <2>1, <2>3 DEF a, e
  <1>10. CASE e - 3 \in (i + 1)..Len(s) /\ (e - 3) + 3 = e
    <2>1. r[e] = s[e - 3] /\ e - 3 \in 1..Len(s)
      <3>1. r[(e - 3) + 3] = s[e - 3]
        BY <1>4, <1>10
      <3> QED
        BY <1>4, <1>10, <3>1
    <2>2. a <= e - 3
      BY <1>1, <1>6, <2>1
    <2>3. e - 3 = a
      BY <1>1, <1>4, <1>6, <1>10, <2>2
    <2> QED
      BY <1>6, <2>1, <2>3 DEF a, e
  <1> QED
    BY <1>8, <1>9, <1>10

(* What patches leave of a file.                                           *)
Steady == {"eventHandler", "setUpdateCallback", "update()", "PlaydateAPI", "odd"}

Grows(r, s) ==
    /\ \A t \in Steady : Has(r, t) <=> Has(s, t)
    /\ \A t \in Wrapping : Has(s, t) => Has(r, t)
    /\ Has(r, "input") => Has(s, "input")
    /\ Has(r, "wrapper") => Has(s, "wrapper") \/ Has(r, "mcp.h")

LEMMA GrowsSame ==
  ASSUME NEW s
  PROVE  Grows(s, s)
  BY DEF Grows

LEMMA GrowsWith ==
  ASSUME NEW s, NEW r, NEW x \in {"mcp.h", "init", "update"},
         \A t : Has(r, t) <=> Has(s, t) \/ t = x
  PROVE  Grows(r, s)
  <1>1. x \notin Steady /\ x # "input" /\ x # "wrapper"
    BY DEF Steady
  <1>2. Has(r, "input") => Has(s, "input")
    BY <1>1
  <1>3. Has(r, "wrapper") => Has(s, "wrapper")
    BY <1>1
  <1>4. \A t \in Steady : Has(r, t) <=> Has(s, t)
    BY <1>1
  <1> QED
    BY <1>2, <1>3, <1>4 DEF Grows

LEMMA GrowsOn ==
  ASSUME NEW s, NEW r, NEW u, Grows(r, s), Grows(u, r)
  PROVE  Grows(u, s)
  <1>1. "mcp.h" \in Wrapping
    BY DEF Wrapping
  <1> QED
    BY <1>1 DEF Grows

LEMMA IncludeGrows ==
  ASSUME NEW s \in Seq(Lines)
  PROVE  Grows(InsertIncludeIfMissing(s), s) /\ Has(InsertIncludeIfMissing(s), "mcp.h")
  <1>1. \A t : Has(InsertIncludeIfMissing(s), t) <=> Has(s, t) \/ t = "mcp.h"
    BY HasInclude
  <1> QED
    BY <1>1, GrowsWith

LEMMA PlacedGrows ==
  ASSUME NEW s \in Seq(Lines), NEW i \in 0..Len(s), NEW x \in {"init", "update"}
  PROVE  LET r == Insert(s, i, MarkerBlock(Line(x)))
         IN r \in Seq(Lines) /\ Grows(r, s) /\ Has(r, x)
  <1> DEFINE r == Insert(s, i, MarkerBlock(Line(x)))
  <1>1. x \in Inserted /\ MarkerBlock(Line(x)) \in Seq(Lines)
    BY LineTypes DEF Inserted, Kinds
  <1>2. \A t : Has(r, t) <=> Has(s, t) \/ t = x
    BY <1>1, HasInserted
  <1>3. r \in Seq(Lines)
    BY <1>1, InsertType
  <1> HIDE DEF r
  <1>4. Grows(r, s) /\ Has(r, x)
    BY <1>2, GrowsWith
  <1> QED
    BY <1>3, <1>4 DEF r

LEMMA WrapGrows ==
  ASSUME NEW s \in Seq(Lines)
  PROVE  LET r == InsertIncludeIfMissing(Renamed(s, "input", "wrapper"))
         IN Grows(r, s) /\ ~Has(r, "input") /\ Has(r, "mcp.h")
  <1> DEFINE u == Renamed(s, "input", "wrapper")
             r == InsertIncludeIfMissing(u)
  <1>1. "input" \in Kinds /\ "wrapper" \in Kinds
    BY DEF Kinds
  <1>2. \A t : Has(u, t) <=> (t # "input" /\ Has(s, t)) \/ (t = "wrapper" /\ Has(s, "input"))
    BY <1>1, HasRenamed
  <1>3. u \in Seq(Lines)
    BY <1>1, RenamedType
  <1> HIDE DEF u
  <1>4. \A t : Has(r, t) <=> Has(u, t) \/ t = "mcp.h"
    BY <1>3, HasInclude
  <1> HIDE DEF r
  <1>5. ~Has(r, "input") /\ Has(r, "mcp.h")
    BY <1>2, <1>4
  <1>6. \A t \in Steady : Has(r, t) <=> Has(s, t)
    <2>1. "input" \notin Steady /\ "wrapper" \notin Steady /\ "mcp.h" \notin Steady
      BY DEF Steady
    <2> QED
      BY <1>2, <1>4, <2>1
  <1>7. \A t \in Wrapping : Has(s, t) => Has(r, t)
    <2>1. "input" \notin Wrapping
      BY DEF Wrapping
    <2> QED
      BY <1>2, <1>4, <2>1
  <1>8. Grows(r, s)
    BY <1>5, <1>6, <1>7 DEF Grows
  <1> QED
    BY <1>5, <1>8 DEF r, u

(* The init call goes in unless the caller is told of it.                  *)
LEMMA InitGrows ==
  ASSUME NEW s \in Seq(Lines), NEW u, u = InsertIncludeIfMissing(s), NEW new,
         new = IF Has(u, "init") \/ First(u, InitForms) = 0 \/ u[First(u, InitForms)].t = "bare"
               THEN u ELSE Insert(u, First(u, InitForms), MarkerBlock(Line("init")))
  PROVE  /\ Grows(new, s) /\ Has(new, "mcp.h")
         /\ \/ Has(new, "init")
            \/ /\ ~Has(s, "init")
               /\ First(s, InitForms) = 0 \/ s[First(s, InitForms)].t = "bare"
  <1> DEFINE at == First(u, InitForms)
             placed == Insert(u, at, MarkerBlock(Line("init")))
  <1>1. u \in Seq(Lines) /\ Grows(u, s) /\ Has(u, "mcp.h")
    BY IncludeType, IncludeGrows
  <1>2. at # 0 => at \in 0..Len(u)
    BY <1>1, FirstAt
  <1>3. at # 0 => Grows(placed, u) /\ Has(placed, "init")
    BY <1>1, <1>2, PlacedGrows
  <1>4. "mcp.h" \in Wrapping /\ "init" \in Wrapping
    BY DEF Wrapping
  <1>5. CASE new = u
    <2>1. Has(u, "init") \/ at = 0 \/ u[at].t = "bare" \/ placed = u
      BY <1>5
    <2>2. CASE Has(u, "init")
      BY <1>1, <1>5, <2>2
    <2>3. CASE at # 0 /\ placed = u
      BY <1>1, <1>3, <1>5, <2>3
    <2>4. CASE ~Has(u, "init") /\ (at = 0 \/ u[at].t = "bare")
      <3>1. ~Has(s, "init")
        BY <1>1, <1>4, <2>4 DEF Grows
      <3>2. First(s, InitForms) # 0 => at # 0 /\ u[at] = s[First(s, InitForms)]
        <4>1. CASE u = s
          BY <4>1
        <4>2. CASE u = Insert(s, Final(s, {"include"}), MarkerBlock(Line("mcp.h")))
          <5> DEFINE i == Final(s, {"include"})
          <5>1. "mcp.h" \in Inserted /\ MarkerBlock(Line("mcp.h")) \in Seq(Lines)
            BY LineTypes DEF Inserted, Kinds
          <5>2. i \in 0..Len(s)
            BY FinalInSeq
          <5> HIDE DEF i, at
          <5>3. /\ WithBlock(u, s, i)
                /\ u[i + 1] = Marker("BEGIN") /\ u[i + 2] = Line("mcp.h") /\ u[i + 3] = Marker("END")
            BY <4>2, <5>1, <5>2, BlockInserted DEF i
          <5>4. /\ ~IsCode(u[i + 1], InitForms) /\ ~IsCode(u[i + 2], InitForms)
                /\ ~IsCode(u[i + 3], InitForms)
            BY <5>3 DEF Marker, Line, IsCode, InitForms
          <5> QED
            BY <1>1, <5>3, <5>4, FirstKept DEF at
        <4> QED
          BY <4>1, <4>2 DEF InsertIncludeIfMissing
      <3> HIDE DEF at
      <3>3. First(s, InitForms) = 0 \/ s[First(s, InitForms)].t = "bare"
        BY <2>4, <3>2
      <3> QED
        BY <1>1, <1>5, <3>1, <3>3
    <2> QED
      BY <2>1, <2>2, <2>3, <2>4
  <1>6. CASE new # u
    <2>1. at # 0 /\ new = placed
      BY <1>6
    <2>2. Grows(new, u) /\ Has(new, "init")
      BY <1>3, <2>1
    <2>3. Has(new, "mcp.h")
      BY <1>1, <1>4, <2>2 DEF Grows
    <2> QED
      BY <1>1, <2>2, <2>3, GrowsOn
  <1> QED
    BY <1>5, <1>6

(* The searches of the files of a game find what they found.               *)
LEMMA FirstFileSame ==
  ASSUME NEW c, NEW e, NEW t, \A f \in ToSet(CFiles) : Has(e[f], t) <=> Has(c[f], t)
  PROVE  FirstFile(e, t) = FirstFile(c, t)
  <1>1. \A i \in 1..Len(CFiles) : Has(e[CFiles[i]], t) <=> Has(c[CFiles[i]], t)
    BY FilesType
  <1>2. {i \in 1..Len(CFiles) : Has(e[CFiles[i]], t)} = {i \in 1..Len(CFiles) : Has(c[CFiles[i]], t)}
    BY <1>1
  <1> QED
    BY <1>2 DEF FirstFile, SelectInSeq

LEMMA FirstFileIs ==
  ASSUME NEW c, NEW t, FirstFile(c, t) # NoFile
  PROVE  FirstFile(c, t) \in ToSet(CFiles) /\ Has(c[FirstFile(c, t)], t)
  <1> DEFINE I == {i \in 1..Len(CFiles) : Has(c[CFiles[i]], t)}
  <1>1. I \in SUBSET Nat /\ 0 \notin I
    BY FilesType
  <1>2. I # {} => Min(I) \in I
    <2> HIDE DEF I
    <2> QED
      BY <1>1, MinInSet
  <1>3. I # {} /\ FirstFile(c, t) = CFiles[Min(I)]
    BY DEF FirstFile, SelectInSeq
  <1> HIDE DEF I
  <1>4. Min(I) \in 1..Len(CFiles) /\ Has(c[CFiles[Min(I)]], t)
    BY <1>2, <1>3 DEF I
  <1> QED
    BY <1>3, <1>4, FilesType

AllGrow(e, d) == \A f \in ToSet(CFiles) : Grows(e.c[f], d.c[f])

LEMMA HandlerStays ==
  ASSUME NEW d, NEW e, AllGrow(e, d)
  PROVE  /\ EventHandler(e.c) = EventHandler(d.c)
         /\ EventHandler(d.c) # NoFile =>
              /\ EventHandler(d.c) \in ToSet(CFiles)
              /\ UpdateFile(e.c) = UpdateFile(d.c)
              /\ UpdateFile(d.c) # NoFile => UpdateFile(d.c) \in ToSet(CFiles)
  <1>1. \A t \in Steady : \A f \in ToSet(CFiles) : Has(e.c[f], t) <=> Has(d.c[f], t)
    BY DEF AllGrow, Grows
  <1>2. /\ "eventHandler" \in Steady /\ "setUpdateCallback" \in Steady /\ "update()" \in Steady
    BY DEF Steady
  <1>3. EventHandler(e.c) = EventHandler(d.c)
    BY <1>1, <1>2, FirstFileSame DEF EventHandler
  <1>4. FirstFile(e.c, "update()") = FirstFile(d.c, "update()")
    BY <1>1, <1>2, FirstFileSame
  <1>5. EventHandler(d.c) # NoFile => EventHandler(d.c) \in ToSet(CFiles)
    BY FirstFileIs DEF EventHandler
  <1>6. FirstFile(d.c, "update()") # NoFile => FirstFile(d.c, "update()") \in ToSet(CFiles)
    BY FirstFileIs
  <1>7. EventHandler(d.c) # NoFile => UpdateFile(e.c) = UpdateFile(d.c)
    BY <1>1, <1>2, <1>3, <1>4, <1>5 DEF UpdateFile
  <1>8. EventHandler(d.c) # NoFile /\ UpdateFile(d.c) # NoFile => UpdateFile(d.c) \in ToSet(CFiles)
    BY <1>5, <1>6 DEF UpdateFile
  <1> QED
    BY <1>3, <1>5, <1>7, <1>8

LEMMA FileGrows ==
  ASSUME NEW d \in GameType, NEW f, NEW s,
         f \in ToSet(CFiles) => s \in Seq(Lines) /\ Grows(s, d.c[f])
  PROVE  AllGrow(WithFile(d, f, s), d)
  <1> DEFINE e == WithFile(d, f, s)
  <1>1. \A g \in ToSet(CFiles) : e.c[g] = IF g = f THEN s ELSE d.c[g]
    BY FileType
  <1> HIDE DEF e
  <1>2. ASSUME NEW g \in ToSet(CFiles) PROVE Grows(e.c[g], d.c[g])
    BY <1>1, GrowsSame
  <1> QED
    BY <1>2 DEF AllGrow, e

LEMMA AllSame ==
  ASSUME NEW d, NEW e, e.c = d.c
  PROVE  AllGrow(e, d)
  BY GrowsSame DEF AllGrow

(* What each of the three patches of a C file leaves.                      *)
LEMMA InitWires ==
  ASSUME NEW d \in GameType, NEW e, e = PatchEventHandlerInit(d), NEW h, h = EventHandler(d.c)
  PROVE  /\ AllGrow(e, d)
         /\ h # NoFile => Has(e.c[h], "mcp.h") /\ (Has(e.c[h], "init") \/ InitTold(d))
  <1> DEFINE u == InsertIncludeIfMissing(d.c[h])
             at == First(u, InitForms)
             new == IF Has(u, "init") \/ at = 0 \/ u[at].t = "bare" THEN u
                    ELSE Insert(u, at, MarkerBlock(Line("init")))
  <1>1. e = WithFile(d, h, new)
    BY DEF PatchEventHandlerInit, WithFile
  <1>2. h \in ToSet(CFiles) =>
          /\ Grows(new, d.c[h]) /\ Has(new, "mcp.h")
          /\ \/ Has(new, "init")
             \/ /\ ~Has(d.c[h], "init")
                /\ First(d.c[h], InitForms) = 0 \/ d.c[h][First(d.c[h], InitForms)].t = "bare"
    <2>1. h \in ToSet(CFiles) => d.c[h] \in Seq(Lines)
      BY DEF GameType
    <2> QED
      BY <2>1, InitGrows
  <1>3. h \in ToSet(CFiles) => new \in Seq(Lines)
    <2> SUFFICES ASSUME h \in ToSet(CFiles) PROVE new \in Seq(Lines)
      OBVIOUS
    <2>1. d.c[h] \in Seq(Lines)
      BY DEF GameType
    <2>2. u \in Seq(Lines)
      BY <2>1, IncludeType
    <2> HIDE DEF u
    <2>3. at \in 0..Len(u) /\ MarkerBlock(Line("init")) \in Seq(Lines)
      BY <2>2, FirstInSeq, LineTypes DEF Kinds
    <2> HIDE DEF at
    <2> QED
      BY <2>2, <2>3, InsertType
  <1> HIDE DEF new
  <1>4. AllGrow(e, d)
    BY <1>1, <1>2, <1>3, FileGrows
  <1>5. h # NoFile => h \in ToSet(CFiles)
    BY FirstFileIs DEF EventHandler
  <1>6. h \in ToSet(CFiles) => e.c[h] = new
    BY <1>1, <1>3, FileType
  <1>7. InitTold(d) <=> /\ ~Has(d.c[h], "init")
                        /\ First(d.c[h], InitForms) = 0 \/ d.c[h][First(d.c[h], InitForms)].t = "bare"
    BY DEF InitTold
  <1> QED
    BY <1>2, <1>4, <1>5, <1>6, <1>7

LEMMA UpdateWires ==
  ASSUME NEW d \in GameType, NEW e, e = PatchUpdateCallback(d), NEW f, f = UpdateFile(d.c)
  PROVE  /\ AllGrow(e, d)
         /\ EventHandler(d.c) # NoFile =>
              (f # NoFile /\ Has(e.c[f], "update")) \/ UpdateTold(d)
  <1> DEFINE at == First(d.c[f], {"update()"})
             new == Insert(d.c[f], at, MarkerBlock(Line("update")))
  <1>1. e = IF f = NoFile \/ Has(d.c[f], "update") \/ ~Has(d.c[f], "PlaydateAPI") THEN d
            ELSE WithFile(d, f, new)
    BY DEF PatchUpdateCallback, WithFile
  <1>2. f \in ToSet(CFiles) => new \in Seq(Lines) /\ Grows(new, d.c[f]) /\ Has(new, "update")
    <2> SUFFICES ASSUME f \in ToSet(CFiles)
                 PROVE  new \in Seq(Lines) /\ Grows(new, d.c[f]) /\ Has(new, "update")
      OBVIOUS
    <2>1. d.c[f] \in Seq(Lines)
      BY DEF GameType
    <2>2. at \in 0..Len(d.c[f])
      BY <2>1, FirstInSeq
    <2> HIDE DEF at
    <2> QED
      BY <2>1, <2>2, PlacedGrows
  <1> HIDE DEF new
  <1>3. AllGrow(e, d)
    <2>1. CASE e = d
      BY <2>1, AllSame
    <2>2. CASE e = WithFile(d, f, new)
      BY <1>2, <2>2, FileGrows
    <2> QED
      BY <1>1, <2>1, <2>2
  <1>4. EventHandler(d.c) # NoFile /\ f # NoFile => f \in ToSet(CFiles)
    BY HandlerStays, AllSame
  <1>5. f \in ToSet(CFiles) => WithFile(d, f, new).c[f] = new
    BY <1>2, FileType
  <1>6. UpdateTold(d) <=> f = NoFile \/ ~(Has(d.c[f], "update") \/ Has(d.c[f], "PlaydateAPI"))
    BY DEF UpdateTold
  <1>7. ASSUME EventHandler(d.c) # NoFile, ~UpdateTold(d)
        PROVE  f # NoFile /\ Has(e.c[f], "update")
    <2>1. f # NoFile /\ f \in ToSet(CFiles)
      BY <1>4, <1>6, <1>7
    <2>2. CASE Has(d.c[f], "update")
      BY <1>1, <2>1, <2>2
    <2>3. CASE ~Has(d.c[f], "update")
      <3>1. e = WithFile(d, f, new)
        BY <1>1, <1>6, <1>7, <2>1, <2>3
      <3> QED
        BY <1>2, <1>5, <2>1, <3>1
    <2> QED
      BY <2>2, <2>3
  <1> QED
    BY <1>3, <1>7

LEMMA InputWires ==
  ASSUME NEW d \in GameType, NEW f \in ToSet(CFiles), NEW e, e = PatchInputCalls(d, f)
  PROVE  AllGrow(e, d) /\ ~Has(e.c[f], "input")
  <1> DEFINE new == InsertIncludeIfMissing(Renamed(d.c[f], "input", "wrapper"))
  <1>1. e = IF ~Has(d.c[f], "input") THEN d ELSE WithFile(d, f, new)
    BY DEF PatchInputCalls, WithFile
  <1>2. d.c[f] \in Seq(Lines)
    BY DEF GameType
  <1>3. new \in Seq(Lines)
    <2>1. Renamed(d.c[f], "input", "wrapper") \in Seq(Lines)
      BY <1>2, RenamedType DEF Kinds
    <2> QED
      BY <2>1, IncludeType
  <1>4. Grows(new, d.c[f]) /\ ~Has(new, "input")
    BY <1>2, WrapGrows
  <1> HIDE DEF new
  <1>5. CASE e = d
    <2>1. ~Has(d.c[f], "input") \/ d = WithFile(d, f, new)
      BY <1>1, <1>5
    <2>2. WithFile(d, f, new).c[f] = new
      BY <1>3, FileType
    <2>3. ~Has(e.c[f], "input")
      BY <1>4, <1>5, <2>1, <2>2
    <2> QED
      BY <1>5, <2>3, AllSame
  <1>6. CASE e = WithFile(d, f, new)
    <2>1. WithFile(d, f, new).c[f] = new
      BY <1>3, FileType
    <2>2. AllGrow(e, d)
      BY <1>3, <1>4, <1>6, FileGrows
    <2> QED
      BY <1>4, <1>6, <2>1, <2>2
  <1> QED
    BY <1>1, <1>5, <1>6

(* What a write of a setup leaves of a C game, and what it tells.          *)
Wires(e, d, step) ==
    /\ AllGrow(e, d)
    /\ \A name \in {"mcp.h", "mcp.c"} :
         e.copies[name] = IF step = <<"copy", name>> THEN version ELSE d.copies[name]
    /\ step # <<"patch CMakeLists.txt">> => e.cmake = d.cmake
    /\ step = <<"patch CMakeLists.txt">> =>
         /\ CMakeListsContain(e.cmake) \/ "CMakeLists.txt" \in Told(step, d)
         /\ EventHandler(d.c) = NoFile => "eventHandler" \in Told(step, d)
    /\ step = <<"patch init">> /\ EventHandler(d.c) # NoFile =>
         /\ Has(e.c[EventHandler(d.c)], "mcp.h")
         /\ Has(e.c[EventHandler(d.c)], "init") \/ "init" \in Told(step, d)
    /\ step = <<"patch update">> /\ EventHandler(d.c) # NoFile =>
         \/ UpdateFile(d.c) # NoFile /\ Has(e.c[UpdateFile(d.c)], "update")
         \/ "update" \in Told(step, d)
    /\ \A f \in ToSet(CFiles) : step = <<"patch input", f>> =>
         ~Has(e.c[f], "input") /\ (Has(d.c[f], "odd") => f \in Told(step, d))

LEMMA SetupDistinct ==
  ASSUME NEW x
  PROVE  /\ <<"copy", x>>[1] = "copy" /\ <<"patch input", x>>[1] = "patch input"
         /\ <<"patch init">>[1] = "patch init" /\ <<"patch update">>[1] = "patch update"
         /\ <<"patch CMakeLists.txt">>[1] = "patch CMakeLists.txt"
         /\ <<"patch main.lua">>[1] = "patch main.lua"
  OBVIOUS

LEMMA CopyWires ==
  ASSUME NEW d \in GameType, NEW name \in Harness, NEW step, step = <<"copy", name>>,
         NEW e, e = After(step, d)
  PROVE  Wires(e, d, step)
  <1>1. e = [d EXCEPT !.copies[name] = version]
    BY DEF After
  <1>2. e.c = d.c /\ e.cmake = d.cmake
    BY <1>1 DEF GameType
  <1>3. \A m \in {"mcp.h", "mcp.c"} : e.copies[m] = IF m = name THEN version ELSE d.copies[m]
    BY <1>1 DEF GameType, Harness
  <1>4. /\ step # <<"patch CMakeLists.txt">> /\ step # <<"patch init">>
        /\ step # <<"patch update">> /\ \A f : step # <<"patch input", f>>
        /\ \A m : (step = <<"copy", m>>) <=> m = name
    BY SetupDistinct
  <1>5. AllGrow(e, d)
    BY <1>2, AllSame
  <1> QED
    BY <1>2, <1>3, <1>4, <1>5 DEF Wires

LEMMA PatchWires ==
  ASSUME NEW d \in GameType, NEW step \in WiringC, NEW e, e = After(step, d)
  PROVE  Wires(e, d, step)
  <1>1. e.copies = d.copies /\ e.cmake = d.cmake
    BY PatchesC
  <1>2. \A x : step # <<"copy", x>> /\ step # <<"patch CMakeLists.txt">>
    <2>1. step[1] \in {"patch init", "patch update", "patch input"}
      BY StepHeads
    <2>2. \A x : <<"copy", x>>[1] = "copy" /\ <<"patch CMakeLists.txt">>[1] = "patch CMakeLists.txt"
      BY SetupDistinct
    <2> QED
      BY <2>1, <2>2
  <1>3. \A x : /\ <<"patch init">> # <<"patch input", x>> /\ <<"patch update">> # <<"patch input", x>>
               /\ <<"patch init">> # <<"patch update">>
    BY SetupDistinct
  <1>4. CASE step = <<"patch init">>
    <2>1. e = PatchEventHandlerInit(d)
      BY <1>4 DEF After
    <2>2. InitTold(d) => "init" \in Told(step, d)
      BY <1>4 DEF Told
    <2> DEFINE h == EventHandler(d.c)
    <2>3. AllGrow(e, d) /\ (h # NoFile => Has(e.c[h], "mcp.h") /\ (Has(e.c[h], "init") \/ InitTold(d)))
      BY <2>1, InitWires
    <2> QED
      BY <1>1, <1>2, <1>3, <1>4, <2>2, <2>3 DEF Wires
  <1>5. CASE step = <<"patch update">>
    <2>1. e = PatchUpdateCallback(d)
      BY <1>5 DEF After
    <2>2. UpdateTold(d) => "update" \in Told(step, d)
      BY <1>5 DEF Told
    <2> DEFINE f == UpdateFile(d.c)
    <2>3. AllGrow(e, d) /\ (EventHandler(d.c) # NoFile =>
                              (f # NoFile /\ Has(e.c[f], "update")) \/ UpdateTold(d))
      BY <2>1, UpdateWires
    <2> QED
      BY <1>1, <1>2, <1>3, <1>5, <2>2, <2>3 DEF Wires
  <1>6. ASSUME NEW f \in ToSet(CFiles), step = <<"patch input", f>> PROVE Wires(e, d, step)
    <2>1. e = PatchInputCalls(d, f)
      BY <1>6 DEF After
    <2>2. Has(d.c[f], "odd") => f \in Told(step, d)
      BY <1>6 DEF Told
    <2>3. AllGrow(e, d) /\ ~Has(e.c[f], "input")
      BY <2>1, InputWires
    <2>4. \A g : step = <<"patch input", g>> => g = f
      BY <1>6
    <2> QED
      BY <1>1, <1>2, <1>3, <1>6, <2>2, <2>3, <2>4 DEF Wires
  <1> QED
    BY <1>4, <1>5, <1>6 DEF WiringC

LEMMA ListWires ==
  ASSUME NEW d \in GameType, d.cmake \in Seq(CMakeItems),
         NEW step, step = <<"patch CMakeLists.txt">>, NEW e, e = After(step, d)
  PROVE  Wires(e, d, step)
  <1>1. e = PatchCMakeLists(d)
    BY DEF After
  <1>2. e.c = d.c /\ e.copies = d.copies
    BY <1>1, CMakeType
  <1>3. /\ ~CMakeListsContain(e.cmake) => "CMakeLists.txt" \in Told(step, d)
        /\ EventHandler(d.c) = NoFile => "eventHandler" \in Told(step, d)
    BY <1>1 DEF Told
  <1>4. /\ step # <<"patch init">> /\ step # <<"patch update">>
        /\ \A f : step # <<"patch input", f>> /\ step # <<"copy", f>>
    BY SetupDistinct
  <1>5. AllGrow(e, d)
    BY <1>2, AllSame
  <1> QED
    BY <1>2, <1>3, <1>4, <1>5 DEF Wires

LEMMA AfterSetupWires ==
  ASSUME NEW d \in GameType, NEW step \in SetupSteps, Readable(step, d), NEW e, e = After(step, d)
  PROVE  Wires(e, d, step)
  <1>1. CASE step = <<"patch main.lua">>
    <2>1. e = PatchLuaMain(d) /\ d.lua \in Seq(Lines)
      BY <1>1 DEF After, Readable, GameType
    <2>2. e.c = d.c /\ e.cmake = d.cmake /\ e.copies = d.copies
      BY <2>1, LuaType
    <2>3. /\ step # <<"patch init">> /\ step # <<"patch update">> /\ step # <<"patch CMakeLists.txt">>
          /\ \A f : step # <<"patch input", f>> /\ step # <<"copy", f>>
      BY <1>1, SetupDistinct
    <2>4. AllGrow(e, d)
      BY <2>2, AllSame
    <2> QED
      BY <2>2, <2>3, <2>4 DEF Wires
  <1>2. CASE step = <<"patch CMakeLists.txt">>
    <2>1. d.cmake \in Seq(CMakeItems)
      BY <1>2 DEF Readable, GameType
    <2> QED
      BY <1>2, <2>1, ListWires
  <1> QED
    BY <1>1, <1>2, CopyWires, PatchWires, StepNames

-----------------------------------------------------------------------------
(* The invariant: what a setup wires is wired, or told of, when the write  *)
(* for it is not left; and the wrappers are declared at any time.          *)

Copied == \A name \in {"mcp.h", "mcp.c"} : Left(<<"copy", name>>) \/ disk.copies[name] = version

Listed ==
    \/ Left(<<"patch CMakeLists.txt">>)
    \/ /\ CMakeListsContain(disk.cmake) \/ "CMakeLists.txt" \in told
       /\ EventHandler(disk.c) = NoFile => "eventHandler" \in told

InitWired ==
    EventHandler(disk.c) # NoFile =>
      \/ Left(<<"patch init">>)
      \/ /\ Has(disk.c[EventHandler(disk.c)], "mcp.h")
         /\ Has(disk.c[EventHandler(disk.c)], "init") \/ "init" \in told

UpdateWired ==
    EventHandler(disk.c) # NoFile =>
      \/ Left(<<"patch update">>) \/ "update" \in told
      \/ UpdateFile(disk.c) # NoFile /\ Has(disk.c[UpdateFile(disk.c)], "update")

InputWired ==
    EventHandler(disk.c) # NoFile =>
      \A f \in ToSet(CFiles) :
        \/ Left(<<"patch input", f>>)
        \/ ~Has(disk.c[f], "input") /\ (Has(disk.c[f], "odd") => f \in told)

Wired == Copied /\ Listed /\ InitWired /\ UpdateWired /\ InputWired

SetupWired ==
    call.tool = "setup" /\ call.language = "c" /\ call.state \in {"running", "done"} => Wired

WrappersDeclared ==
    \A f \in ToSet(CFiles) : Has(disk.c[f], "wrapper") => Has(disk.c[f], "mcp.h")

HiddenDeclared ==
    \A f \in DOMAIN hidden : Has(hidden[f], "wrapper") => Has(hidden[f], "mcp.h")

WiredInv == WholeInv /\ WrappersDeclared /\ HiddenDeclared /\ SetupWired

LEMMA WiredStep ==
  ASSUME disk \in GameType, todo \in Seq(SetupSteps), Step, Wired
  PROVE  Wired'
  <1> DEFINE step == Head(todo)
  <1>1. /\ todo # <<>> /\ Readable(step, disk) /\ disk' = After(step, disk)
        /\ todo' = Tail(todo) /\ told' = told \cup Told(step, disk) /\ version' = version
    BY DEF Step
  <1>2. step \in SetupSteps
    BY <1>1, HeadTailProperties
  <1>3. \A x : Left(x) => x = step \/ Left(x)'
    BY <1>1, LeftRest
  <1> HIDE DEF step
  <1>4. Wires(disk', disk, step)
    <2> DEFINE e == After(step, disk)
    <2>1. e = After(step, disk) /\ disk' = e
      BY <1>1
    <2> HIDE DEF e
    <2> QED
      BY <1>1, <1>2, <2>1, AfterSetupWires
  <1>5. AllGrow(disk', disk)
    BY <1>4 DEF Wires
  <1>6. /\ EventHandler(disk'.c) = EventHandler(disk.c)
        /\ EventHandler(disk.c) # NoFile =>
             /\ EventHandler(disk.c) \in ToSet(CFiles)
             /\ UpdateFile(disk'.c) = UpdateFile(disk.c)
             /\ UpdateFile(disk.c) # NoFile => UpdateFile(disk.c) \in ToSet(CFiles)
    BY <1>5, HandlerStays
  <1>7. \A f \in ToSet(CFiles) : /\ \A t \in Wrapping : Has(disk.c[f], t) => Has(disk'.c[f], t)
                                 /\ Has(disk'.c[f], "input") => Has(disk.c[f], "input")
                                 /\ Has(disk'.c[f], "odd") <=> Has(disk.c[f], "odd")
    <2>1. "odd" \in Steady
      BY DEF Steady
    <2> QED
      BY <1>5, <2>1 DEF AllGrow, Grows
  <1>8. "mcp.h" \in Wrapping /\ "init" \in Wrapping /\ "update" \in Wrapping
    BY DEF Wrapping
  <1>9. Copied'
    BY <1>1, <1>3, <1>4 DEF Wired, Wires, Copied
  <1>10. Listed'
    <2>1. CASE step = <<"patch CMakeLists.txt">>
      BY <1>1, <1>4, <1>6, <2>1 DEF Wires, Listed
    <2>2. CASE step # <<"patch CMakeLists.txt">>
      BY <1>1, <1>3, <1>4, <1>6, <2>2 DEF Wired, Wires, Listed
    <2> QED
      BY <2>1, <2>2
  <1>11. InitWired'
    <2>1. CASE step = <<"patch init">>
      BY <1>1, <1>4, <1>6, <2>1 DEF Wires, InitWired
    <2>2. CASE step # <<"patch init">>
      BY <1>1, <1>3, <1>6, <1>7, <1>8, <2>2 DEF Wired, InitWired
    <2> QED
      BY <2>1, <2>2
  <1>12. UpdateWired'
    <2>1. CASE step = <<"patch update">>
      BY <1>1, <1>4, <1>6, <2>1 DEF Wires, UpdateWired
    <2>2. CASE step # <<"patch update">>
      BY <1>1, <1>3, <1>6, <1>7, <1>8, <2>2 DEF Wired, UpdateWired
    <2> QED
      BY <2>1, <2>2
  <1>13. InputWired'
    <2>1. ASSUME NEW f \in ToSet(CFiles), EventHandler(disk.c) # NoFile
          PROVE  \/ Left(<<"patch input", f>>)'
                 \/ ~Has(disk'.c[f], "input") /\ (Has(disk'.c[f], "odd") => f \in told')
      <3>1. CASE step = <<"patch input", f>>
        BY <1>1, <1>4, <1>7, <3>1 DEF Wires
      <3>2. CASE step # <<"patch input", f>>
        BY <1>1, <1>3, <1>7, <2>1, <3>2 DEF Wired, InputWired
      <3> QED
        BY <3>1, <3>2
    <2> QED
      BY <1>6, <2>1 DEF InputWired
  <1> QED
    BY <1>9, <1>10, <1>11, <1>12, <1>13 DEF Wired

(* Before the first write of a setup of a C game every one is left.        *)
LEMMA SetupCPatches ==
  ASSUME NEW d, EventHandler(d.c) # NoFile
  PROVE  /\ Len(SetupC(d)) = Len(CFiles) + 5
         /\ SetupC(d)[4] = <<"patch init">> /\ SetupC(d)[5] = <<"patch update">>
         /\ \A k \in 1..Len(CFiles) : SetupC(d)[k + 5] = <<"patch input", CFiles[k]>>
  <1> DEFINE front == <<<<"copy", "mcp.h">>, <<"copy", "mcp.c">>, <<"patch CMakeLists.txt">>>>
             callbacks == <<<<"patch init">>, <<"patch update">>>>
             files == PerFile("patch input")
             rest == callbacks \o files
             u == front \o rest
             S == SetupSteps
  <1>1. SetupC(d) = u
    BY DEF SetupC
  <1>2. /\ <<"copy", "mcp.h">> \in S /\ <<"copy", "mcp.c">> \in S /\ <<"patch CMakeLists.txt">> \in S
        /\ <<"patch init">> \in S /\ <<"patch update">> \in S
        /\ \A f \in ToSet(CFiles) : <<"patch input", f>> \in S
    BY DEF SetupSteps, Copying, Harness, WiringC
  <1> HIDE DEF S
  <1>3. front \in Seq(S) /\ Len(front) = 3
    BY <1>2, ShortSeqs
  <1>4. /\ callbacks \in Seq(S) /\ Len(callbacks) = 2
        /\ callbacks[1] = <<"patch init">> /\ callbacks[2] = <<"patch update">>
    BY <1>2, ShortSeqs
  <1>5. /\ files \in Seq(S) /\ Len(files) = Len(CFiles)
        /\ \A k \in 1..Len(CFiles) : files[k] = <<"patch input", CFiles[k]>>
    BY <1>2, PerFileType
  <1> HIDE DEF front, callbacks, files
  <1>6. /\ rest \in Seq(S) /\ Len(rest) = 2 + Len(CFiles)
        /\ \A i \in 1..2 : rest[i] = callbacks[i]
        /\ \A k \in 1..Len(CFiles) : rest[2 + k] = files[k]
    <2>1. callbacks \in Seq(S) /\ files \in Seq(S)
      BY <1>4, <1>5
    <2>2. /\ callbacks \o files \in Seq(S)
          /\ Len(callbacks \o files) = Len(callbacks) + Len(files)
          /\ \A i \in 1..Len(callbacks) : (callbacks \o files)[i] = callbacks[i]
          /\ \A i \in 1..Len(files) : (callbacks \o files)[Len(callbacks) + i] = files[i]
      BY <2>1, Concat
    <2> QED
      BY <1>4, <1>5, <2>2
  <1> HIDE DEF rest
  <1>7. /\ Len(u) = 3 + Len(rest)
        /\ \A i \in 1..Len(rest) : u[3 + i] = rest[i]
    <2>1. front \in Seq(S) /\ rest \in Seq(S)
      BY <1>3, <1>6
    <2>2. /\ Len(u) = Len(front) + Len(rest)
          /\ \A i \in 1..Len(rest) : u[Len(front) + i] = rest[i]
      BY <2>1, Concat
    <2> QED
      BY <1>3, <2>2
  <1> HIDE DEF u
  <1>8. Len(CFiles) \in Nat
    BY FilesType
  <1>9. Len(u) = Len(CFiles) + 5
    BY <1>6, <1>7, <1>8
  <1>10. u[4] = <<"patch init">> /\ u[5] = <<"patch update">>
    <2>1. 1 \in 1..Len(rest) /\ 2 \in 1..Len(rest) /\ 1 \in 1..2 /\ 2 \in 1..2
      BY <1>6, <1>8
    <2>2. u[3 + 1] = rest[1] /\ u[3 + 2] = rest[2]
      BY <1>7, <2>1
    <2>3. rest[1] = callbacks[1] /\ rest[2] = callbacks[2]
      BY <1>6, <2>1
    <2>4. 3 + 1 = 4 /\ 3 + 2 = 5
      OBVIOUS
    <2> QED
      BY <1>4, <2>2, <2>3, <2>4
  <1>11. ASSUME NEW k \in 1..Len(CFiles) PROVE u[k + 5] = <<"patch input", CFiles[k]>>
    <2>1. 2 + k \in 1..Len(rest) /\ 3 + (2 + k) = k + 5
      BY <1>6, <1>8
    <2>2. u[3 + (2 + k)] = rest[2 + k]
      BY <1>7, <2>1
    <2>3. rest[2 + k] = files[k]
      BY <1>6
    <2> QED
      BY <1>5, <2>1, <2>2, <2>3
  <1> QED
    BY <1>1, <1>9, <1>10, <1>11

LEMMA WiredAtFirst ==
  ASSUME todo' = SetupC(disk), disk' = disk
  PROVE  Wired'
  <1> DEFINE u == SetupC(disk)
  <1>1. /\ u \in Seq(SetupSteps) /\ Len(u) >= 3
        /\ u[1] = <<"copy", "mcp.h">> /\ u[2] = <<"copy", "mcp.c">>
        /\ u[3] = <<"patch CMakeLists.txt">>
    BY SetupCSteps, SeqMonotonic
  <1>2. EventHandler(disk.c) # NoFile =>
          /\ Len(u) = Len(CFiles) + 5
          /\ u[4] = <<"patch init">> /\ u[5] = <<"patch update">>
          /\ \A k \in 1..Len(CFiles) : u[k + 5] = <<"patch input", CFiles[k]>>
    BY SetupCPatches
  <1>3. todo' = u
    OBVIOUS
  <1> HIDE DEF u
  <1>4. DOMAIN u = 1..Len(u) /\ Len(u) \in Nat /\ Len(CFiles) \in Nat
    <2>1. u \in Seq(SetupSteps) /\ Len(CFiles) \in Nat
      BY <1>1, FilesType
    <2> QED
      BY <2>1, LenProperties
  <1>5. 1 \in DOMAIN u /\ 2 \in DOMAIN u /\ 3 \in DOMAIN u
    <2>1. Len(u) >= 3
      BY <1>1
    <2> QED
      BY <1>4, <2>1
  <1>6. Copied' /\ Listed'
    <2>1. /\ Left(<<"copy", "mcp.h">>)' /\ Left(<<"copy", "mcp.c">>)'
          /\ Left(<<"patch CMakeLists.txt">>)'
      BY <1>1, <1>3, <1>5 DEF Left
    <2> QED
      BY <2>1 DEF Copied, Listed
  <1>7. ASSUME EventHandler(disk.c) # NoFile
        PROVE  /\ Left(<<"patch init">>)' /\ Left(<<"patch update">>)'
               /\ \A f \in ToSet(CFiles) : Left(<<"patch input", f>>)'
    <2>1. 4 \in DOMAIN u /\ 5 \in DOMAIN u /\ \A k \in 1..Len(CFiles) : k + 5 \in DOMAIN u
      <3>1. Len(u) = Len(CFiles) + 5
        BY <1>2, <1>7
      <3> QED
        BY <1>4, <3>1
    <2>2. Left(<<"patch init">>)' /\ Left(<<"patch update">>)'
      BY <1>2, <1>3, <1>7, <2>1 DEF Left
    <2>3. ASSUME NEW f \in ToSet(CFiles) PROVE Left(<<"patch input", f>>)'
      <3>1. PICK k \in 1..Len(CFiles) : f = CFiles[k]
        BY FilesType
      <3> QED
        BY <1>2, <1>3, <1>7, <2>1, <3>1 DEF Left
    <2> QED
      BY <2>2, <2>3
  <1>8. InitWired' /\ UpdateWired' /\ InputWired'
    BY <1>7 DEF InitWired, UpdateWired, InputWired
  <1> QED
    BY <1>6, <1>8 DEF Wired

LEMMA SetupWiredCall ==
  ASSUME NEW tool \in {"setup", "teardown"}, NEW language \in Languages, Call(tool, language)
  PROVE  SetupWired'
  <1>1. /\ todo' = Steps(tool, language, disk) /\ disk' = disk
        /\ call'.tool = tool /\ call'.language = language
    BY DEF Call
  <1>2. CASE tool = "setup" /\ language = "c"
    <2>1. todo' = SetupC(disk)
      BY <1>1, <1>2 DEF Steps
    <2>2. Wired'
      BY <1>1, <2>1, WiredAtFirst
    <2> QED
      BY <2>2 DEF SetupWired
  <1>3. CASE ~(tool = "setup" /\ language = "c")
    BY <1>1, <1>3 DEF SetupWired
  <1> QED
    BY <1>2, <1>3

(* A teardown strips no declaration and leaves a wrapper: it does not begin
   when a wrapper would stay.                                              *)
LEMMA DeclaredStep ==
  ASSUME WiredInv, Step
  PROVE  WrappersDeclared'
  <1> DEFINE step == Head(todo)
             e == After(step, disk)
  <1>1. todo # <<>> /\ Readable(step, disk) /\ disk' = e /\ e = After(step, disk)
    BY DEF Step
  <1>2. disk \in GameType /\ todo \in Seq(SetupSteps) \cup Seq(TeardownSteps)
    BY DEF WiredInv, WholeInv, KeptInv, DanglingInv, SetupTypes
  <1>3. step \in SetupSteps \cup TeardownSteps
    BY <1>1, <1>2, HeadTailProperties
  <1>4. step = todo[1] /\ 1 \in DOMAIN todo
    <2>1. CASE todo \in Seq(SetupSteps)
      BY <1>1, <2>1, HeadTailProperties, LenProperties, EmptySeq
    <2>2. CASE todo \in Seq(TeardownSteps)
      BY <1>1, <2>2, HeadTailProperties, LenProperties, EmptySeq
    <2> QED
      BY <1>2, <2>1, <2>2
  <1>5. step \in Stripping => ~HasUnmarkedHarnessReference(disk.c)
    <2> SUFFICES ASSUME step \in Stripping PROVE ~HasUnmarkedHarnessReference(disk.c)
      OBVIOUS
    <2>1. call.language = "c" /\ call.state = "running" /\ call \in CallTypes /\ call.tool # "none"
      BY <1>1, <1>4 DEF WiredInv, WholeInv, TodoOfCall
    <2>2. call.tool # "setup"
      <3>1. step \notin SetupSteps
        BY SetupNotRemoving
      <3>2. todo \notin Seq(SetupSteps)
        BY <1>1, <3>1, HeadTailProperties
      <3> QED
        BY <3>2 DEF WiredInv, WholeInv, TodoOfCall
    <2>3. call.tool = "teardown"
      BY <2>1, <2>2 DEF CallTypes
    <2> QED
      BY <2>1, <2>3 DEF WiredInv, WholeInv, TeardownWhole
  <1> HIDE DEF step, e
  <1>6. CASE step \in SetupSteps
    <2>1. AllGrow(e, disk)
      BY <1>1, <1>2, <1>6, AfterSetupWires DEF Wires
    <2>2. "mcp.h" \in Wrapping
      BY DEF Wrapping
    <2> QED
      BY <1>1, <2>1, <2>2 DEF AllGrow, Grows, WrappersDeclared, WiredInv
  <1>7. CASE step \in TeardownSteps
    <2>1. Undone(e, disk, step)
      BY <1>1, <1>2, <1>7, AfterTeardownIs
    <2>2. ASSUME NEW f \in ToSet(CFiles), Has(e.c[f], "wrapper") PROVE Has(e.c[f], "mcp.h")
      <3>1. CASE step = <<"strip", f>>
        <4>1. e.c[f] = StripMarkerBlocks(disk.c[f])
          BY <2>1, <3>1 DEF Undone
        <4>2. ~Has(StripMarkerBlocks(disk.c[f]), "wrapper")
          BY <1>5, <3>1 DEF Stripping, HasUnmarkedHarnessReference, Wrapping
        <4> QED
          BY <2>2, <4>1, <4>2
      <3>2. CASE step # <<"strip", f>>
        BY <2>1, <2>2, <3>2 DEF Undone, WiredInv, WrappersDeclared
      <3> QED
        BY <3>1, <3>2
    <2> QED
      BY <1>1, <2>2 DEF WrappersDeclared
  <1> QED
    BY <1>3, <1>6, <1>7

LEMMA DeclaredFollow ==
  ASSUME WiredInv, FollowManualStep
  PROVE  WrappersDeclared'
  <1>1. PICK t \in told \cap {"init", "update"} :
          LET f == EventHandler(disk.c)
          IN f # NoFile /\ Edit([disk EXCEPT !.c[f] = Append(@, OwnLine(t))])
    BY DEF FollowManualStep
  <1> DEFINE f == EventHandler(disk.c)
             s == Append(disk.c[f], OwnLine(t))
             d == WithFile(disk, f, s)
  <1>2. disk' = d
    BY <1>1 DEF WithFile, Edit
  <1>3. disk \in GameType
    BY DEF WiredInv, WholeInv, KeptInv, DanglingInv, SetupTypes
  <1> HIDE DEF f
  <1>4. f \in ToSet(CFiles) =>
          /\ s \in Seq(Lines)
          /\ Has(s, "wrapper") => Has(disk.c[f], "wrapper")
          /\ Has(disk.c[f], "mcp.h") => Has(s, "mcp.h")
    <2> SUFFICES ASSUME f \in ToSet(CFiles)
                 PROVE  /\ s \in Seq(Lines)
                        /\ Has(s, "wrapper") => Has(disk.c[f], "wrapper")
                        /\ Has(disk.c[f], "mcp.h") => Has(s, "mcp.h")
      OBVIOUS
    <2>1. disk.c[f] \in Seq(Lines)
      BY <1>3 DEF GameType
    <2>2. OwnLine(t) \in Lines
      BY <1>1, LineTypes DEF Kinds
    <2>3. s \in Seq(Lines)
      BY <2>1, <2>2, AppendProperties
    <2>4. \A x : Has(s, x) <=> Has(disk.c[f], x) \/ x = t
      BY <2>1, HasAppended
    <2> QED
      BY <1>1, <2>3, <2>4
  <1> HIDE DEF s
  <1>5. \A g \in ToSet(CFiles) : d.c[g] = IF g = f THEN s ELSE disk.c[g]
    BY <1>3, <1>4, FileType
  <1> HIDE DEF d
  <1> QED
    BY <1>2, <1>4, <1>5 DEF WiredInv, WrappersDeclared

LEMMA DeclaredUndo ==
  ASSUME WiredInv, UndoInputCalls
  PROVE  WrappersDeclared'
  <1> DEFINE c == [f \in ToSet(CFiles) |-> Renamed(disk.c[f], "wrapper", "input")]
  <1>1. disk' = [disk EXCEPT !.c = c]
    BY DEF UndoInputCalls, Edit
  <1>2. disk \in GameType
    BY DEF WiredInv, WholeInv, KeptInv, DanglingInv, SetupTypes
  <1>3. disk'.c = c
    BY <1>1, <1>2 DEF GameType
  <1>4. ASSUME NEW f \in ToSet(CFiles) PROVE ~Has(c[f], "wrapper")
    <2>1. disk.c[f] \in Seq(Lines) /\ "wrapper" \in Kinds /\ "input" \in Kinds
      BY <1>2 DEF GameType, Kinds
    <2>2. ~Has(Renamed(disk.c[f], "wrapper", "input"), "wrapper")
      BY <2>1, HasRenamed
    <2> QED
      BY <2>2
  <1> QED
    BY <1>3, <1>4 DEF WrappersDeclared

LEMMA DeclaredAccess ==
  ASSUME WiredInv, ChangeAccess
  PROVE  WrappersDeclared' /\ HiddenDeclared'
  <1> DEFINE c == [f \in ToSet(CFiles) |-> IF f \in DOMAIN hidden THEN hidden[f] ELSE disk.c[f]]
  <1>1. disk \in GameType /\ WrappersDeclared /\ HiddenDeclared
    BY DEF WiredInv, WholeInv, KeptInv, DanglingInv, SetupTypes
  <1>2. WithHidden(disk).c = c
    BY <1>1, WithHiddenIs
  <1>3. PICK files \in SUBSET ToSet(CFiles) :
          /\ hidden' = [f \in files |-> WithHidden(disk).c[f]]
          /\ disk' = [disk EXCEPT !.c = [f \in ToSet(CFiles) |->
                        IF f \in files THEN <<>> ELSE WithHidden(disk).c[f]]]
    BY DEF ChangeAccess
  <1> DEFINE new == [f \in ToSet(CFiles) |-> IF f \in files THEN <<>> ELSE c[f]]
  <1>4. hidden' = [f \in files |-> c[f]] /\ disk' = [disk EXCEPT !.c = new]
    BY <1>2, <1>3
  <1>5. \A f \in ToSet(CFiles) : Has(c[f], "wrapper") => Has(c[f], "mcp.h")
    BY <1>1 DEF WrappersDeclared, HiddenDeclared
  <1> HIDE DEF c
  <1>6. \A f \in ToSet(CFiles) : Has(new[f], "wrapper") => Has(new[f], "mcp.h")
    <2>1. ~Has(<<>>, "wrapper")
      BY DEF Has
    <2> QED
      BY <1>5, <2>1
  <1>7. disk'.c = new
    BY <1>1, <1>4 DEF GameType
  <1> HIDE DEF new
  <1> QED
    BY <1>4, <1>5, <1>6, <1>7 DEF WrappersDeclared, HiddenDeclared

LEMMA WiredInit == Init => WiredInv
  <1> SUFFICES ASSUME Init PROVE WiredInv
    OBVIOUS
  <1>1. disk \in Games /\ call.tool = "none" /\ DOMAIN hidden = {}
    BY DEF Init, NoCall
  <1>2. WrappersDeclared
    BY <1>1, AuthorsAssumption DEF WrappersDeclared
  <1> QED
    BY <1>1, <1>2, WholeInit DEF WiredInv, HiddenDeclared, SetupWired

LEMMA WiredNext ==
  ASSUME WiredInv, [Next]_vars
  PROVE  WiredInv'
  <1>1. WholeInv'
    BY WholeNext DEF WiredInv
  <1>2. ASSUME NEW tool \in {"setup", "teardown"}, NEW language \in Languages,
               Call(tool, language)
        PROVE  WrappersDeclared' /\ SetupWired'
    <2>1. disk' = disk
      BY <1>2 DEF Call
    <2>2. WrappersDeclared'
      BY <2>1 DEF WiredInv, WrappersDeclared
    <2> QED
      BY <1>2, <2>2, SetupWiredCall
  <1>3. ASSUME NEW tool \in {"setup", "teardown"}, CallDetected(tool)
        PROVE  WrappersDeclared' /\ SetupWired'
    <2>1. DetectLanguage(disk) \in Languages /\ Call(tool, DetectLanguage(disk))
      BY <1>3 DEF CallDetected, DetectLanguage, Languages
    <2> QED
      BY <1>2, <2>1
  <1>4. ASSUME Step PROVE WrappersDeclared' /\ SetupWired'
    <2>1. WrappersDeclared'
      BY <1>4, DeclaredStep
    <2>2. /\ todo # <<>>
          /\ call' = [call EXCEPT !.state = IF todo' = <<>> THEN "done" ELSE "running"]
      BY <1>4 DEF Step
    <2>3. call \in CallTypes /\ call.state = "running"
      BY <2>2 DEF WiredInv, WholeInv, TodoOfCall
    <2>4. call'.tool = call.tool /\ call'.language = call.language
      BY <2>2, <2>3 DEF CallTypes
    <2>5. CASE call.tool = "setup" /\ call.language = "c"
      <3>1. Wired /\ todo \in Seq(SetupSteps) /\ disk \in GameType
        BY <2>3, <2>5
        DEF WiredInv, SetupWired, WholeInv, TodoOfCall, KeptInv, DanglingInv, SetupTypes
      <3>2. Wired'
        BY <1>4, <3>1, WiredStep
      <3> QED
        BY <2>1, <3>2 DEF SetupWired
    <2>6. CASE ~(call.tool = "setup" /\ call.language = "c")
      BY <2>1, <2>4, <2>6 DEF SetupWired
    <2> QED
      BY <2>5, <2>6
  <1>9. ASSUME Overlook PROVE WrappersDeclared' /\ SetupWired'
    <2>1. /\ todo # <<>> /\ disk' = disk
          /\ call' = [call EXCEPT !.state = IF todo' = <<>> THEN "done" ELSE "running"]
      BY <1>9 DEF Overlook
    <2>2. call \in CallTypes
      BY DEF WiredInv, WholeInv, TodoOfCall
    <2>3. call'.tool = call.tool
      BY <2>1, <2>2 DEF CallTypes
    <2>4. call.tool # "setup"
      BY <1>9, OverlooksCopy DEF WiredInv, WholeInv, TodoOfCall, KeptInv, DanglingInv
    <2> QED
      BY <2>1, <2>3, <2>4 DEF WiredInv, WrappersDeclared, SetupWired
  <1>5. ASSUME Fail PROVE WrappersDeclared' /\ SetupWired'
    <2>1. call' = [call EXCEPT !.state = "failed"] /\ disk' = disk
      BY <1>5 DEF Fail
    <2>2. call'.state = "failed"
      BY <2>1 DEF WiredInv, WholeInv, TodoOfCall, CallTypes
    <2> QED
      BY <2>1, <2>2 DEF WiredInv, WrappersDeclared, SetupWired
  <1>6. ASSUME FollowManualStep \/ FollowManualCMakeStep \/ UndoInputCalls
               \/ ChangeAccess \/ UpgradeServer
        PROVE  WrappersDeclared' /\ SetupWired'
    <2>1. call' = NoCall
      BY <1>6 DEF FollowManualStep, FollowManualCMakeStep, UndoInputCalls, ChangeAccess, UpgradeServer, Edit
    <2>2. SetupWired'
      BY <2>1 DEF SetupWired, NoCall
    <2>5. ChangeAccess => WrappersDeclared'
      BY DeclaredAccess
    <2>3. FollowManualCMakeStep \/ UpgradeServer => disk'.c = disk.c
      <3>1. disk \in GameType
        BY DEF WiredInv, WholeInv, KeptInv, DanglingInv, SetupTypes
      <3> QED
        BY <3>1 DEF FollowManualCMakeStep, UpgradeServer, Edit, GameType
    <2>4. FollowManualCMakeStep \/ UpgradeServer => WrappersDeclared'
      BY <2>3 DEF WiredInv, WrappersDeclared
    <2> QED
      BY <1>6, <2>2, <2>4, <2>5, DeclaredFollow, DeclaredUndo
  <1>7. ASSUME UNCHANGED vars PROVE WrappersDeclared' /\ SetupWired'
    <2>1. WrappersDeclared'
      BY <1>7 DEF vars, WiredInv, WrappersDeclared
    <2>2. Wired' = Wired
      BY <1>7 DEF vars, Wired, Copied, Listed, InitWired, UpdateWired, InputWired, Left
    <2> QED
      BY <1>7, <2>1, <2>2 DEF vars, WiredInv, SetupWired
  <1>8. WrappersDeclared' /\ SetupWired'
    BY <1>2, <1>3, <1>4, <1>5, <1>6, <1>7, <1>9 DEF Next
  <1>10. HiddenDeclared'
    <2>1. hidden' = hidden \/ ChangeAccess
      BY DEF Next, CallDetected, Call, Step, Overlook, Fail, FollowManualStep,
             FollowManualCMakeStep, UndoInputCalls, Edit, UpgradeServer, vars
    <2>2. ASSUME hidden' = hidden PROVE HiddenDeclared'
      BY <2>2 DEF WiredInv, HiddenDeclared
    <2> QED
      BY <2>1, <2>2, DeclaredAccess
  <1> QED
    BY <1>1, <1>8, <1>10 DEF WiredInv

(* In games of any size: a setup of a C game that ends has copied the two
   files, listed the source, included the header and placed the calls that the
   harness needs, or has told its caller which of these it has not; no input
   call that it understands is left in a file that can be read, and a rewritten
   one is always declared (c.go:17, c.go:111, c.go:813). *)
THEOREM WiredOrToldCorrect == Spec => []WiredOrTold
  <1>1. WiredInv => WiredOrTold
    <2> SUFFICES ASSUME WiredInv, call = [tool |-> "setup", language |-> "c", state |-> "done"]
                 PROVE  WiredOrTold
      BY DEF WiredOrTold
    <2>1. call.tool = "setup" /\ call.language = "c" /\ call.state = "done"
      OBVIOUS
    <2>2. Wired /\ todo = <<>> /\ WrappersDeclared
      BY <2>1 DEF WiredInv, SetupWired, WholeInv, TodoOfCall
    <2>3. \A x : ~Left(x)
      BY <2>2 DEF Left
    <2>4. /\ disk.copies["mcp.h"] = version /\ disk.copies["mcp.c"] = version
          /\ CMakeListsContain(disk.cmake) \/ "CMakeLists.txt" \in told
          /\ EventHandler(disk.c) = NoFile => "eventHandler" \in told
      BY <2>2, <2>3 DEF Wired, Copied, Listed
    <2>5. ASSUME EventHandler(disk.c) # NoFile
          PROVE  LET handler == EventHandler(disk.c)
                     file == UpdateFile(disk.c)
                 IN /\ Has(disk.c[handler], "mcp.h")
                    /\ Has(disk.c[handler], "init") \/ "init" \in told
                    /\ "update" \notin told => file # NoFile /\ Has(disk.c[file], "update")
      BY <2>2, <2>3, <2>5 DEF Wired, InitWired, UpdateWired
    <2>6. ASSUME EventHandler(disk.c) # NoFile, NEW f \in ToSet(CFiles)
          PROVE  /\ ~Has(disk.c[f], "input")
                 /\ Has(disk.c[f], "odd") => f \in told
                 /\ Has(disk.c[f], "wrapper") => Has(disk.c[f], "mcp.h")
      BY <2>2, <2>3, <2>6 DEF Wired, InputWired, WrappersDeclared
    <2> QED
      BY <2>4, <2>5, <2>6 DEF WiredOrTold
  <1> QED
    BY <1>1, WiredInit, WiredNext, PTL DEF Spec

-----------------------------------------------------------------------------
(* A call may be repeated.  That a write is settled: it can be made again,   *)
(* and changes nothing.                                                      *)

NoInitPlace(s) == First(s, InitForms) = 0 \/ s[First(s, InitForms)].t = "bare"

Settled(step, d) ==
    CASE step[1] = "copy" -> d.copies[step[2]] = version
      [] step[1] = "remove" ->
           d.copies[step[2]] = 0 \/ (step[2] = "mcp.lua" /\ KeepsLuaHarness(d))
      [] step[1] = "patch CMakeLists.txt" -> d.cmake # NoFile /\ PatchCMakeLists(d) = d
      [] step[1] = "patch init" ->
           LET h == EventHandler(d.c)
           IN h # NoFile /\ Has(d.c[h], "mcp.h") /\ (Has(d.c[h], "init") \/ NoInitPlace(d.c[h]))
      [] step[1] = "patch update" ->
           LET f == UpdateFile(d.c)
           IN /\ EventHandler(d.c) # NoFile
              /\ f = NoFile \/ Has(d.c[f], "update") \/ ~Has(d.c[f], "PlaydateAPI")
      [] step[1] = "patch input" -> ~Has(d.c[step[2]], "input")
      [] step[1] = "patch main.lua" -> d.lua # NoFile /\ Imports(d.lua)
      [] step[1] = "restore CMakeLists.txt" ->
           d.cmake # NoFile => Authored(d.cmake) /\ ~CMakeListsContain(d.cmake)
      [] step[1] = "strip" -> Authored(d.c[step[2]])
      [] step[1] = "strip main.lua" -> d.lua # NoFile => Authored(d.lua)

LEMMA SettledNames ==
  ASSUME NEW d, NEW x
  PROVE  /\ Settled(<<"copy", x>>, d) <=> d.copies[x] = version
         /\ Settled(<<"remove", x>>, d) <=>
              d.copies[x] = 0 \/ (x = "mcp.lua" /\ KeepsLuaHarness(d))
         /\ Settled(<<"patch CMakeLists.txt">>, d) <=> d.cmake # NoFile /\ PatchCMakeLists(d) = d
         /\ Settled(<<"patch input", x>>, d) <=> ~Has(d.c[x], "input")
         /\ Settled(<<"patch main.lua">>, d) <=> d.lua # NoFile /\ Imports(d.lua)
         /\ Settled(<<"restore CMakeLists.txt">>, d) <=>
              (d.cmake # NoFile => Authored(d.cmake) /\ ~CMakeListsContain(d.cmake))
         /\ Settled(<<"strip", x>>, d) <=> Authored(d.c[x])
         /\ Settled(<<"strip main.lua">>, d) <=> (d.lua # NoFile => Authored(d.lua))
  BY DEF Settled

LEMMA SettledInit ==
  ASSUME NEW d, NEW h, h = EventHandler(d.c)
  PROVE  Settled(<<"patch init">>, d) <=>
           h # NoFile /\ Has(d.c[h], "mcp.h") /\ (Has(d.c[h], "init") \/ NoInitPlace(d.c[h]))
  BY DEF Settled

LEMMA SettledUpdate ==
  ASSUME NEW d, NEW f, f = UpdateFile(d.c)
  PROVE  Settled(<<"patch update">>, d) <=>
           /\ EventHandler(d.c) # NoFile
           /\ f = NoFile \/ Has(d.c[f], "update") \/ ~Has(d.c[f], "PlaydateAPI")
  BY DEF Settled

(* Nothing is stripped from a file without a marker.                       *)
LEMMA StripSame ==
  ASSUME NEW S, NEW s \in Seq(S), Authored(s)
  PROVE  StripMarkerBlocks(s) = s
  <1>1. Len(s) \in Nat /\ DOMAIN s = 1..Len(s)
    BY LenProperties
  <1>2. StripFirstBlock(s) = s
    <2>1. {i \in 1..Len(s) : s[i].t = "BEGIN"} = {}
      BY <1>1 DEF Authored
    <2>2. SelectInSeq(s, LAMBDA line : line.t = "BEGIN") = 0
      BY <2>1 DEF SelectInSeq
    <2> QED
      BY <2>2 DEF StripFirstBlock
  <1>3. PICK g : Strips(s, g) /\ StripMarkerBlocks(s) = g[Len(s)]
    BY StripRuns
  <1>4. g[0] = s /\ \A n \in 1..Len(s) : g[n] = StripFirstBlock(g[n - 1])
    BY <1>1, <1>3 DEF Strips
  <1> DEFINE T == {s}
  <1>5. g[0] \in T /\ \A n \in 1..Len(s) : g[n - 1] \in T => g[n] \in T
    BY <1>2, <1>4
  <1>6. g[Len(s)] \in T
    <2> HIDE DEF T
    <2> QED
      BY <1>1, <1>5, Reaches
  <1> QED
    BY <1>3, <1>6

(* Nothing is taken out of a list without the harness.                     *)
LEMMA RestoreSame ==
  ASSUME NEW d \in GameType, d.cmake # NoFile, Authored(d.cmake), ~CMakeListsContain(d.cmake)
  PROVE  TeardownCMakeLists(d) = d
  <1> DEFINE Filter(item) == IF ~IsCode(item, Commands) THEN item
                             ELSE [item EXCEPT !.args = Without(@, "mcp.c")]
             s == d.cmake
             new == [i \in DOMAIN s |-> Filter(s[i])]
  <1>1. s \in Seq(CMakeItems)
    BY DEF GameType
  <1>2. /\ DOMAIN s = 1..Len(s) /\ Len(s) \in Nat
        /\ s \in [1..Len(s) -> CMakeItems] /\ \A i \in 1..Len(s) : s[i] \in CMakeItems
    BY <1>1, LenProperties, ElementOfSeq
  <1>3. ASSUME NEW i \in 1..Len(s) PROVE Filter(s[i]) = s[i]
    <2>1. CASE ~IsCode(s[i], Commands)
      BY <2>1
    <2>2. CASE IsCode(s[i], Commands)
      <3> DEFINE item == s[i]
      <3>1. item \in CMakeCalls
        BY <1>2, <2>2 DEF IsCode, CMakeItems
      <3>2. item.args \in Seq(Sources \cup References) /\ "mcp.c" \notin ToSet(item.args)
        BY <1>2, <2>2, <3>1 DEF CMakeCalls, CMakeListsContain
      <3>3. \A j \in 1..Len(item.args) : item.args[j] \in (Sources \cup References) \ {"mcp.c"}
        <4>1. /\ DOMAIN item.args = 1..Len(item.args)
              /\ \A j \in 1..Len(item.args) : item.args[j] \in Sources \cup References
          BY <3>2, LenProperties, ElementOfSeq
        <4> QED
          BY <3>2, <4>1 DEF ToSet
      <3>4. item.args \in Seq((Sources \cup References) \ {"mcp.c"})
        <4>1. item.args \in [1..Len(item.args) -> Sources \cup References] /\ Len(item.args) \in Nat
          BY <3>2, LenProperties
        <4>2. item.args \in [1..Len(item.args) -> (Sources \cup References) \ {"mcp.c"}]
          BY <3>3, <4>1
        <4> QED
          BY <4>1, <4>2
      <3>5. Without(item.args, "mcp.c") = item.args
        BY <3>4, WithoutAbsent
      <3>6. [item EXCEPT !.args = item.args] = item
        BY <3>1 DEF CMakeCalls
      <3> QED
        BY <2>2, <3>5, <3>6
    <2> QED
      BY <2>1, <2>2
  <1>4. TeardownCMakeLists(d) = [d EXCEPT !.cmake = StripMarkerBlocks(new)]
    BY DEF TeardownCMakeLists
  <1> HIDE DEF Filter
  <1>5. new = s
    BY <1>2, <1>3
  <1>6. StripMarkerBlocks(new) = s
    <2> HIDE DEF new
    <2>1. Authored(new) /\ new \in Seq(CMakeItems)
      BY <1>1, <1>5
    <2> QED
      BY <1>5, <2>1, StripSame
  <1> QED
    BY <1>4, <1>6 DEF GameType

LEMMA FileSame ==
  ASSUME NEW d \in GameType, NEW f \in ToSet(CFiles), NEW s, s = d.c[f]
  PROVE  [d EXCEPT !.c[f] = s] = d
  BY DEF GameType

LEMMA CopySame ==
  ASSUME NEW d \in GameType, NEW name \in Harness, NEW v, v = d.copies[name]
  PROVE  [d EXCEPT !.copies[name] = v] = d
  BY DEF GameType

LEMMA ReadableIs ==
  ASSUME NEW step, NEW d
  PROVE  /\ step[1] \notin {"patch CMakeLists.txt", "patch main.lua"} => Readable(step, d)
         /\ step = <<"patch CMakeLists.txt">> => (Readable(step, d) <=> d.cmake # NoFile)
         /\ step = <<"patch main.lua">> => (Readable(step, d) <=> d.lua # NoFile)
  <1>1. /\ <<"patch CMakeLists.txt">>[1] = "patch CMakeLists.txt"
        /\ <<"patch main.lua">>[1] = "patch main.lua"
    OBVIOUS
  <1>2. "patch CMakeLists.txt" # "patch main.lua"
    OBVIOUS
  <1> QED
    BY <1>1, <1>2 DEF Readable

LEMMA InitSame ==
  ASSUME NEW d \in GameType, Settled(<<"patch init">>, d)
  PROVE  PatchEventHandlerInit(d) = d
  <1> DEFINE h == EventHandler(d.c)
             s == d.c[h]
             at == First(s, InitForms)
  <1>1. h # NoFile /\ Has(s, "mcp.h") /\ (Has(s, "init") \/ NoInitPlace(s))
    BY SettledInit
  <1>2. h \in ToSet(CFiles)
    BY <1>1, FirstFileIs DEF EventHandler
  <1>3. InsertIncludeIfMissing(s) = s
    BY <1>1 DEF InsertIncludeIfMissing
  <1>4. Has(s, "init") \/ at = 0 \/ s[at].t = "bare"
    BY <1>1 DEF NoInitPlace
  <1>5. PatchEventHandlerInit(d) = [d EXCEPT !.c[h] = s]
    BY <1>3, <1>4 DEF PatchEventHandlerInit
  <1> HIDE DEF h
  <1> QED
    BY <1>2, <1>5, FileSame

LEMMA UpdateSame ==
  ASSUME NEW d, Settled(<<"patch update">>, d)
  PROVE  PatchUpdateCallback(d) = d
  BY SettledUpdate DEF PatchUpdateCallback

(* A settled write can be made, and changes nothing.                       *)
LEMMA SettledSame ==
  ASSUME NEW d \in GameType, NEW step \in SetupSteps \cup TeardownSteps, Settled(step, d)
  PROVE  Readable(step, d) /\ After(step, d) = d
  <1>1. ASSUME NEW name \in Harness, step = <<"copy", name>>
        PROVE  Readable(step, d) /\ After(step, d) = d
    <2>1. After(step, d) = [d EXCEPT !.copies[name] = version] /\ d.copies[name] = version
      BY <1>1, SettledNames DEF After
    <2> QED
      BY <1>1, <2>1, CopySame, ReadableIs, SetupDistinct
  <1>2. ASSUME NEW name \in Harness, step = <<"remove", name>>
        PROVE  Readable(step, d) /\ After(step, d) = d
    <2>1. /\ After(step, d) = IF name = "mcp.lua" /\ KeepsLuaHarness(d) THEN d
                              ELSE [d EXCEPT !.copies[name] = 0]
          /\ d.copies[name] = 0 \/ (name = "mcp.lua" /\ KeepsLuaHarness(d))
      BY <1>2, SettledNames DEF After
    <2> QED
      BY <1>2, <2>1, CopySame, ReadableIs, StepDistinct
  <1>3. CASE step = <<"patch CMakeLists.txt">>
    BY <1>3, SettledNames, ReadableIs DEF After
  <1>4. CASE step = <<"patch init">>
    <2>1. After(step, d) = PatchEventHandlerInit(d) /\ Readable(step, d)
      BY <1>4 DEF After, Readable
    <2> QED
      BY <1>4, <2>1, InitSame
  <1>5. CASE step = <<"patch update">>
    <2>1. After(step, d) = PatchUpdateCallback(d) /\ Readable(step, d)
      BY <1>5 DEF After, Readable
    <2> QED
      BY <1>5, <2>1, UpdateSame
  <1>6. ASSUME NEW f \in ToSet(CFiles), step = <<"patch input", f>>
        PROVE  Readable(step, d) /\ After(step, d) = d
    <2>1. After(step, d) = PatchInputCalls(d, f) /\ ~Has(d.c[f], "input")
      BY <1>6, SettledNames DEF After
    <2> QED
      BY <1>6, <2>1, ReadableIs, SetupDistinct DEF PatchInputCalls
  <1>7. CASE step = <<"patch main.lua">>
    <2>1. After(step, d) = PatchLuaMain(d) /\ d.lua # NoFile /\ Imports(d.lua)
      BY <1>7, SettledNames DEF After
    <2> QED
      BY <1>7, <2>1, ReadableIs DEF PatchLuaMain
  <1>8. CASE step = <<"restore CMakeLists.txt">>
    <2>1. After(step, d) = TeardownCMakeLists(d) /\ Readable(step, d)
      BY <1>8 DEF After, Readable
    <2>2. d.cmake # NoFile => Authored(d.cmake) /\ ~CMakeListsContain(d.cmake)
      BY <1>8, SettledNames
    <2>3. d.cmake = NoFile => TeardownCMakeLists(d) = d
      BY DEF TeardownCMakeLists
    <2> QED
      BY <2>1, <2>2, <2>3, RestoreSame
  <1>9. ASSUME NEW f \in ToSet(CFiles), step = <<"strip", f>>
        PROVE  Readable(step, d) /\ After(step, d) = d
    <2>1. After(step, d) = [d EXCEPT !.c[f] = StripMarkerBlocks(@)] /\ Authored(d.c[f])
      BY <1>9, SettledNames DEF After
    <2>2. d.c[f] \in Seq(Lines)
      BY DEF GameType
    <2>3. StripMarkerBlocks(d.c[f]) = d.c[f]
      BY <2>1, <2>2, StripSame
    <2> QED
      BY <1>9, <2>1, <2>3, FileSame, ReadableIs, StepDistinct
  <1>10. CASE step = <<"strip main.lua">>
    <2>1. After(step, d) = StripLuaMain(d) /\ (d.lua # NoFile => Authored(d.lua))
      BY <1>10, SettledNames DEF After
    <2>2. d.lua # NoFile => d.lua \in Seq(Lines)
      BY DEF GameType
    <2>3. d.lua # NoFile => StripMarkerBlocks(d.lua) = d.lua
      BY <2>1, <2>2, StripSame
    <2>4. StripLuaMain(d) = d
      BY <2>3 DEF StripLuaMain, GameType
    <2> QED
      BY <1>10, <2>1, <2>4, ReadableIs, StepDistinct
  <1>11. step \in WiringC => \/ step = <<"patch init">> \/ step = <<"patch update">>
                             \/ \E f \in ToSet(CFiles) : step = <<"patch input", f>>
    BY DEF WiringC
  <1> QED
    BY <1>1, <1>2, <1>3, <1>4, <1>5, <1>6, <1>7, <1>8, <1>9, <1>10, <1>11, StepNames

-----------------------------------------------------------------------------
(* CMakeLists.txt patched twice is patched once, when the source lists that  *)
(* are found are code.                                                       *)

CodeLists(s) ==
    \A i \in DOMAIN s : s[i].t \in {"set", "project"} /\ s[i].alone => s[i].code

(* The same call, but for its arguments.                                     *)
SameCall(x, y) == x.t = y.t /\ x.alone = y.alone /\ x.code = y.code

LEMMA CodeFrom ==
  ASSUME NEW s, NEW r, CodeLists(s),
         \A k \in DOMAIN r : \/ r[k].t \notin {"set", "project"}
                             \/ \E j \in DOMAIN s : SameCall(r[k], s[j])
  PROVE  CodeLists(r)
  BY DEF CodeLists, SameCall

(* The definition a reference is followed to.                              *)
SetAt(s, ref) == SelectInSeq(s, LAMBDA item : item.t = "set" /\ item.name = ref)

SameBodies(r, s) ==
    \A ref : /\ (SetAt(r, ref) = 0) <=> (SetAt(s, ref) = 0)
             /\ SetAt(s, ref) # 0 => r[SetAt(r, ref)].args = s[SetAt(s, ref)].args

LEMMA TargetSame ==
  ASSUME NEW r, NEW s, SameBodies(r, s), NEW args, NEW game
  PROVE  TargetBuildsGame(r, args, game) <=> TargetBuildsGame(s, args, game)
  <1> DEFINE Follows(c, ref) ==
               LET i == SetAt(c, ref)
                   body == ToSet(c[i].args)
               IN i = 0 \/ body \cap References # {} \/ BuildsGame(body, game)
  <1>1. ASSUME NEW ref PROVE Follows(r, ref) <=> Follows(s, ref)
    BY DEF SameBodies
  <1>2. ASSUME NEW c
        PROVE  TargetBuildsGame(c, args, game) <=>
                 BuildsGame(args, game) \/ \E ref \in args \cap References : Follows(c, ref)
    BY DEF TargetBuildsGame, SetAt
  <1> HIDE DEF Follows
  <1> QED
    BY <1>1, <1>2

LEMMA SetAtIs ==
  ASSUME NEW s, Len(s) \in Nat, NEW ref
  PROVE  \/ /\ SetAt(s, ref) = 0
            /\ \A i \in 1..Len(s) : ~(s[i].t = "set" /\ s[i].name = ref)
         \/ /\ SetAt(s, ref) \in 1..Len(s)
            /\ s[SetAt(s, ref)].t = "set" /\ s[SetAt(s, ref)].name = ref
            /\ \A i \in 1..Len(s) : s[i].t = "set" /\ s[i].name = ref => SetAt(s, ref) <= i
  <1> DEFINE I == {i \in 1..Len(s) : s[i].t = "set" /\ s[i].name = ref}
  <1>1. I \in SUBSET Nat
    OBVIOUS
  <1>2. SetAt(s, ref) = IF I = {} THEN 0 ELSE Min(I)
    BY DEF SetAt, SelectInSeq
  <1>3. I # {} => Min(I) \in I /\ \A n \in I : Min(I) <= n
    <2> HIDE DEF I
    <2> QED
      BY <1>1, MinInSet
  <1>4. CASE I = {}
    BY <1>2, <1>4
  <1>5. CASE I # {}
    <2> DEFINE at == SetAt(s, ref)
    <2>1. at \in I /\ \A n \in I : at <= n
      BY <1>2, <1>3, <1>5
    <2> HIDE DEF at
    <2>2. /\ at \in 1..Len(s) /\ s[at].t = "set" /\ s[at].name = ref
          /\ \A i \in 1..Len(s) : s[i].t = "set" /\ s[i].name = ref => at <= i
      BY <2>1
    <2> QED
      BY <2>2 DEF at
  <1> QED
    BY <1>4, <1>5

LEMMA BodiesListed ==
  ASSUME NEW s, NEW r, Len(r) = Len(s),
         \A i \in 1..Len(s) : r[i].t = s[i].t /\ (s[i].t = "set" => r[i] = s[i]), Len(s) \in Nat
  PROVE  SameBodies(r, s)
  <1>1. ASSUME NEW ref
        PROVE  /\ (SetAt(r, ref) = 0) <=> (SetAt(s, ref) = 0)
               /\ SetAt(s, ref) # 0 => r[SetAt(r, ref)].args = s[SetAt(s, ref)].args
    <2>1. {i \in 1..Len(r) : r[i].t = "set" /\ r[i].name = ref}
            = {i \in 1..Len(s) : s[i].t = "set" /\ s[i].name = ref}
      OBVIOUS
    <2>2. SetAt(r, ref) = SetAt(s, ref)
      BY <2>1 DEF SetAt, SelectInSeq
    <2>3. SetAt(s, ref) # 0 => r[SetAt(s, ref)] = s[SetAt(s, ref)]
      BY SetAtIs
    <2> QED
      BY <2>2, <2>3
  <1> QED
    BY <1>1 DEF SameBodies

(* Where the items are of a sequence with a block more.                    *)
LEMMA BlockItems ==
  ASSUME NEW S, NEW s \in Seq(S), NEW r, NEW i, WithBlock(r, s, i)
  PROVE  /\ \A k \in 1..Len(r) :
              \/ k = i + 1 \/ k = i + 2 \/ k = i + 3
              \/ k \in 1..i /\ k \in 1..Len(s) /\ r[k] = s[k]
              \/ k - 3 \in (i + 1)..Len(s) /\ k - 3 \in 1..Len(s) /\ r[k] = s[k - 3]
         /\ \A k \in 1..Len(s) :
              \/ k \in 1..i /\ k \in 1..Len(r) /\ r[k] = s[k]
              \/ k \in (i + 1)..Len(s) /\ k + 3 \in 1..Len(r) /\ r[k + 3] = s[k]
  <1>1. /\ Len(s) \in Nat /\ i \in 0..Len(s) /\ Len(r) = Len(s) + 3
        /\ \A j \in 1..i : r[j] = s[j]
        /\ \A j \in (i + 1)..Len(s) : r[j + 3] = s[j]
    BY LenProperties DEF WithBlock
  <1>2. ASSUME NEW k \in 1..Len(r)
        PROVE  \/ k = i + 1 \/ k = i + 2 \/ k = i + 3
               \/ k \in 1..i /\ k \in 1..Len(s) /\ r[k] = s[k]
               \/ k - 3 \in (i + 1)..Len(s) /\ k - 3 \in 1..Len(s) /\ r[k] = s[k - 3]
    <2>1. \/ k = i + 1 \/ k = i + 2 \/ k = i + 3
          \/ k \in 1..i /\ k \in 1..Len(s)
          \/ k - 3 \in (i + 1)..Len(s) /\ k - 3 \in 1..Len(s) /\ (k - 3) + 3 = k
      BY <1>1
    <2> QED
      BY <1>1, <2>1
  <1>3. ASSUME NEW k \in 1..Len(s)
        PROVE  \/ k \in 1..i /\ k \in 1..Len(r) /\ r[k] = s[k]
               \/ k \in (i + 1)..Len(s) /\ k + 3 \in 1..Len(r) /\ r[k + 3] = s[k]
    BY <1>1
  <1> QED
    BY <1>2, <1>3

LEMMA BodiesWithBlock ==
  ASSUME NEW S, NEW s \in Seq(S), NEW r \in Seq(S), NEW i, WithBlock(r, s, i),
         r[i + 1].t # "set", r[i + 2].t # "set", r[i + 3].t # "set"
  PROVE  SameBodies(r, s)
  <1>1. /\ Len(s) \in Nat /\ Len(r) \in Nat /\ i \in 0..Len(s)
    BY LenProperties DEF WithBlock
  <1>2. ASSUME NEW ref
        PROVE  /\ (SetAt(r, ref) = 0) <=> (SetAt(s, ref) = 0)
               /\ SetAt(s, ref) # 0 => r[SetAt(r, ref)].args = s[SetAt(s, ref)].args
    <2> DEFINE a == SetAt(s, ref)
               e == SetAt(r, ref)
               Sets(item) == item.t = "set" /\ item.name = ref
    <2>1. \/ a = 0 /\ \A k \in 1..Len(s) : ~Sets(s[k])
          \/ a \in 1..Len(s) /\ Sets(s[a]) /\ \A k \in 1..Len(s) : Sets(s[k]) => a <= k
      BY <1>1, SetAtIs
    <2>2. \/ e = 0 /\ \A k \in 1..Len(r) : ~Sets(r[k])
          \/ e \in 1..Len(r) /\ Sets(r[e]) /\ \A k \in 1..Len(r) : Sets(r[k]) => e <= k
      BY <1>1, SetAtIs
    <2>3. ~Sets(r[i + 1]) /\ ~Sets(r[i + 2]) /\ ~Sets(r[i + 3])
      OBVIOUS
    <2> HIDE DEF a, e, Sets
    <2>4. /\ \A k \in 1..Len(r) :
               \/ k = i + 1 \/ k = i + 2 \/ k = i + 3
               \/ k \in 1..i /\ k \in 1..Len(s) /\ r[k] = s[k]
               \/ k - 3 \in (i + 1)..Len(s) /\ k - 3 \in 1..Len(s) /\ r[k] = s[k - 3]
          /\ \A k \in 1..Len(s) :
               \/ k \in 1..i /\ k \in 1..Len(r) /\ r[k] = s[k]
               \/ k \in (i + 1)..Len(s) /\ k + 3 \in 1..Len(r) /\ r[k + 3] = s[k]
      BY BlockItems
    <2>5. CASE a = 0
      <3>1. \A k \in 1..Len(s) : ~Sets(s[k])
        BY <2>1, <2>5
      <3>2. \A k \in 1..Len(r) : ~Sets(r[k])
        BY <2>3, <2>4, <3>1
      <3>3. e = 0
        BY <2>2, <3>2
      <3> QED
        BY <2>5, <3>3 DEF a, e
    <2>6. CASE a # 0
      <3> DEFINE b == IF a <= i THEN a ELSE a + 3
      <3>1. a \in 1..Len(s) /\ Sets(s[a]) /\ \A k \in 1..Len(s) : Sets(s[k]) => a <= k
        BY <2>1, <2>6
      <3>2. b \in 1..Len(r) /\ r[b] = s[a]
        BY <1>1, <2>4, <3>1
      <3>3. /\ e \in 1..Len(r) /\ Sets(r[e]) /\ e <= b
            /\ e # i + 1 /\ e # i + 2 /\ e # i + 3
        BY <2>2, <2>3, <3>1, <3>2
      <3>4. r[e] = s[a]
        <4>1. CASE e \in 1..i /\ e \in 1..Len(s) /\ r[e] = s[e]
          <5>1. a <= e
            BY <3>1, <3>3, <4>1
          <5>2. e = a
            BY <1>1, <3>1, <3>3, <4>1, <5>1
          <5> QED
            BY <4>1, <5>2
        <4>2. CASE e - 3 \in (i + 1)..Len(s) /\ e - 3 \in 1..Len(s) /\ r[e] = s[e - 3]
          <5>1. a <= e - 3
            BY <3>1, <3>3, <4>2
          <5>2. e - 3 = a
            BY <1>1, <3>1, <3>3, <4>2, <5>1
          <5> QED
            BY <4>2, <5>2
        <4> QED
          BY <2>4, <3>3, <4>1, <4>2
      <3>5. e # 0
        BY <3>3
      <3> QED
        BY <2>6, <3>4, <3>5 DEF a, e
    <2> QED
      BY <2>5, <2>6
  <1> QED
    BY <1>2 DEF SameBodies

(* Whether s with include_directories added still lists the harness, and has
   the same items else.                                                    *)
LEMMA IncludeDirectoriesSame ==
  ASSUME NEW s \in Seq(CMakeItems), NEW r, r = PatchCMakeIncludeDirectories(s)
  PROVE  /\ r \in Seq(CMakeItems)
         /\ CodeLists(s) => PatchCMakeIncludeDirectories(r) = r
         /\ SameBodies(r, s)
         /\ \A k \in 1..Len(r) : \/ r[k].t \in {"BEGIN", "include_directories", "END"}
                                 \/ \E j \in 1..Len(s) : r[k] = s[j]
         /\ \A j \in 1..Len(s) : \E k \in 1..Len(r) : r[k] = s[j]
  <1> DEFINE Project(item) == item.t = "project" /\ item.alone
             project == SelectInSeq(s, LAMBDA item : Project(item))
             P == {i \in 1..Len(s) : Project(s[i])}
             line == [t |-> "include_directories", code |-> s[project].code, own |-> FALSE]
             block == MarkerBlock(line)
             new == Insert(s, project, block)
  <1>1. Len(s) \in Nat
    BY LenProperties
  <1>2. r = IF Has(s, "include_directories") \/ project = 0 THEN s ELSE new
    BY DEF PatchCMakeIncludeDirectories
  <1>3. DOMAIN s = 1..Len(s)
    BY LenProperties
  <1>4. ASSUME project # 0
        PROVE  project \in 1..Len(s) /\ (CodeLists(s) => s[project].code)
    <2>1. P # {} /\ project = Min(P)
      BY <1>4 DEF SelectInSeq
    <2>2. P \in SUBSET Nat
      BY <1>1
    <2>3. project \in P
      <3> HIDE DEF P, project
      <3> QED
        BY <2>1, <2>2, MinInSet
    <2> HIDE DEF project
    <2>4. project \in 1..Len(s) /\ s[project].t = "project" /\ s[project].alone
      BY <2>3
    <2> QED
      BY <1>3, <2>4 DEF CodeLists
  <1> HIDE DEF project
  <1>5. r \in Seq(CMakeItems)
    BY IncludeDirectoriesType
  <1>6. CASE r = s
    <2>1. SameBodies(r, s)
      BY <1>6 DEF SameBodies
    <2> QED
      BY <1>5, <1>6, <2>1
  <1>7. CASE r # s
    <2>1. project # 0 /\ r = new
      BY <1>2, <1>7
    <2>2. project \in 1..Len(s) /\ project \in 0..Len(s) /\ (CodeLists(s) => s[project].code)
      BY <1>1, <1>4, <2>1
    <2>21. /\ block \in Seq(CMakeItems) /\ line.t = "include_directories" /\ ~line.own
           /\ s[project].code => line = Line("include_directories")
      BY <2>2, DirectoriesLine
    <2>22. "include_directories" \in Inserted
      BY DEF Inserted
    <2> HIDE DEF line
    <2>3. /\ WithBlock(r, s, project)
          /\ r[project + 1] = Marker("BEGIN") /\ r[project + 2] = line
          /\ r[project + 3] = Marker("END")
      BY <2>21, <2>1, <2>2, <2>22, LineInserted
    <2>4. /\ r[project + 1].t = "BEGIN" /\ r[project + 2].t = "include_directories"
          /\ r[project + 3].t = "END"
      BY <2>21, <2>3 DEF Marker
    <2>5. CodeLists(s) => Has(r, "include_directories")
      BY <2>21, <2>1, <2>2, <2>22, HasInserted
    <2>6. CodeLists(s) => PatchCMakeIncludeDirectories(r) = r
      BY <2>5 DEF PatchCMakeIncludeDirectories
    <2>7. SameBodies(r, s)
      BY <1>5, <2>3, <2>4, BodiesWithBlock
    <2>8. /\ \A k \in 1..Len(r) :
               \/ k = project + 1 \/ k = project + 2 \/ k = project + 3
               \/ k \in 1..project /\ k \in 1..Len(s) /\ r[k] = s[k]
               \/ k - 3 \in (project + 1)..Len(s) /\ k - 3 \in 1..Len(s) /\ r[k] = s[k - 3]
          /\ \A k \in 1..Len(s) :
               \/ k \in 1..project /\ k \in 1..Len(r) /\ r[k] = s[k]
               \/ k \in (project + 1)..Len(s) /\ k + 3 \in 1..Len(r) /\ r[k + 3] = s[k]
      BY <2>3, BlockItems
    <2>9. \A k \in 1..Len(r) : \/ r[k].t \in {"BEGIN", "include_directories", "END"}
                               \/ \E j \in 1..Len(s) : r[k] = s[j]
      BY <2>4, <2>8
    <2>10. \A j \in 1..Len(s) : \E k \in 1..Len(r) : r[k] = s[j]
      BY <2>8
    <2> QED
      BY <1>5, <2>6, <2>7, <2>9, <2>10
  <1> QED
    BY <1>6, <1>7

LEMMA IncludeDirectoriesItems ==
  ASSUME NEW s \in Seq(CMakeItems), NEW r, r = PatchCMakeIncludeDirectories(s)
  PROVE  \A k \in 1..Len(r) : \/ r[k].t \in {"BEGIN", "include_directories", "END"}
                              \/ \E j \in 1..Len(s) : r[k] = s[j]
  BY IncludeDirectoriesSame

LEMMA ContainSame ==
  ASSUME NEW s \in Seq(CMakeItems), NEW r, r = PatchCMakeIncludeDirectories(s)
  PROVE  CMakeListsContain(r) <=> CMakeListsContain(s)
  <1>1. r \in Seq(CMakeItems)
    BY IncludeDirectoriesSame
  <1>2. \A k \in 1..Len(r) : \/ r[k].t \in {"BEGIN", "include_directories", "END"}
                             \/ \E j \in 1..Len(s) : r[k] = s[j]
    BY IncludeDirectoriesItems
  <1>3. \A j \in 1..Len(s) : \E k \in 1..Len(r) : r[k] = s[j]
    BY IncludeDirectoriesSame
  <1>4. DOMAIN r = 1..Len(r) /\ DOMAIN s = 1..Len(s)
    BY <1>1, LenProperties
  <1> DEFINE Holds(item) == IsCode(item, Commands) /\ "mcp.c" \in ToSet(item.args)
  <1>5. ASSUME NEW k \in 1..Len(r), Holds(r[k]) PROVE \E j \in 1..Len(s) : Holds(s[j])
    <2>1. r[k].t \notin {"BEGIN", "include_directories", "END"}
      BY <1>5 DEF IsCode, Commands
    <2>2. PICK j \in 1..Len(s) : r[k] = s[j]
      BY <1>2, <2>1
    <2> QED
      BY <1>5, <2>2
  <1>6. ASSUME NEW j \in 1..Len(s), Holds(s[j]) PROVE \E k \in 1..Len(r) : Holds(r[k])
    <2>1. PICK k \in 1..Len(r) : r[k] = s[j]
      BY <1>3
    <2> QED
      BY <1>6, <2>1
  <1>7. /\ CMakeListsContain(r) <=> \E k \in 1..Len(r) : Holds(r[k])
        /\ CMakeListsContain(s) <=> \E j \in 1..Len(s) : Holds(s[j])
    BY <1>4 DEF CMakeListsContain
  <1> HIDE DEF Holds
  <1> QED
    BY <1>5, <1>6, <1>7

(* What listing the harness makes of the items of s that hold no list.     *)
ListsIn(s, game) ==
    {i \in 1..Len(s) : s[i].t = "set" /\ s[i].alone /\ BuildsGame(ToSet(s[i].args), game)}

Targets(s, game) ==
    {i \in 1..Len(s) : /\ s[i].t = "add" /\ "mcp.c" \notin ToSet(s[i].args)
                       /\ TargetBuildsGame(s, ToSet(s[i].args), game)}

LEMMA SourceListIs ==
  ASSUME NEW s \in Seq(CMakeItems), NEW game, NEW u, u = PatchCMakeSourceList(s, game)
  PROVE  /\ ListsIn(s, game) # {} =>
              \E i \in ListsIn(s, game) : u[i] = AddHarness(s[i]) /\ i \in DOMAIN u
         /\ ListsIn(s, game) = {} =>
              u = [i \in DOMAIN s |-> IF i \in Targets(s, game) THEN AddHarness(s[i]) ELSE s[i]]
  <1> DEFINE List(item) == item.t = "set" /\ item.alone /\ BuildsGame(ToSet(item.args), game)
             list == SelectInSeq(s, LAMBDA item : List(item))
             L == ListsIn(s, game)
             Target(item) == /\ item.t = "add" /\ "mcp.c" \notin ToSet(item.args)
                             /\ TargetBuildsGame(s, ToSet(item.args), game)
             new == [i \in DOMAIN s |-> IF Target(s[i]) THEN AddHarness(s[i]) ELSE s[i]]
  <1>1. DOMAIN s = 1..Len(s) /\ Len(s) \in Nat
    BY LenProperties
  <1>2. u = IF list # 0 THEN [s EXCEPT ![list] = AddHarness(@)] ELSE new
    BY DEF PatchCMakeSourceList
  <1>3. list = IF L = {} THEN 0 ELSE Min(L)
    BY DEF SelectInSeq, ListsIn
  <1>4. L \in SUBSET Nat /\ L \subseteq 1..Len(s) /\ 0 \notin L
    BY <1>1 DEF ListsIn
  <1>5. L # {} => Min(L) \in L
    BY <1>4, MinInSet
  <1> HIDE DEF L, list
  <1>6. ASSUME L # {} PROVE list \in L /\ u[list] = AddHarness(s[list]) /\ list \in DOMAIN u
    <2>1. list \in L /\ list # 0
      BY <1>3, <1>4, <1>5, <1>6
    <2>2. u = [s EXCEPT ![list] = AddHarness(@)] /\ list \in DOMAIN s
      BY <1>1, <1>2, <1>4, <2>1
    <2> QED
      BY <2>1, <2>2
  <1>7. ASSUME L = {}
        PROVE  u = [i \in DOMAIN s |-> IF i \in Targets(s, game) THEN AddHarness(s[i]) ELSE s[i]]
    <2>1. u = new
      BY <1>2, <1>3, <1>7
    <2>2. \A i \in DOMAIN s : i \in Targets(s, game) <=> Target(s[i])
      BY <1>1 DEF Targets
    <2> HIDE DEF Target
    <2> QED
      BY <2>1, <2>2
  <1> QED
    BY <1>6, <1>7 DEF L

LEMMA AddHarnessLists ==
  ASSUME NEW item \in CMakeItems, item.t \in {"set", "add"}
  PROVE  /\ AddHarness(item).t = item.t /\ AddHarness(item).code = item.code
         /\ AddHarness(item).alone = item.alone
         /\ "mcp.c" \in ToSet(AddHarness(item).args)
  <1>1. item \in CMakeCalls
    BY DEF CMakeItems, Commands
  <1>2. item.args \in Seq(Sources \cup References) /\ "mcp.c" \in Sources \cup References
    BY <1>1, ConstantsAssumption DEF CMakeCalls
  <1> DEFINE new == Append(item.args, "mcp.c")
  <1>3. /\ Len(item.args) \in Nat /\ DOMAIN new = 1..(Len(item.args) + 1)
        /\ new[Len(item.args) + 1] = "mcp.c"
    BY <1>2, LenProperties, AppendProperties
  <1>4. "mcp.c" \in ToSet(new)
    <2> HIDE DEF new
    <2>1. Len(item.args) + 1 \in DOMAIN new
      BY <1>3
    <2> QED
      BY <1>3, <2>1 DEF ToSet
  <1>5. AddHarness(item) = [item EXCEPT !.args = new]
    BY DEF AddHarness
  <1> HIDE DEF new
  <1> QED
    BY <1>1, <1>4, <1>5 DEF CMakeCalls

LEMMA ListedCode ==
  ASSUME NEW s \in Seq(CMakeItems), CodeLists(s), NEW game
  PROVE  CodeLists(PatchCMakeSourceList(s, game))
  <1> DEFINE u == PatchCMakeSourceList(s, game)
  <1>1. u \in Seq(CMakeItems) /\ Lists(u, s)
    BY SourceListType, SourceListLists
  <1> HIDE DEF u
  <1>2. /\ DOMAIN u = 1..Len(u) /\ DOMAIN s = 1..Len(s) /\ Len(u) = Len(s)
        /\ \A i \in 1..Len(s) : s[i] \in CMakeItems
    BY <1>1, LenProperties, ElementOfSeq DEF Lists
  <1>3. ASSUME NEW k \in 1..Len(s) PROVE SameCall(u[k], s[k])
    <2>1. u[k] = s[k] \/ (s[k].t \in {"set", "add"} /\ u[k] = AddHarness(s[k]))
      BY <1>1 DEF Lists
    <2>2. s[k].t \in {"set", "add"} =>
            /\ AddHarness(s[k]).t = s[k].t /\ AddHarness(s[k]).code = s[k].code
            /\ AddHarness(s[k]).alone = s[k].alone
      BY <1>2, AddHarnessLists
    <2> QED
      BY <2>1, <2>2 DEF SameCall
  <1>4. CodeLists(u)
    BY <1>2, <1>3, CodeFrom
  <1> QED
    BY <1>4 DEF u

LEMMA PatchTwice ==
  ASSUME NEW s \in Seq(CMakeItems), CodeLists(s), NEW game, NEW listed, NEW r,
         listed = IF CMakeListsContain(s) THEN s ELSE PatchCMakeSourceList(s, game),
         r = PatchCMakeIncludeDirectories(listed)
  PROVE  /\ PatchCMakeIncludeDirectories(r) = r
         /\ CMakeListsContain(r) \/ PatchCMakeSourceList(r, game) = r
  <1>1. DOMAIN s = 1..Len(s) /\ Len(s) \in Nat /\ \A i \in 1..Len(s) : s[i] \in CMakeItems
    BY LenProperties, ElementOfSeq
  <1>2. listed \in Seq(CMakeItems) /\ CodeLists(listed)
    BY SourceListType, ListedCode
  <1>3. r \in Seq(CMakeItems) /\ PatchCMakeIncludeDirectories(r) = r
    BY <1>2, IncludeDirectoriesSame
  <1>4. CMakeListsContain(r) <=> CMakeListsContain(listed)
    BY <1>2, ContainSame
  <1>5. ASSUME ~CMakeListsContain(r) PROVE PatchCMakeSourceList(r, game) = r
    <2>1. ~CMakeListsContain(listed) /\ listed = PatchCMakeSourceList(s, game)
      BY <1>4, <1>5
    <2>2. DOMAIN listed = 1..Len(listed)
      BY <1>2, LenProperties
    <2>3. ListsIn(s, game) = {}
      <3>1. SUFFICES ASSUME ListsIn(s, game) # {} PROVE FALSE
        OBVIOUS
      <3>2. PICK i \in ListsIn(s, game) : listed[i] = AddHarness(s[i]) /\ i \in DOMAIN listed
        BY <2>1, <3>1, SourceListIs
      <3>3. i \in 1..Len(s) /\ s[i].t = "set" /\ s[i].code
        BY <1>1 DEF ListsIn, CodeLists
      <3>4. listed[i].t = "set" /\ listed[i].code /\ "mcp.c" \in ToSet(listed[i].args)
        BY <1>1, <3>2, <3>3, AddHarnessLists
      <3> QED
        BY <2>1, <3>2, <3>4 DEF CMakeListsContain, IsCode, Commands
    <2>4. listed = [i \in DOMAIN s |-> IF i \in Targets(s, game) THEN AddHarness(s[i]) ELSE s[i]]
      BY <2>1, <2>3, SourceListIs
    <2>5. /\ Len(listed) = Len(s)
          /\ \A i \in 1..Len(s) : listed[i] = IF i \in Targets(s, game) THEN AddHarness(s[i]) ELSE s[i]
      <3>1. DOMAIN listed = 1..Len(s)
        BY <1>1, <2>4
      <3>2. Len(listed) = Len(s)
        BY <1>1, <1>2, <3>1, LenProperties
      <3> QED
        BY <1>1, <2>4, <3>2
    <2>6. \A i \in Targets(s, game) : i \in 1..Len(s) /\ s[i].t = "add"
      BY DEF Targets
    <2>7. ASSUME NEW i \in 1..Len(s)
          PROVE  /\ listed[i].t = s[i].t
                 /\ s[i].t = "set" => listed[i] = s[i]
                 /\ i \in Targets(s, game) => "mcp.c" \in ToSet(listed[i].args)
                 /\ i \notin Targets(s, game) => listed[i] = s[i]
      <3>1. CASE i \in Targets(s, game)
        <4>1. s[i].t = "add" /\ s[i] \in CMakeItems /\ listed[i] = AddHarness(s[i])
          BY <1>1, <2>5, <2>6, <3>1
        <4>2. listed[i].t = s[i].t /\ "mcp.c" \in ToSet(listed[i].args)
          BY <4>1, AddHarnessLists
        <4> QED
          BY <3>1, <4>1, <4>2
      <3>2. CASE i \notin Targets(s, game)
        BY <2>5, <3>2
      <3> QED
        BY <3>1, <3>2
    <2>8. SameBodies(r, s)
      <3>1. SameBodies(listed, s)
        BY <1>1, <2>5, <2>7, BodiesListed
      <3>2. SameBodies(r, listed)
        BY <1>2, IncludeDirectoriesSame
      <3> QED
        BY <3>1, <3>2 DEF SameBodies
    <2>9. \A k \in 1..Len(r) : r[k].t \in {"set", "add"} => \E j \in 1..Len(s) : r[k] = listed[j]
      <3>1. \A k \in 1..Len(r) : \/ r[k].t \in {"BEGIN", "include_directories", "END"}
                                 \/ \E j \in 1..Len(listed) : r[k] = listed[j]
        BY <1>2, IncludeDirectoriesItems
      <3> QED
        BY <2>5, <3>1
    <2>10. ListsIn(r, game) = {}
      <3>1. SUFFICES ASSUME NEW k \in ListsIn(r, game) PROVE FALSE
        OBVIOUS
      <3>2. /\ k \in 1..Len(r) /\ r[k].t = "set" /\ r[k].alone
            /\ BuildsGame(ToSet(r[k].args), game)
        BY DEF ListsIn
      <3>3. PICK j \in 1..Len(s) : r[k] = listed[j]
        BY <2>9, <3>2
      <3>4. r[k] = s[j]
        BY <2>7, <3>2, <3>3
      <3>5. j \in ListsIn(s, game)
        BY <3>2, <3>4 DEF ListsIn
      <3> QED
        BY <2>3, <3>5
    <2>11. Targets(r, game) = {}
      <3>1. SUFFICES ASSUME NEW k \in Targets(r, game) PROVE FALSE
        OBVIOUS
      <3>2. /\ k \in 1..Len(r) /\ r[k].t = "add" /\ "mcp.c" \notin ToSet(r[k].args)
            /\ TargetBuildsGame(r, ToSet(r[k].args), game)
        BY DEF Targets
      <3>3. PICK j \in 1..Len(s) : r[k] = listed[j]
        BY <2>9, <3>2
      <3>4. j \notin Targets(s, game) /\ r[k] = s[j]
        BY <2>7, <3>2, <3>3
      <3>5. TargetBuildsGame(s, ToSet(s[j].args), game)
        BY <2>8, <3>2, <3>4, TargetSame
      <3>6. j \in Targets(s, game)
        BY <3>2, <3>4, <3>5 DEF Targets
      <3> QED
        BY <3>4, <3>6
    <2>12. r = [i \in DOMAIN r |-> r[i]]
      BY <1>3
    <2>13. PatchCMakeSourceList(r, game)
             = [i \in DOMAIN r |-> IF i \in Targets(r, game) THEN AddHarness(r[i]) ELSE r[i]]
      BY <1>3, <2>10, SourceListIs
    <2> QED
      BY <2>11, <2>12, <2>13
  <1> QED
    BY <1>3, <1>5

LEMMA CMakeSettles ==
  ASSUME NEW d \in GameType, d.cmake \in Seq(CMakeItems), CodeLists(d.cmake),
         NEW e, e = PatchCMakeLists(d)
  PROVE  e.cmake # NoFile /\ PatchCMakeLists(e) = e
  <1> DEFINE game == EventHandler(d.c)
             listed == IF CMakeListsContain(d.cmake) THEN d.cmake
                       ELSE PatchCMakeSourceList(d.cmake, game)
             r == PatchCMakeIncludeDirectories(listed)
  <1>1. e \in GameType /\ e.cmake \in Seq(CMakeItems) /\ e.c = d.c
    BY CMakeType
  <1>2. e.cmake = r
    BY DEF PatchCMakeLists, GameType
  <1>3. PatchCMakeIncludeDirectories(r) = r /\ (CMakeListsContain(r) \/ PatchCMakeSourceList(r, game) = r)
    BY PatchTwice
  <1> HIDE DEF r
  <1> DEFINE again == IF CMakeListsContain(r) THEN r ELSE PatchCMakeSourceList(r, game)
  <1>4. again = r
    BY <1>3
  <1>5. EventHandler(e.c) = game
    BY <1>1
  <1> HIDE DEF game
  <1>6. PatchCMakeLists(e) = [e EXCEPT !.cmake = PatchCMakeIncludeDirectories(again)]
    <2>1. ASSUME NEW x, x.cmake = r, EventHandler(x.c) = game
          PROVE  PatchCMakeLists(x) = [x EXCEPT !.cmake = PatchCMakeIncludeDirectories(again)]
      BY <2>1 DEF PatchCMakeLists
    <2> HIDE DEF again
    <2> QED
      BY <1>2, <1>5, <2>1
  <1>7. PatchCMakeLists(e) = [e EXCEPT !.cmake = e.cmake]
    BY <1>2, <1>3, <1>4, <1>6
  <1>8. [e EXCEPT !.cmake = e.cmake] = e
    BY <1>1 DEF GameType
  <1> QED
    BY <1>1, <1>7, <1>8, NoFileAssumption

-----------------------------------------------------------------------------
(* A write settles what it is for.                                         *)

LEMMA InitSettles ==
  ASSUME NEW d \in GameType, EventHandler(d.c) # NoFile, NEW e, e = PatchEventHandlerInit(d)
  PROVE  Settled(<<"patch init">>, e)
  <1> DEFINE h == EventHandler(d.c)
             u == InsertIncludeIfMissing(d.c[h])
             at == First(u, InitForms)
             placed == Insert(u, at, MarkerBlock(Line("init")))
             new == IF Has(u, "init") \/ at = 0 \/ u[at].t = "bare" THEN u ELSE placed
  <1>1. e = WithFile(d, h, new)
    BY DEF PatchEventHandlerInit, WithFile
  <1>2. AllGrow(e, d) /\ Has(e.c[h], "mcp.h")
    BY InitWires
  <1>3. h \in ToSet(CFiles) /\ EventHandler(e.c) = h
    BY <1>2, HandlerStays
  <1>4. d.c[h] \in Seq(Lines)
    BY <1>3 DEF GameType
  <1> HIDE DEF h
  <1>5. u \in Seq(Lines)
    BY <1>4, IncludeType
  <1> HIDE DEF u
  <1>6. at \in 0..Len(u) /\ MarkerBlock(Line("init")) \in Seq(Lines)
    BY <1>5, FirstInSeq, LineTypes DEF Kinds
  <1> HIDE DEF at
  <1>7. placed \in Seq(Lines) /\ Has(placed, "init")
    BY <1>5, <1>6, PlacedGrows
  <1> HIDE DEF placed
  <1>8. new \in Seq(Lines)
    BY <1>5, <1>7
  <1>9. Has(new, "init") \/ NoInitPlace(new)
    BY <1>7 DEF NoInitPlace, at
  <1> HIDE DEF new
  <1>10. e.c[h] = new
    BY <1>1, <1>3, <1>8, FileType
  <1>11. h # NoFile /\ Has(e.c[h], "mcp.h") /\ (Has(e.c[h], "init") \/ NoInitPlace(e.c[h]))
    BY <1>2, <1>9, <1>10 DEF h
  <1> QED
    BY <1>3, <1>11, SettledInit

LEMMA UpdateSettles ==
  ASSUME NEW d \in GameType, EventHandler(d.c) # NoFile, NEW e, e = PatchUpdateCallback(d)
  PROVE  Settled(<<"patch update">>, e)
  <1> DEFINE f == UpdateFile(d.c)
             at == First(d.c[f], {"update()"})
             new == Insert(d.c[f], at, MarkerBlock(Line("update")))
  <1>1. e = IF f = NoFile \/ Has(d.c[f], "update") \/ ~Has(d.c[f], "PlaydateAPI") THEN d
            ELSE WithFile(d, f, new)
    BY DEF PatchUpdateCallback, WithFile
  <1>2. AllGrow(e, d)
    BY UpdateWires
  <1>3. /\ EventHandler(e.c) # NoFile /\ UpdateFile(e.c) = f
        /\ f # NoFile => f \in ToSet(CFiles)
    BY <1>2, HandlerStays
  <1> HIDE DEF f
  <1>4. CASE f = NoFile \/ Has(d.c[f], "update") \/ ~Has(d.c[f], "PlaydateAPI")
    <2>1. e = d
      BY <1>1, <1>4
    <2> QED
      BY <1>3, <1>4, <2>1, SettledUpdate
  <1>5. CASE ~(f = NoFile \/ Has(d.c[f], "update") \/ ~Has(d.c[f], "PlaydateAPI"))
    <2>1. f \in ToSet(CFiles) /\ e = WithFile(d, f, new)
      BY <1>1, <1>3, <1>5
    <2>2. d.c[f] \in Seq(Lines)
      BY <2>1 DEF GameType
    <2>3. at \in 0..Len(d.c[f])
      BY <2>2, FirstInSeq
    <2> HIDE DEF at
    <2>4. new \in Seq(Lines) /\ Has(new, "update")
      BY <2>2, <2>3, PlacedGrows
    <2> HIDE DEF new
    <2>5. e.c[f] = new
      BY <2>1, <2>4, FileType
    <2> QED
      BY <1>3, <2>4, <2>5, SettledUpdate
  <1> QED
    BY <1>4, <1>5

LEMMA LuaSettles ==
  ASSUME NEW d \in GameType, d.lua \in Seq(Lines), NEW e, e = PatchLuaMain(d)
  PROVE  Settled(<<"patch main.lua">>, e)
  <1>1. CASE Imports(d.lua)
    <2>1. e = d /\ d.lua # NoFile
      BY <1>1, NoFileAssumption DEF PatchLuaMain
    <2> QED
      BY <1>1, <2>1, SettledNames
  <1>2. CASE ~Imports(d.lua)
    <2> DEFINE l == d.lua
               b == MarkerBlock(Line("import"))
               new == l \o b
    <2>1. b \in Seq(Lines) /\ Len(b) = 3 /\ b[2] = Line("import")
      BY LineTypes, MarkerBlockIs DEF Kinds
    <2>2. l \in Seq(Lines)
      OBVIOUS
    <2> HIDE DEF b, l
    <2>3. /\ new \in Seq(Lines) /\ Len(new) = Len(l) + Len(b)
          /\ \A i \in 1..Len(b) : new[Len(l) + i] = b[i]
      <3>1. new = l \o b
        OBVIOUS
      <3> HIDE DEF new
      <3>2. l \in Seq(Lines) /\ b \in Seq(Lines)
        BY <2>1, <2>2
      <3> QED
        BY <3>1, <3>2, Concat
    <2> HIDE DEF new
    <2>4. Len(l) \in Nat /\ DOMAIN new = 1..Len(new)
      <3>1. Len(l) \in Nat
        BY <2>2, LenProperties
      <3>2. new \in Seq(Lines)
        BY <2>3
      <3> QED
        BY <3>1, <3>2, LenProperties
    <2>5. Len(l) + 2 \in DOMAIN new /\ 2 \in 1..Len(b)
      BY <2>1, <2>3, <2>4
    <2>6. new[Len(l) + 2].t = "import"
      BY <2>1, <2>3, <2>5 DEF Line
    <2>7. Imports(new)
      BY <2>5, <2>6 DEF Imports
    <2>8. e.lua = new
      BY <1>2 DEF PatchLuaMain, GameType, new, l, b
    <2> QED
      BY <2>3, <2>7, <2>8, NoFileAssumption, SettledNames
  <1> QED
    BY <1>1, <1>2

LEMMA SetupSettles ==
  ASSUME NEW d \in GameType, NEW step \in SetupSteps, Readable(step, d),
         d.cmake # NoFile => CodeLists(d.cmake),
         step \in {<<"patch init">>, <<"patch update">>} => EventHandler(d.c) # NoFile,
         NEW e, e = After(step, d)
  PROVE  Settled(step, e)
  <1>1. ASSUME NEW name \in Harness, step = <<"copy", name>> PROVE Settled(step, e)
    <2>1. e = [d EXCEPT !.copies[name] = version]
      BY <1>1 DEF After
    <2>2. e.copies[name] = version
      BY <2>1 DEF GameType
    <2> QED
      BY <1>1, <2>2, SettledNames
  <1>2. CASE step = <<"patch CMakeLists.txt">>
    <2>1. e = PatchCMakeLists(d) /\ d.cmake # NoFile
      BY <1>2 DEF After, Readable
    <2>2. d.cmake \in Seq(CMakeItems)
      BY <2>1 DEF GameType
    <2>3. e.cmake # NoFile /\ PatchCMakeLists(e) = e
      BY <2>1, <2>2, CMakeSettles
    <2> QED
      BY <1>2, <2>3, SettledNames
  <1>3. CASE step = <<"patch init">>
    <2>1. e = PatchEventHandlerInit(d)
      BY <1>3 DEF After
    <2> QED
      BY <1>3, <2>1, InitSettles
  <1>4. CASE step = <<"patch update">>
    <2>1. e = PatchUpdateCallback(d)
      BY <1>4 DEF After
    <2> QED
      BY <1>4, <2>1, UpdateSettles
  <1>5. ASSUME NEW f \in ToSet(CFiles), step = <<"patch input", f>> PROVE Settled(step, e)
    <2>1. e = PatchInputCalls(d, f)
      BY <1>5 DEF After
    <2>2. ~Has(e.c[f], "input")
      BY <2>1, InputWires
    <2> QED
      BY <1>5, <2>2, SettledNames
  <1>6. CASE step = <<"patch main.lua">>
    <2>1. e = PatchLuaMain(d) /\ d.lua \in Seq(Lines)
      BY <1>6 DEF After, Readable, GameType
    <2> QED
      BY <1>6, <2>1, LuaSettles
  <1>7. step \in WiringC => \/ step = <<"patch init">> \/ step = <<"patch update">>
                            \/ \E f \in ToSet(CFiles) : step = <<"patch input", f>>
    BY DEF WiringC
  <1> QED
    BY <1>1, <1>2, <1>3, <1>4, <1>5, <1>6, <1>7, StepNames

LEMMA TeardownSettles ==
  ASSUME NEW d \in GameType, FilesFormed(d), NEW step \in TeardownSteps, NEW e, e = After(step, d)
  PROVE  Settled(step, e)
  <1>1. ASSUME NEW name \in Harness, step = <<"remove", name>> PROVE Settled(step, e)
    <2>1. e = IF name = "mcp.lua" /\ KeepsLuaHarness(d) THEN d ELSE [d EXCEPT !.copies[name] = 0]
      BY <1>1 DEF After
    <2>2. [d EXCEPT !.copies[name] = 0].copies[name] = 0
      BY DEF GameType
    <2>3. e.copies[name] = 0 \/ (name = "mcp.lua" /\ KeepsLuaHarness(e))
      BY <2>1, <2>2
    <2> QED
      BY <1>1, <2>3, SettledNames
  <1>2. CASE step = <<"restore CMakeLists.txt">>
    <2>1. e = TeardownCMakeLists(d)
      BY <1>2 DEF After
    <2>2. e.cmake # NoFile => Authored(e.cmake) /\ ~CMakeListsContain(e.cmake)
      BY <2>1, RestoreKept, RestoreType DEF Refers
    <2> QED
      BY <1>2, <2>2, SettledNames
  <1>3. ASSUME NEW f \in ToSet(CFiles), step = <<"strip", f>> PROVE Settled(step, e)
    <2>1. e = [d EXCEPT !.c[f] = StripMarkerBlocks(@)]
      BY <1>3 DEF After
    <2>2. e.c[f] = StripMarkerBlocks(d.c[f])
      BY <2>1 DEF GameType
    <2>3. Authored(StripMarkerBlocks(d.c[f]))
      BY StripKeeps DEF GameType, FilesFormed
    <2> QED
      BY <1>3, <2>2, <2>3, SettledNames
  <1>4. CASE step = <<"strip main.lua">>
    <2>1. e = StripLuaMain(d)
      BY <1>4 DEF After
    <2>2. d.lua # NoFile => Authored(StripMarkerBlocks(d.lua))
      BY StripKeeps DEF GameType, FilesFormed
    <2>3. e.lua # NoFile => Authored(e.lua)
      BY <2>1, <2>2 DEF StripLuaMain, GameType
    <2> QED
      BY <1>4, <2>3, SettledNames
  <1> QED
    BY <1>1, <1>2, <1>3, <1>4, StepNames

-----------------------------------------------------------------------------
(* What is settled stays settled while the writes after it are made.         *)

LEMMA CodeHas ==
  ASSUME NEW s, NEW i \in 1..Len(s), DOMAIN s = 1..Len(s), NEW types, IsCode(s[i], types)
  PROVE  s[i].t \in types /\ Has(s, s[i].t)
  BY DEF IsCode, Has

LEMMA NoPlaceSame ==
  ASSUME NEW s, NEW r, NoInitPlace(s),
         First(s, InitForms) = 0 => First(r, InitForms) = 0,
         First(s, InitForms) # 0 => First(r, InitForms) # 0
                                    /\ r[First(r, InitForms)].t = s[First(s, InitForms)].t
  PROVE  NoInitPlace(r)
  BY DEF NoInitPlace

LEMMA NoneStays ==
  ASSUME NEW s \in Seq(Lines), NEW r \in Seq(Lines), First(s, InitForms) = 0,
         \A t \in InitForms : Has(r, t) => Has(s, t)
  PROVE  First(r, InitForms) = 0
  <1>1. SUFFICES ASSUME First(r, InitForms) # 0 PROVE FALSE
    OBVIOUS
  <1> DEFINE at == First(r, InitForms)
  <1>2. /\ DOMAIN r = 1..Len(r) /\ DOMAIN s = 1..Len(s)
        /\ at \in 1..Len(r) /\ IsCode(r[at], InitForms)
    BY <1>1, LenProperties, FirstAt
  <1> HIDE DEF at
  <1>3. r[at].t \in InitForms /\ Has(r, r[at].t)
    BY <1>2, CodeHas
  <1>4. Has(s, r[at].t)
    BY <1>3
  <1>5. PICK j \in 1..Len(s) : IsCode(s[j], {r[at].t})
    BY <1>2, <1>4 DEF Has
  <1>6. IsCode(s[j], InitForms)
    BY <1>3, <1>5 DEF IsCode
  <1> QED
    BY <1>5, <1>6, FirstNone

LEMMA NoPlaceWithBlock ==
  ASSUME NEW s \in Seq(Lines), NoInitPlace(s), NEW i \in 0..Len(s),
         NEW x \in {"mcp.h", "update"}, NEW r, r = Insert(s, i, MarkerBlock(Line(x)))
  PROVE  r \in Seq(Lines) /\ NoInitPlace(r)
  <1>1. MarkerBlock(Line(x)) \in Seq(Lines) /\ x \in Inserted
    BY LineTypes DEF Kinds, Inserted
  <1>2. /\ r \in Seq(Lines) /\ WithBlock(r, s, i)
        /\ r[i + 1] = Marker("BEGIN") /\ r[i + 2] = Line(x) /\ r[i + 3] = Marker("END")
    BY <1>1, BlockInserted
  <1>3. \A t : Has(r, t) <=> Has(s, t) \/ t = x
    BY <1>1, HasInserted
  <1>4. First(s, InitForms) = 0 => First(r, InitForms) = 0
    BY <1>2, <1>3, NoneStays DEF InitForms
  <1>5. /\ ~IsCode(r[i + 1], InitForms) /\ ~IsCode(r[i + 2], InitForms)
        /\ ~IsCode(r[i + 3], InitForms)
    BY <1>2 DEF IsCode, Marker, Line, InitForms
  <1>6. First(s, InitForms) # 0 => First(r, InitForms) # 0
                                   /\ r[First(r, InitForms)].t = s[First(s, InitForms)].t
    BY <1>2, <1>5, FirstKept
  <1> QED
    BY <1>2, <1>4, <1>6, NoPlaceSame

LEMMA NoPlaceInclude ==
  ASSUME NEW s \in Seq(Lines), NoInitPlace(s)
  PROVE  NoInitPlace(InsertIncludeIfMissing(s))
  <1>1. Final(s, {"include"}) \in 0..Len(s)
    BY FinalInSeq
  <1> QED
    BY <1>1, NoPlaceWithBlock DEF InsertIncludeIfMissing

LEMMA NoPlaceRenamed ==
  ASSUME NEW s \in Seq(Lines), NoInitPlace(s), NEW r, r = Renamed(s, "input", "wrapper")
  PROVE  r \in Seq(Lines) /\ NoInitPlace(r)
  <1>1. r \in Seq(Lines) /\ Renames(r, s, "input", "wrapper")
    BY RenamedIs DEF Kinds
  <1>2. \A t : Has(r, t) <=> (t # "input" /\ Has(s, t)) \/ (t = "wrapper" /\ Has(s, "input"))
    BY HasRenamed DEF Kinds
  <1>3. First(s, InitForms) = 0 => First(r, InitForms) = 0
    BY <1>1, <1>2, NoneStays DEF InitForms
  <1>4. ASSUME First(s, InitForms) # 0
        PROVE  First(r, InitForms) # 0 /\ r[First(r, InitForms)].t = s[First(s, InitForms)].t
    <2>1. \A j \in 1..Len(s) : (IsCode(r[j], InitForms) <=> IsCode(s[j], InitForms))
                               /\ (IsCode(s[j], InitForms) => r[j].t = s[j].t)
      BY <1>1 DEF Renames, IsCode, InitForms
    <2>2. /\ First(s, InitForms) \in 1..Len(s) /\ IsCode(s[First(s, InitForms)], InitForms)
          /\ \A j \in 1..Len(s) : IsCode(s[j], InitForms) => First(s, InitForms) <= j
      BY <1>4, FirstAt
    <2>3. Len(r) = Len(s)
      BY <1>1 DEF Renames
    <2>4. First(r, InitForms) # 0
      BY <2>1, <2>2, <2>3, FirstNone
    <2>5. /\ First(r, InitForms) \in 1..Len(r) /\ IsCode(r[First(r, InitForms)], InitForms)
          /\ \A j \in 1..Len(r) : IsCode(r[j], InitForms) => First(r, InitForms) <= j
      BY <1>1, <2>4, FirstAt
    <2>6. Len(s) \in Nat
      BY LenProperties
    <2>7. First(r, InitForms) = First(s, InitForms)
      BY <2>1, <2>2, <2>3, <2>5, <2>6
    <2> QED
      BY <2>1, <2>2, <2>4, <2>7
  <1> QED
    BY <1>1, <1>3, <1>4, NoPlaceSame

(* What a write of setup leaves alone.                                       *)
SetupFrame(e, d, step) ==
    /\ e \in GameType
    /\ \A name \in Harness : step # <<"copy", name>> => e.copies[name] = d.copies[name]
    /\ step # <<"patch CMakeLists.txt">> => e.cmake = d.cmake
    /\ step # <<"patch main.lua">> => e.lua = d.lua
    /\ step \notin WiringC => e.c = d.c

LEMMA AfterSetupFrame ==
  ASSUME NEW d \in GameType, NEW step \in SetupSteps, Readable(step, d),
         version \in 1..MaxVersion, MaxVersion \in Nat, NEW e, e = After(step, d)
  PROVE  SetupFrame(e, d, step)
  <1>1. ASSUME NEW name \in Harness, step = <<"copy", name>> PROVE SetupFrame(e, d, step)
    <2>1. e = [d EXCEPT !.copies[name] = version] /\ version \in 0..MaxVersion
      BY <1>1 DEF After
    <2>2. /\ e \in GameType /\ e.c = d.c /\ e.cmake = d.cmake /\ e.lua = d.lua
          /\ \A m \in Harness \ {name} : e.copies[m] = d.copies[m]
      BY <2>1, CopiesType
    <2> QED
      BY <1>1, <2>2 DEF SetupFrame
  <1>2. ASSUME step \in WiringC PROVE SetupFrame(e, d, step)
    <2>1. /\ e \in GameType /\ e.copies = d.copies /\ e.cmake = d.cmake /\ e.lua = d.lua
      BY <1>2, PatchesC
    <2> QED
      BY <1>2, <2>1 DEF SetupFrame
  <1>3. ASSUME step = <<"patch CMakeLists.txt">> PROVE SetupFrame(e, d, step)
    <2>1. e = PatchCMakeLists(d) /\ d.cmake \in Seq(CMakeItems)
      BY <1>3 DEF After, Readable, GameType
    <2>2. e \in GameType /\ e.c = d.c /\ e.lua = d.lua /\ e.copies = d.copies
      BY <2>1, CMakeType
    <2> QED
      BY <1>3, <2>2 DEF SetupFrame
  <1>4. ASSUME step = <<"patch main.lua">> PROVE SetupFrame(e, d, step)
    <2>1. e = PatchLuaMain(d) /\ d.lua \in Seq(Lines)
      BY <1>4 DEF After, Readable, GameType
    <2>2. e \in GameType /\ e.c = d.c /\ e.cmake = d.cmake /\ e.copies = d.copies
      BY <2>1, LuaType
    <2> QED
      BY <1>4, <2>2 DEF SetupFrame
  <1> QED
    BY <1>1, <1>2, <1>3, <1>4, StepNames

LEMMA NoPlaceWithFile ==
  ASSUME NEW d \in GameType, NEW f \in ToSet(CFiles), NoInitPlace(d.c[f]),
         NEW g, NEW s, g \in ToSet(CFiles) => s \in Seq(Lines), g = f => NoInitPlace(s)
  PROVE  NoInitPlace(WithFile(d, g, s).c[f])
  <1> DEFINE w == WithFile(d, g, s)
  <1>1. \A k \in ToSet(CFiles) : w.c[k] = IF k = g THEN s ELSE d.c[k]
    BY FileType
  <1> HIDE DEF w
  <1>2. w.c[f] = IF f = g THEN s ELSE d.c[f]
    BY <1>1
  <1> QED
    BY <1>2 DEF w

(* A place for the init call comes to no file that had none.                 *)
LEMMA NoPlaceStays ==
  ASSUME NEW d \in GameType, NEW step \in WiringC, step # <<"patch init">>,
         NEW f \in ToSet(CFiles), NoInitPlace(d.c[f]), NEW e, e = After(step, d)
  PROVE  NoInitPlace(e.c[f])
  <1>1. d.c[f] \in Seq(Lines)
    BY DEF GameType
  <1>2. ASSUME NEW g, NEW s, e = WithFile(d, g, s), g \in ToSet(CFiles) => s \in Seq(Lines),
               g = f => NoInitPlace(s)
        PROVE  NoInitPlace(e.c[f])
    <2>1. NoInitPlace(WithFile(d, g, s).c[f])
      BY <1>2, NoPlaceWithFile
    <2> QED
      BY <1>2, <2>1
  <1>3. ASSUME step = <<"patch update">> PROVE NoInitPlace(e.c[f])
    <2> DEFINE g == UpdateFile(d.c)
               s == Insert(d.c[g], First(d.c[g], {"update()"}), MarkerBlock(Line("update")))
    <2>1. e = d \/ e = WithFile(d, g, s)
      BY <1>3 DEF After, PatchUpdateCallback, WithFile
    <2>2. ASSUME g \in ToSet(CFiles), g # f PROVE s \in Seq(Lines)
      <3>1. d.c[g] \in Seq(Lines)
        BY <2>2 DEF GameType
      <3>2. First(d.c[g], {"update()"}) \in 0..Len(d.c[g])
        BY <3>1, FirstInSeq
      <3> QED
        BY <3>1, <3>2, PlacedGrows
    <2>3. ASSUME g = f PROVE s \in Seq(Lines) /\ NoInitPlace(s)
      <3>1. First(d.c[f], {"update()"}) \in 0..Len(d.c[f])
        BY <1>1, FirstInSeq
      <3>2. s = Insert(d.c[f], First(d.c[f], {"update()"}), MarkerBlock(Line("update")))
        BY <2>3
      <3> HIDE DEF s
      <3> QED
        BY <1>1, <3>1, <3>2, NoPlaceWithBlock
    <2> HIDE DEF g, s
    <2>4. e = WithFile(d, g, s) => NoInitPlace(e.c[f])
      BY <1>2, <2>2, <2>3
    <2> QED
      BY <2>1, <2>4
  <1>4. ASSUME NEW g \in ToSet(CFiles), step = <<"patch input", g>> PROVE NoInitPlace(e.c[f])
    <2> DEFINE r == Renamed(d.c[g], "input", "wrapper")
               s == InsertIncludeIfMissing(r)
    <2>1. e = d \/ e = WithFile(d, g, s)
      BY <1>4 DEF After, PatchInputCalls, WithFile
    <2>2. d.c[g] \in Seq(Lines)
      BY DEF GameType
    <2>3. r \in Seq(Lines)
      BY <2>2, RenamedType DEF Kinds
    <2>4. ASSUME g = f PROVE NoInitPlace(r)
      BY <2>2, <2>4, NoPlaceRenamed
    <2> HIDE DEF r
    <2>5. s \in Seq(Lines) /\ (g = f => NoInitPlace(s))
      BY <2>3, <2>4, IncludeType, NoPlaceInclude
    <2> HIDE DEF s
    <2> QED
      BY <1>2, <2>1, <2>5
  <1> QED
    BY <1>3, <1>4 DEF WiringC

LEMMA ListStays ==
  ASSUME NEW d \in GameType, NEW e \in GameType, e.cmake = d.cmake,
         EventHandler(e.c) = EventHandler(d.c), PatchCMakeLists(d) = d
  PROVE  PatchCMakeLists(e) = e
  <1> DEFINE listed == IF CMakeListsContain(d.cmake) THEN d.cmake
                       ELSE PatchCMakeSourceList(d.cmake, EventHandler(d.c))
             s == PatchCMakeIncludeDirectories(listed)
  <1>1. PatchCMakeLists(d) = [d EXCEPT !.cmake = s]
    BY DEF PatchCMakeLists
  <1>2. PatchCMakeLists(e) = [e EXCEPT !.cmake = s]
    BY DEF PatchCMakeLists
  <1> HIDE DEF s
  <1>3. d.cmake = s
    BY <1>1 DEF GameType
  <1> QED
    BY <1>2, <1>3 DEF GameType

LEMMA InitStays ==
  ASSUME NEW d \in GameType, NEW step \in SetupSteps, Settled(<<"patch init">>, d),
         NEW e, e = After(step, d), AllGrow(e, d), step \notin WiringC => e.c = d.c
  PROVE  Settled(<<"patch init">>, e)
  <1> DEFINE h == EventHandler(d.c)
  <1>1. CASE step = <<"patch init">>
    BY <1>1, SettledSame
  <1>2. CASE step # <<"patch init">>
    <2>1. h # NoFile /\ Has(d.c[h], "mcp.h") /\ (Has(d.c[h], "init") \/ NoInitPlace(d.c[h]))
      BY SettledInit
    <2>2. h \in ToSet(CFiles) /\ EventHandler(e.c) = h
      BY <2>1, HandlerStays
    <2> HIDE DEF h
    <2>3. Has(e.c[h], "mcp.h") /\ (Has(d.c[h], "init") => Has(e.c[h], "init"))
      BY <2>1, <2>2 DEF AllGrow, Grows, Wrapping
    <2>4. NoInitPlace(d.c[h]) => NoInitPlace(e.c[h])
      BY <1>2, <2>2, NoPlaceStays
    <2> QED
      BY <2>1, <2>2, <2>3, <2>4, SettledInit
  <1> QED
    BY <1>1, <1>2

LEMMA UpdateStays ==
  ASSUME NEW d, NEW e, Settled(<<"patch update">>, d), AllGrow(e, d)
  PROVE  Settled(<<"patch update">>, e)
  <1> DEFINE f == UpdateFile(d.c)
  <1>1. /\ EventHandler(d.c) # NoFile
        /\ f = NoFile \/ Has(d.c[f], "update") \/ ~Has(d.c[f], "PlaydateAPI")
    BY SettledUpdate
  <1>2. /\ EventHandler(e.c) # NoFile /\ UpdateFile(e.c) = f
        /\ f # NoFile => f \in ToSet(CFiles)
    BY <1>1, HandlerStays
  <1> HIDE DEF f
  <1>3. f = NoFile \/ Has(e.c[f], "update") \/ ~Has(e.c[f], "PlaydateAPI")
    BY <1>1, <1>2 DEF AllGrow, Grows, Wrapping, Steady
  <1> QED
    BY <1>2, <1>3, SettledUpdate

LEMMA SetupStays ==
  ASSUME NEW d \in GameType, NEW done \in SetupSteps, Settled(done, d),
         NEW step \in SetupSteps, Readable(step, d),
         version \in 1..MaxVersion, MaxVersion \in Nat, NEW e, e = After(step, d)
  PROVE  Settled(done, e)
  <1>1. SetupFrame(e, d, step) /\ AllGrow(e, d)
    BY AfterSetupFrame, AfterSetupWires DEF Wires
  <1>2. e \in GameType
    BY <1>1 DEF SetupFrame
  <1>3. CASE step = done
    BY <1>3, SettledSame
  <1>4. ASSUME step # done, NEW name \in Harness, done = <<"copy", name>>
        PROVE  Settled(done, e)
    <2>1. e.copies[name] = d.copies[name]
      BY <1>1, <1>4 DEF SetupFrame
    <2> QED
      BY <1>4, <2>1, SettledNames
  <1>5. ASSUME step # done, done = <<"patch CMakeLists.txt">> PROVE Settled(done, e)
    <2>1. e.cmake = d.cmake
      BY <1>1, <1>5 DEF SetupFrame
    <2>2. EventHandler(e.c) = EventHandler(d.c)
      BY <1>1, HandlerStays
    <2>3. d.cmake # NoFile /\ PatchCMakeLists(d) = d
      BY <1>5, SettledNames
    <2>4. PatchCMakeLists(e) = e
      BY <1>2, <2>1, <2>2, <2>3, ListStays
    <2> QED
      BY <1>5, <2>1, <2>3, <2>4, SettledNames
  <1>6. ASSUME done = <<"patch init">> PROVE Settled(done, e)
    <2>1. step \notin WiringC => e.c = d.c
      BY <1>1 DEF SetupFrame
    <2> QED
      BY <1>1, <1>6, <2>1, InitStays
  <1>7. ASSUME done = <<"patch update">> PROVE Settled(done, e)
    BY <1>1, <1>7, UpdateStays
  <1>8. ASSUME NEW f \in ToSet(CFiles), done = <<"patch input", f>> PROVE Settled(done, e)
    <2>1. ~Has(d.c[f], "input")
      BY <1>8, SettledNames
    <2>2. ~Has(e.c[f], "input")
      BY <1>1, <2>1 DEF AllGrow, Grows
    <2> QED
      BY <1>8, <2>2, SettledNames
  <1>9. ASSUME step # done, done = <<"patch main.lua">> PROVE Settled(done, e)
    <2>1. e.lua = d.lua
      BY <1>1, <1>9 DEF SetupFrame
    <2> QED
      BY <1>9, <2>1, SettledNames
  <1>10. done \in WiringC => \/ done = <<"patch init">> \/ done = <<"patch update">>
                             \/ \E f \in ToSet(CFiles) : done = <<"patch input", f>>
    BY DEF WiringC
  <1> QED
    BY <1>3, <1>4, <1>5, <1>6, <1>7, <1>8, <1>9, <1>10, StepNames

LEMMA TeardownLuaFrame ==
  ASSUME NEW d \in GameType, NEW step \in TeardownSteps, step # <<"strip main.lua">>,
         NEW e, e = After(step, d)
  PROVE  e.lua = d.lua
  <1>1. ASSUME NEW name \in Harness, step = <<"remove", name>> PROVE e.lua = d.lua
    <2>1. e = IF name = "mcp.lua" /\ KeepsLuaHarness(d) THEN d ELSE [d EXCEPT !.copies[name] = 0]
      BY <1>1 DEF After
    <2>2. [d EXCEPT !.copies[name] = 0].lua = d.lua
      BY DEF GameType
    <2> QED
      BY <2>1, <2>2
  <1>2. ASSUME NEW f \in ToSet(CFiles), step = <<"strip", f>> PROVE e.lua = d.lua
    <2>1. e = [d EXCEPT !.c[f] = StripMarkerBlocks(@)]
      BY <1>2 DEF After
    <2> QED
      BY <2>1 DEF GameType
  <1>3. ASSUME step = <<"restore CMakeLists.txt">> PROVE e.lua = d.lua
    <2>1. e = TeardownCMakeLists(d)
      BY <1>3 DEF After
    <2> QED
      BY <2>1, RestoreType
  <1> QED
    BY <1>1, <1>2, <1>3, StepNames

LEMMA TeardownStays ==
  ASSUME NEW d \in GameType, NEW done \in TeardownSteps, done # <<"remove", "mcp.lua">>,
         Settled(done, d), NEW step \in TeardownSteps, NEW e, e = After(step, d)
  PROVE  Settled(done, e)
  <1>1. Undone(e, d, step)
    BY AfterTeardownIs
  <1>2. CASE step = done
    BY <1>2, SettledSame
  <1>3. ASSUME NEW name \in Harness, done = <<"remove", name>> PROVE Settled(done, e)
    <2>1. name \in {"mcp.h", "mcp.c"}
      BY <1>3 DEF Harness
    <2>2. d.copies[name] = 0
      BY <1>3, <2>1, SettledNames
    <2>3. e.copies[name] = 0
      BY <1>1, <2>1, <2>2 DEF Undone
    <2> QED
      BY <1>3, <2>3, SettledNames
  <1>4. ASSUME NEW f \in ToSet(CFiles), step # done, done = <<"strip", f>> PROVE Settled(done, e)
    <2>1. e.c[f] = d.c[f]
      BY <1>1, <1>4 DEF Undone
    <2> QED
      BY <1>4, <2>1, SettledNames
  <1>5. ASSUME step # done, done = <<"restore CMakeLists.txt">> PROVE Settled(done, e)
    <2>1. e.cmake = d.cmake
      BY <1>1, <1>5 DEF Undone
    <2> QED
      BY <1>5, <2>1, SettledNames
  <1>6. ASSUME step # done, done = <<"strip main.lua">> PROVE Settled(done, e)
    <2>1. e.lua = d.lua
      BY <1>6, TeardownLuaFrame
    <2> QED
      BY <1>6, <2>1, SettledNames
  <1> QED
    BY <1>2, <1>3, <1>4, <1>5, <1>6, StepNames

-----------------------------------------------------------------------------
(* A call that is made again after some of its writes: those change nothing, *)
(* and it goes on from where the first one stands.                           *)

Runs(steps, d, g) ==
    /\ g[0] = [ok |-> TRUE, d |-> d]
    /\ \A n \in 1..Len(steps) : g[n] = Write(g[n - 1], steps[n])

LEMMA RunsExist ==
  ASSUME NEW steps, Len(steps) \in Nat, NEW d
  PROVE  \E g : g = [n \in 0..Len(steps) |->
                       IF n = 0 THEN [ok |-> TRUE, d |-> d] ELSE Write(g[n - 1], steps[n])]
  <1> DEFINE N == Len(steps)
             base == [ok |-> TRUE, d |-> d]
             Partly(f, k) == /\ f = [n \in 0..N |-> f[n]] /\ f[0] = base
                             /\ \A n \in 1..N : n <= k => f[n] = Write(f[n - 1], steps[n])
             T == {k \in Nat : \E f : Partly(f, k)}
  <1> HIDE DEF base
  <1>1. 0 \in T
    <2> DEFINE f == [n \in 0..N |-> base]
    <2>1. f = [n \in 0..N |-> f[n]] /\ f[0] = base
      OBVIOUS
    <2>2. \A n \in 1..N : ~(n <= 0)
      OBVIOUS
    <2> QED
      BY <2>1, <2>2
  <1>2. ASSUME NEW k \in T PROVE k + 1 \in T
    <2>1. k \in Nat
      OBVIOUS
    <2>2. PICK f : Partly(f, k)
      OBVIOUS
    <2> DEFINE h == [n \in 0..N |-> IF n = k + 1 THEN Write(f[k], steps[n]) ELSE f[n]]
    <2>3. h = [n \in 0..N |-> h[n]]
      OBVIOUS
    <2>4. h[0] = base
      BY <2>1, <2>2
    <2>5. ASSUME NEW n \in 1..N, n <= k + 1 PROVE h[n] = Write(h[n - 1], steps[n])
      <3>1. n \in 0..N /\ n - 1 \in 0..N /\ n - 1 # k + 1 /\ h[n - 1] = f[n - 1]
        BY <2>1, <2>5
      <3>2. CASE n = k + 1
        <4>1. n - 1 = k /\ h[n] = Write(f[k], steps[n])
          BY <2>1, <3>1, <3>2
        <4> QED
          BY <3>1, <4>1
      <3>3. CASE n # k + 1
        <4>1. n <= k /\ h[n] = f[n]
          BY <2>1, <2>5, <3>1, <3>3
        <4> QED
          BY <2>2, <3>1, <4>1
      <3> QED
        BY <3>2, <3>3
    <2> HIDE DEF h
    <2>6. Partly(h, k + 1)
      BY <2>3, <2>4, <2>5
    <2>7. k + 1 \in Nat
      BY <2>1
    <2> HIDE DEF Partly
    <2> QED
      BY <2>6, <2>7
  <1>3. N \in T
    <2> HIDE DEF T
    <2>1. T \subseteq Nat
      BY DEF T
    <2>2. T = Nat
      BY <1>1, <1>2, <2>1, NatSet
    <2> QED
      BY <2>2
  <1>4. PICK g : Partly(g, N)
    BY <1>3
  <1>5. ASSUME NEW n \in 0..N PROVE g[n] = IF n = 0 THEN base ELSE Write(g[n - 1], steps[n])
    BY <1>4
  <1>6. g = [n \in 0..N |-> IF n = 0 THEN base ELSE Write(g[n - 1], steps[n])]
    BY <1>4, <1>5
  <1> QED
    BY <1>6 DEF base

LEMMA WholeRuns ==
  ASSUME NEW tool, NEW language, NEW d, NEW steps, steps = Steps(tool, language, d),
         Len(steps) \in Nat
  PROVE  \E g : Runs(steps, d, g) /\ Whole(tool, language, d) = g[Len(steps)].d
  <1> DEFINE Is(g) == g = [n \in 0..Len(steps) |->
                       IF n = 0 THEN [ok |-> TRUE, d |-> d] ELSE Write(g[n - 1], steps[n])]
             whole == CHOOSE g : Is(g)
  <1>1. Is(whole)
    <2>1. \E g : Is(g)
      BY RunsExist
    <2> HIDE DEF Is
    <2> QED
      BY <2>1
  <1>2. Whole(tool, language, d) = whole[Len(steps)].d
    BY DEF Whole
  <1> HIDE DEF whole
  <1>3. \A n \in 0..Len(steps) :
          whole[n] = IF n = 0 THEN [ok |-> TRUE, d |-> d] ELSE Write(whole[n - 1], steps[n])
    BY <1>1
  <1>4. Runs(steps, d, whole)
    <2>1. 0 \in 0..Len(steps) /\ \A n \in 1..Len(steps) : n \in 0..Len(steps) /\ n # 0
      OBVIOUS
    <2>2. whole[0] = [ok |-> TRUE, d |-> d]
      BY <1>3, <2>1
    <2>3. \A n \in 1..Len(steps) : whole[n] = Write(whole[n - 1], steps[n])
      BY <1>3, <2>1
    <2> QED
      BY <2>2, <2>3 DEF Runs
  <1> QED
    BY <1>2, <1>4

LEMMA WriteIs ==
  ASSUME NEW d, NEW step, Readable(step, d), NEW e, e = After(step, d)
  PROVE  Write([ok |-> TRUE, d |-> d], step) = [ok |-> TRUE, d |-> e]
  <1> DEFINE done == [ok |-> TRUE, d |-> d]
  <1>1. done.ok /\ done.d = d
    OBVIOUS
  <1>2. Write(done, step) = [done EXCEPT !.d = e]
    <2> HIDE DEF done
    <2> QED
      BY <1>1 DEF Write
  <1> QED
    BY <1>2

LEMMA RunsSame ==
  ASSUME NEW steps, Len(steps) \in Nat, NEW d, NEW g, Runs(steps, d, g), NEW k \in 0..Len(steps),
         \A j \in 1..k : Readable(steps[j], d) /\ After(steps[j], d) = d
  PROVE  g[k] = [ok |-> TRUE, d |-> d]
  <1> DEFINE T == {[ok |-> TRUE, d |-> d]}
  <1>1. g[0] \in T
    BY DEF Runs
  <1>2. ASSUME NEW n \in 1..k, g[n - 1] \in T PROVE g[n] \in T
    <2>1. g[n] = Write(g[n - 1], steps[n])
      BY DEF Runs
    <2>2. g[n - 1] = [ok |-> TRUE, d |-> d]
      BY <1>2
    <2>3. g[n] = [ok |-> TRUE, d |-> d]
      <3>1. 1..k \subseteq 1..Len(steps)
        OBVIOUS
      <3>2. Readable(steps[n], d) /\ After(steps[n], d) = d
        BY <3>1
      <3> QED
        BY <2>1, <2>2, <3>2, WriteIs
    <2> QED
      BY <2>3
  <1>3. g[k] \in T
    <2>1. k \in Nat
      OBVIOUS
    <2> HIDE DEF T
    <2> QED
      BY <1>1, <1>2, <2>1, Reaches
  <1> QED
    BY <1>3

LEMMA RunsOn ==
  ASSUME NEW steps, Len(steps) \in Nat, NEW d, NEW e, NEW g, NEW h,
         Runs(steps, d, g), Runs(steps, e, h), NEW k \in 0..(Len(steps) - 1),
         \A j \in 1..k : Readable(steps[j], d) /\ After(steps[j], d) = d,
         Readable(steps[k + 1], d), e = After(steps[k + 1], d),
         \A j \in 1..(k + 1) : Readable(steps[j], e) /\ After(steps[j], e) = e
  PROVE  g[Len(steps)] = h[Len(steps)]
  <1> DEFINE T == {n \in 0..Len(steps) : g[n] = h[n]}
  <1>1. k + 1 \in 0..Len(steps) /\ k + 1 \in 1..Len(steps) /\ (k + 1) - 1 = k
    OBVIOUS
  <1>2. g[k] = [ok |-> TRUE, d |-> d]
    BY RunsSame
  <1>3. g[k + 1] = Write(g[k], steps[k + 1])
    BY <1>1 DEF Runs
  <1>4. g[k + 1] = [ok |-> TRUE, d |-> e]
    BY <1>2, <1>3, WriteIs
  <1>5. h[k + 1] = [ok |-> TRUE, d |-> e]
    BY <1>1, RunsSame
  <1>6. k + 1 \in T
    BY <1>1, <1>4, <1>5
  <1>7. ASSUME NEW n \in (k + 1)..(Len(steps) - 1), n \in T PROVE n + 1 \in T
    <2>1. n + 1 \in 1..Len(steps) /\ (n + 1) - 1 = n /\ g[n] = h[n]
      BY <1>7
    <2>2. g[n + 1] = Write(g[n], steps[n + 1]) /\ h[n + 1] = Write(h[n], steps[n + 1])
      BY <2>1 DEF Runs
    <2> QED
      BY <2>1, <2>2
  <1>8. \A n \in (k + 1)..Len(steps) : n \in T
    <2>1. k + 1 \in Nat
      BY <1>1
    <2> HIDE DEF T
    <2>2. \A n \in (k + 1)..(Len(steps) - 1) : n \in T => n + 1 \in T
      BY <1>7
    <2> QED
      BY <1>6, <2>1, <2>2, Upto
  <1> QED
    BY <1>1, <1>8

(* What the writes of a call are, as the game changes.                       *)
LEMMA InitNeedsHandler ==
  ASSUME NEW d, EventHandler(d.c) = NoFile, NEW language \in Languages,
         NEW steps, steps = Steps("setup", language, d), NEW i \in 1..Len(steps)
  PROVE  steps[i] \notin {<<"patch init">>, <<"patch update">>}
  <1> DEFINE front == <<<<"copy", "mcp.h">>, <<"copy", "mcp.c">>, <<"patch CMakeLists.txt">>>>
             S == {<<"copy", "mcp.h">>, <<"copy", "mcp.c">>, <<"patch CMakeLists.txt">>}
  <1>1. front \in Seq(S)
    <2>1. /\ <<"copy", "mcp.h">> \in S /\ <<"copy", "mcp.c">> \in S
          /\ <<"patch CMakeLists.txt">> \in S
      OBVIOUS
    <2> HIDE DEF S
    <2> QED
      BY <2>1, ShortSeqs
  <1>2. CASE language = "c"
    <2>1. steps = front \o <<>>
      BY <1>2 DEF Steps, SetupC
    <2> HIDE DEF front
    <2>2. steps = front
      <3> HIDE DEF S
      <3> QED
        BY <1>1, <2>1, ConcatEmptySeq
    <2>3. steps[i] \in S
      <3> HIDE DEF S
      <3> QED
        BY <1>1, <2>2, LenProperties, ElementOfSeq
    <2> QED
      BY <2>3, SetupDistinct
  <1>3. CASE language = "lua"
    <2>1. steps = SetupLua
      BY <1>3 DEF Steps
    <2>2. Len(steps) = 2 /\ steps[1] = <<"copy", "mcp.lua">> /\ steps[2] = <<"patch main.lua">>
      BY <2>1, LuaSteps
    <2>4. i = 1 \/ i = 2
      <3> DEFINE n == Len(steps)
      <3>1. i \in 1..n /\ n = 2
        BY <2>2
      <3> HIDE DEF n
      <3> QED
        BY <3>1
    <2>3. steps[i] \in {<<"copy", "mcp.lua">>, <<"patch main.lua">>}
      BY <2>2, <2>4
    <2> QED
      BY <2>3, SetupDistinct
  <1> QED
    BY <1>2, <1>3 DEF Languages

LEMMA SetupStepsStay ==
  ASSUME NEW d, NEW e, AllGrow(e, d), NEW language \in Languages
  PROVE  Steps("setup", language, e) = Steps("setup", language, d)
  <1>1. EventHandler(e.c) = EventHandler(d.c)
    BY HandlerStays
  <1> QED
    BY <1>1 DEF Steps, SetupC

LEMMA TeardownStepsStay ==
  ASSUME NEW d, NEW e, NEW language \in Languages,
         language = "c" => /\ ~HasUnmarkedHarnessReference(d.c)
                           /\ ~HasUnmarkedHarnessReference(e.c)
  PROVE  Steps("teardown", language, e) = Steps("teardown", language, d)
  BY DEF Steps, TeardownC, Languages

(* The Lua harness is removed in the last write, if at all.                  *)
LEMMA RemoveLuaLast ==
  ASSUME NEW d, NEW language \in Languages, NEW steps, steps = Steps("teardown", language, d),
         NEW i \in 1..Len(steps), steps[i] = <<"remove", "mcp.lua">>
  PROVE  i = Len(steps)
  <1>1. CASE language = "lua"
    <2>1. steps = TeardownLua
      BY <1>1 DEF Steps
    <2>2. Len(steps) = 2 /\ steps[1] = <<"strip main.lua">>
      BY <2>1, LuaSteps
    <2>4. i = 1 \/ i = 2
      <3> DEFINE n == Len(steps)
      <3>1. i \in 1..n /\ n = 2
        BY <2>2
      <3> HIDE DEF n
      <3> QED
        BY <3>1
    <2>3. i # 1
      BY <2>2, StepDistinct
    <2> QED
      BY <2>2, <2>3, <2>4
  <1>2. CASE language = "c"
    <2>1. steps = TeardownC(d)
      BY <1>2 DEF Steps
    <2>2. CASE HasUnmarkedHarnessReference(d.c)
      <3>1. steps = <<>>
        BY <2>1, <2>2 DEF TeardownC
      <3> QED
        BY <3>1
    <2>3. CASE ~HasUnmarkedHarnessReference(d.c)
      <3> DEFINE n == Len(CFiles)
      <3>1. n \in Nat
        BY FilesType
      <3>2. /\ Len(steps) = n + 3 /\ steps[1] = <<"restore CMakeLists.txt">>
            /\ \A k \in 1..n : steps[k + 1] = <<"strip", CFiles[k]>>
            /\ steps[(n + 1) + 1] = <<"remove", "mcp.h">>
            /\ steps[(n + 1) + 2] = <<"remove", "mcp.c">>
        BY <2>1, <2>3, TeardownCSteps
      <3> HIDE DEF n
      <3>3. \/ i = 1 \/ i = (n + 1) + 1 \/ i = (n + 1) + 2
            \/ i - 1 \in 1..n
        <4>1. Len(steps) = n + 3
          BY <3>2
        <4> QED
          BY <3>1, <4>1
      <3>4. ASSUME i - 1 \in 1..n PROVE FALSE
        <4>1. steps[i] = <<"strip", CFiles[i - 1]>>
          <5> DEFINE k == i - 1
          <5>1. k \in 1..n /\ i = k + 1
            BY <3>4
          <5> HIDE DEF k
          <5> QED
            BY <3>2, <5>1 DEF k
        <4> QED
          BY <4>1, StepDistinct
      <3>5. <<"remove", "mcp.h">> # <<"remove", "mcp.lua">> /\ <<"remove", "mcp.c">> # <<"remove", "mcp.lua">>
        OBVIOUS
      <3>6. i # 1
        BY <3>2, StepDistinct
      <3> QED
        BY <3>2, <3>3, <3>4, <3>5, <3>6
    <2> QED
      BY <2>2, <2>3
  <1> QED
    BY <1>1, <1>2 DEF Languages

(* A call whose first k writes are settled makes the next one.               *)
Stands(tool, language, d, k) ==
    LET steps == Steps(tool, language, d)
    IN k \in 0..Len(steps) /\ \A j \in 1..k : Settled(steps[j], d)

LEMMA StandsOn ==
  ASSUME NEW d \in GameType, FilesFormed(d), d.cmake # NoFile => CodeLists(d.cmake),
         version \in 1..MaxVersion, MaxVersion \in Nat,
         NEW tool \in {"setup", "teardown"}, NEW language \in Languages,
         NEW steps, steps = Steps(tool, language, d),
         NEW k, Stands(tool, language, d, k), k # Len(steps), Readable(steps[k + 1], d),
         NEW e \in GameType, e = After(steps[k + 1], d),
         tool = "teardown" /\ language = "c" =>
           ~HasUnmarkedHarnessReference(d.c) /\ ~HasUnmarkedHarnessReference(e.c)
  PROVE  /\ Steps(tool, language, e) = steps
         /\ Stands(tool, language, e, k + 1)
         /\ Whole(tool, language, e) = Whole(tool, language, d)
  <1> DEFINE n == Len(steps)
             step == steps[k + 1]
  <1>1. k \in 0..n /\ \A j \in 1..k : Settled(steps[j], d)
    BY DEF Stands
  <1>2. /\ tool = "setup" => steps \in Seq(SetupSteps)
        /\ tool = "teardown" => steps \in Seq(TeardownSteps)
    BY StepsOf
  <1>3. n \in Nat
    BY <1>2, LenProperties
  <1>4. k \in Nat /\ k + 1 \in 1..n /\ k \in 0..(n - 1)
    BY <1>1, <1>3
  <1>5. /\ tool = "setup" => \A j \in 1..n : steps[j] \in SetupSteps
        /\ tool = "teardown" => \A j \in 1..n : steps[j] \in TeardownSteps
    BY <1>2, ElementOfSeq
  <1> HIDE DEF n
  <1>6. \A j \in 1..n : steps[j] \in SetupSteps \cup TeardownSteps
    BY <1>5
  <1>7. \A j \in 1..k : j \in 1..n
    BY <1>3, <1>4
  <1>8. Steps(tool, language, e) = steps
    <2>1. CASE tool = "setup"
      <3>1. step \in SetupSteps
        BY <1>4, <1>5, <2>1
      <3>2. AllGrow(e, d)
        BY <3>1, AfterSetupWires DEF Wires
      <3> QED
        BY <2>1, <3>2, SetupStepsStay
    <2>2. CASE tool = "teardown"
      BY <2>2, TeardownStepsStay
    <2> QED
      BY <2>1, <2>2
  <1>9. Settled(step, e)
    <2>1. ASSUME tool = "setup" PROVE Settled(step, e)
      <3>1. step \in SetupSteps
        BY <1>4, <1>5, <2>1
      <3>2. step \in {<<"patch init">>, <<"patch update">>} => EventHandler(d.c) # NoFile
        BY <1>4, <2>1, InitNeedsHandler DEF n
      <3> HIDE DEF step
      <3> QED
        BY <3>1, <3>2, SetupSettles DEF step
    <2>2. ASSUME tool = "teardown" PROVE Settled(step, e)
      <3>1. step \in TeardownSteps
        BY <1>4, <1>5, <2>2
      <3> QED
        BY <3>1, TeardownSettles
    <2> QED
      BY <2>1, <2>2
  <1>10. ASSUME NEW j \in 1..k PROVE Settled(steps[j], e)
    <2>1. Settled(steps[j], d) /\ j \in 1..n /\ j # n
      BY <1>1, <1>3, <1>4, <1>7
    <2>2. CASE tool = "setup"
      <3>1. step \in SetupSteps /\ steps[j] \in SetupSteps
        BY <1>4, <1>5, <2>1, <2>2
      <3> QED
        BY <2>1, <3>1, SetupStays
    <2>3. CASE tool = "teardown"
      <3>1. step \in TeardownSteps /\ steps[j] \in TeardownSteps
        BY <1>4, <1>5, <2>1, <2>3
      <3>2. steps[j] # <<"remove", "mcp.lua">>
        BY <2>1, <2>3, RemoveLuaLast DEF n
      <3> QED
        BY <2>1, <3>1, <3>2, TeardownStays
    <2> QED
      BY <2>2, <2>3
  <1>11. \A j \in 1..(k + 1) : Settled(steps[j], e)
    <2>1. \A j \in 1..(k + 1) : j \in 1..k \/ j = k + 1
      BY <1>4
    <2> QED
      BY <1>9, <1>10, <2>1
  <1>12. Stands(tool, language, e, k + 1)
    <2>1. k + 1 \in 0..n
      BY <1>3, <1>4
    <2> QED
      BY <1>8, <1>11, <2>1 DEF Stands, n
  <1>13. Whole(tool, language, e) = Whole(tool, language, d)
    <2>1. PICK g : Runs(steps, d, g) /\ Whole(tool, language, d) = g[n].d
      BY <1>3, WholeRuns DEF n
    <2>2. PICK h : Runs(steps, e, h) /\ Whole(tool, language, e) = h[n].d
      BY <1>3, <1>8, WholeRuns DEF n
    <2>3. \A j \in 1..k : Readable(steps[j], d) /\ After(steps[j], d) = d
      BY <1>1, <1>6, <1>7, SettledSame
    <2>4. \A j \in 1..(k + 1) : Readable(steps[j], e) /\ After(steps[j], e) = e
      <3>1. \A j \in 1..(k + 1) : j \in 1..n
        BY <1>3, <1>4
      <3> QED
        BY <1>6, <1>11, <3>1, SettledSame
    <2>5. g[n] = h[n]
      BY <1>3, <1>4, <2>1, <2>2, <2>3, <2>4, RunsOn DEF n
    <2> QED
      BY <2>1, <2>2, <2>5
  <1> QED
    BY <1>8, <1>12, <1>13

-----------------------------------------------------------------------------
(* The lists of a game that are found stay code.                             *)

ListsCode(d) == d.cmake # NoFile => CodeLists(d.cmake)

LEMMA PatchCode ==
  ASSUME NEW d \in GameType, d.cmake \in Seq(CMakeItems), CodeLists(d.cmake)
  PROVE  CodeLists(PatchCMakeLists(d).cmake)
  <1> DEFINE s == d.cmake
             u == IF CMakeListsContain(s) THEN s ELSE PatchCMakeSourceList(s, EventHandler(d.c))
             r == PatchCMakeIncludeDirectories(u)
  <1>1. PatchCMakeLists(d).cmake = r
    BY DEF PatchCMakeLists, GameType
  <1>2. s \in Seq(CMakeItems) /\ CodeLists(s)
    OBVIOUS
  <1>3. u = s \/ u = PatchCMakeSourceList(s, EventHandler(d.c))
    OBVIOUS
  <1> HIDE DEF s, u
  <1>4. u \in Seq(CMakeItems) /\ CodeLists(u)
    <2>1. CASE u = s
      BY <1>2, <2>1
    <2>2. CASE u = PatchCMakeSourceList(s, EventHandler(d.c))
      BY <1>2, <2>2, SourceListType, ListedCode
    <2> QED
      BY <1>3, <2>1, <2>2
  <1>5. r \in Seq(CMakeItems)
    BY <1>4, IncludeDirectoriesType
  <1>6. \A k \in 1..Len(r) : \/ r[k].t \in {"BEGIN", "include_directories", "END"}
                             \/ \E j \in 1..Len(u) : r[k] = u[j]
    BY <1>4, IncludeDirectoriesItems
  <1> HIDE DEF r
  <1>7. DOMAIN r = 1..Len(r) /\ DOMAIN u = 1..Len(u)
    BY <1>4, <1>5, LenProperties
  <1>8. \A k \in DOMAIN r : r[k].t \notin {"set", "project"} \/ \E j \in DOMAIN u : SameCall(r[k], u[j])
    BY <1>6, <1>7 DEF SameCall
  <1> QED
    BY <1>1, <1>4, <1>8, CodeFrom

LEMMA RestoreCode ==
  ASSUME NEW d \in GameType, d.cmake \in Seq(CMakeItems), CodeLists(d.cmake)
  PROVE  CodeLists(TeardownCMakeLists(d).cmake)
  <1> DEFINE Filter(item) == IF ~IsCode(item, Commands) THEN item
                             ELSE [item EXCEPT !.args = Without(@, "mcp.c")]
             s == d.cmake
             u == [i \in DOMAIN s |-> Filter(s[i])]
             r == StripMarkerBlocks(u)
  <1>1. /\ s \in Seq(CMakeItems) /\ DOMAIN s = 1..Len(s) /\ Len(s) \in Nat
        /\ \A i \in 1..Len(s) : s[i] \in CMakeItems
    BY LenProperties, ElementOfSeq
  <1>2. TeardownCMakeLists(d).cmake = r
    <2>1. d.cmake # NoFile
      BY NoFileAssumption
    <2> HIDE DEF r
    <2>2. TeardownCMakeLists(d) = [d EXCEPT !.cmake = r]
      BY <2>1 DEF TeardownCMakeLists, r
    <2> QED
      BY <2>2 DEF GameType
  <1>3. ASSUME NEW item \in CMakeItems
        PROVE  Filter(item) \in CMakeItems /\ SameCall(Filter(item), item)
    <2>1. Filter(item) \in {item, Unlisted(item)}
      BY DEF IsCode, Unlisted
    <2>2. Unlisted(item) \in CMakeItems /\ SameCall(Unlisted(item), item)
      <3>1. Unlisted(item) \in CMakeItems
        BY UnlistedIs
      <3>2. item.t \in Commands => item \in CMakeCalls
        BY DEF CMakeItems
      <3>3. SameCall(Unlisted(item), item)
        BY <3>2 DEF SameCall, Unlisted, CMakeCalls
      <3> QED
        BY <3>1, <3>3
    <2>3. SameCall(item, item)
      BY DEF SameCall
    <2> HIDE DEF Filter
    <2> QED
      BY <2>1, <2>2, <2>3
  <1> HIDE DEF Filter
  <1>4. u \in Seq(CMakeItems)
    BY <1>1, <1>3
  <1>5. DOMAIN u = DOMAIN s /\ \A i \in DOMAIN s : u[i] = Filter(s[i])
    OBVIOUS
  <1> HIDE DEF u
  <1>6. CodeLists(u)
    <2>1. \A i \in DOMAIN u : SameCall(u[i], s[i])
      BY <1>1, <1>3, <1>5
    <2> QED
      BY <1>5, <2>1, CodeFrom
  <1>7. \A k \in DOMAIN r : \E j \in DOMAIN u : SameCall(r[k], u[j])
    <2>1. \A k \in DOMAIN r : \E j \in DOMAIN u : r[k] = u[j]
      BY <1>4, StripAddsNothing
    <2> HIDE DEF r
    <2> QED
      BY <2>1 DEF SameCall
  <1> QED
    BY <1>2, <1>6, <1>7, CodeFrom

(* No write brings a list that is not code.                                  *)
LEMMA AfterCode ==
  ASSUME NEW d \in GameType, ListsCode(d), NEW step \in SetupSteps \cup TeardownSteps,
         Readable(step, d), version \in 1..MaxVersion, MaxVersion \in Nat,
         NEW e, e = After(step, d)
  PROVE  ListsCode(e)
  <1>1. d.cmake # NoFile => d.cmake \in Seq(CMakeItems) /\ CodeLists(d.cmake)
    BY DEF GameType, ListsCode
  <1>2. CASE step = <<"patch CMakeLists.txt">>
    <2>1. e = PatchCMakeLists(d) /\ d.cmake # NoFile
      BY <1>2 DEF After, Readable
    <2> QED
      BY <1>1, <2>1, PatchCode DEF ListsCode
  <1>3. CASE step = <<"restore CMakeLists.txt">>
    <2>1. e = TeardownCMakeLists(d)
      BY <1>3 DEF After
    <2>2. d.cmake = NoFile => e = d
      BY <2>1 DEF TeardownCMakeLists
    <2> QED
      BY <1>1, <2>1, <2>2, RestoreCode DEF ListsCode
  <1>4. CASE step # <<"patch CMakeLists.txt">> /\ step # <<"restore CMakeLists.txt">>
    <2>1. step \in SetupSteps => e.cmake = d.cmake
      BY <1>4, AfterSetupFrame DEF SetupFrame
    <2>2. ASSUME step \in TeardownSteps PROVE e.cmake = d.cmake
      <3>1. Undone(e, d, step)
        BY <2>2, AfterTeardownIs
      <3> QED
        BY <1>4, <3>1 DEF Undone
    <2> QED
      BY <2>1, <2>2 DEF ListsCode
  <1> QED
    BY <1>2, <1>3, <1>4

-----------------------------------------------------------------------------
(* The invariant: the writes that a running call has left are the last ones of *)
(* what the same call would do now, and those before them are settled.         *)

AtWrite(tool, language, d, left, k) ==
    LET steps == Steps(tool, language, d)
    IN /\ Stands(tool, language, d, k)
       /\ Len(steps) = k + Len(left)
       /\ \A i \in 1..Len(left) : left[i] = steps[k + i]

(* The last write of a teardown is left, and the one before it is not made. *)
AtLast(tool, language, d, left) ==
    /\ tool = "teardown" /\ language = "c" /\ left = <<<<"remove", "mcp.c">>>>
    /\ Stands(tool, language, d, Len(CFiles) + 1)

Progress ==
    call.state = "running" =>
      /\ call.tool \in {"setup", "teardown"} /\ call.language \in Languages
      /\ \/ \E k : AtWrite(call.tool, call.language, disk, todo, k)
         \/ AtLast(call.tool, call.language, disk, todo)

ResumeInv == WholeInv /\ ListsCode(disk) /\ Progress /\ Resumable

LEMMA StandsSame ==
  ASSUME version' = version, NEW tool, NEW language, NEW d, NEW k
  PROVE  Stands(tool, language, d, k)' <=> Stands(tool, language, d, k)
  BY DEF Stands, Settled

LEMMA WholeSame ==
  ASSUME version' = version, NEW tool, NEW language, NEW d
  PROVE  Whole(tool, language, d)' = Whole(tool, language, d)
  BY DEF Whole, Write, After

LEMMA StandsAtFirst ==
  ASSUME NEW tool \in {"setup", "teardown"}, NEW language \in Languages, NEW d,
         NEW left, left = Steps(tool, language, d)
  PROVE  AtWrite(tool, language, d, left, 0)
  <1>1. left \in Seq(SetupSteps) \/ left \in Seq(TeardownSteps)
    BY StepsOf
  <1>2. Len(left) \in Nat
    BY <1>1, LenProperties
  <1> DEFINE n == Len(left)
  <1>3. 0 \in 0..n /\ n = 0 + n /\ \A i \in 1..n : 0 + i = i
    BY <1>2
  <1> QED
    BY <1>3 DEF AtWrite, Stands

(* The writes that are left when a copy is to be removed: this one, and for
   a C game the last one too.                                               *)
LEMMA RemovesLeft ==
  ASSUME NEW language \in Languages, NEW d,
         language = "c" => ~HasUnmarkedHarnessReference(d.c),
         NEW left \in Seq(TeardownSteps), left # <<>>, left[1][1] = "remove",
         NEW k, AtWrite("teardown", language, d, left, k), Tail(left) # <<>>
  PROVE  AtLast("teardown", language, d, Tail(left))
  <1> DEFINE steps == Steps("teardown", language, d)
             rest == Tail(left)
             n == Len(CFiles)
             m == Len(left)
             N == Len(steps)
  <1>1. /\ k \in 0..N /\ N = k + m /\ \A i \in 1..m : left[i] = steps[k + i]
        /\ \A i \in 1..k : Settled(steps[i], d)
    BY DEF AtWrite, Stands
  <1>2. /\ m \in Nat /\ Len(rest) = m - 1 /\ rest \in Seq(TeardownSteps)
        /\ \A i \in 1..(m - 1) : rest[i] = left[i + 1]
    BY HeadTailProperties, LenProperties
  <1>3. Len(rest) \in Nat /\ Len(rest) # 0
    BY <1>2, LenProperties, EmptySeq
  <1>4. n \in Nat
    BY FilesType
  <1>5. \A f : left[1] # <<"restore CMakeLists.txt">> /\ left[1] # <<"strip main.lua">> /\ left[1] # <<"strip", f>>
    BY StepDistinct
  <1>6. CASE language = "lua"
    <2>1. steps = TeardownLua
      BY <1>6 DEF Steps
    <2>2. N = 2 /\ steps[1] = <<"strip main.lua">>
      BY <2>1, LuaSteps
    <2> HIDE DEF N, m, steps, rest
    <2>3. m > 1
      BY <1>2, <1>3
    <2>4. k = 0
      <3>1. k \in 0..2 /\ k + m = 2
        BY <1>1, <2>2
      <3> QED
        BY <1>2, <2>3, <3>1
    <2>5. left[1] = steps[1]
      <3>1. 1 \in 1..m /\ k + 1 = 1
        BY <1>2, <2>3, <2>4
      <3> QED
        BY <1>1, <3>1
    <2> QED
      BY <1>5, <2>2, <2>5
  <1>7. CASE language = "c"
    <2>1. steps = TeardownC(d)
      BY <1>7 DEF Steps
    <2>2. /\ N = n + 3 /\ steps[1] = <<"restore CMakeLists.txt">>
          /\ \A i \in 1..n : steps[i + 1] = <<"strip", CFiles[i]>>
          /\ steps[(n + 1) + 1] = <<"remove", "mcp.h">>
          /\ steps[(n + 1) + 2] = <<"remove", "mcp.c">>
      BY <1>7, <2>1, TeardownCSteps
    <2> HIDE DEF N, n, m, steps, rest
    <2>3. k \in Nat /\ k + m = n + 3 /\ m > 1
      <3>1. k \in 0..(n + 3) /\ k + m = n + 3
        BY <1>1, <2>2
      <3>2. m > 1
        BY <1>2, <1>3
      <3> QED
        BY <1>4, <3>1, <3>2
    <2>4. left[1] = steps[k + 1]
      BY <1>1, <1>2, <2>3
    <2>5. k # 0
      <3>1. ASSUME k = 0 PROVE FALSE
        <4>1. k + 1 = 1
          BY <3>1
        <4> QED
          BY <1>5, <2>2, <2>4, <4>1
      <3> QED
        BY <3>1
    <2>6. k \notin 1..n
      BY <1>5, <2>2, <2>4
    <2>7. k = n + 1 /\ m = 2
      BY <1>2, <1>4, <2>3, <2>5, <2>6
    <2>8. rest[1] = <<"remove", "mcp.c">>
      <3>1. 1 \in 1..(m - 1) /\ 1 + 1 = 2 /\ 2 \in 1..m /\ k + 2 = (n + 1) + 2
        BY <1>4, <2>7
      <3>2. rest[1] = left[2]
        BY <1>2, <3>1
      <3>3. left[2] = steps[(n + 1) + 2]
        BY <1>1, <3>1
      <3> QED
        BY <2>2, <3>2, <3>3
    <2>9. rest = <<<<"remove", "mcp.c">>>>
      <3> DEFINE one == <<<<"remove", "mcp.c">>>>
      <3>1. one \in Seq({<<"remove", "mcp.c">>}) /\ Len(one) = 1 /\ one[1] = <<"remove", "mcp.c">>
        OBVIOUS
      <3>2. Len(rest) = 1 /\ rest = [i \in 1..Len(rest) |-> rest[i]]
        BY <1>2, <2>7, LenProperties
      <3>3. one = [i \in 1..Len(one) |-> one[i]]
        BY <3>1, LenProperties
      <3> HIDE DEF one
      <3>4. \A i \in 1..1 : rest[i] = one[i]
        BY <2>8, <3>1
      <3> QED
        BY <3>1, <3>2, <3>3, <3>4 DEF one
    <2>10. Stands("teardown", language, d, n + 1)
      <3>1. n + 1 \in 0..N /\ \A i \in 1..(n + 1) : Settled(steps[i], d)
        BY <1>1, <1>4, <2>2, <2>7
      <3> QED
        BY <3>1 DEF Stands, steps, N
    <2> QED
      BY <1>7, <2>9, <2>10 DEF AtLast, n, rest
  <1> QED
    BY <1>6, <1>7 DEF Languages

(* The last write may be made before the one in front of it.               *)
LEMMA LastWrites ==
  ASSUME NEW d \in GameType, FilesFormed(d), ~HasUnmarkedHarnessReference(d.c),
         Stands("teardown", "c", d, Len(CFiles) + 1)
  PROVE  Whole("teardown", "c", [d EXCEPT !.copies["mcp.c"] = 0]) = Whole("teardown", "c", d)
  <1> DEFINE steps == Steps("teardown", "c", d)
             n == Len(CFiles)
             N == Len(steps)
             e == [d EXCEPT !.copies["mcp.c"] = 0]
  <1>1. n \in Nat
    BY FilesType
  <1>2. /\ N = n + 3 /\ steps \in Seq(TeardownSteps)
        /\ steps[(n + 1) + 1] = <<"remove", "mcp.h">>
        /\ steps[(n + 1) + 2] = <<"remove", "mcp.c">>
    BY TeardownCSteps DEF Steps
  <1>3. \A i \in 1..N : steps[i] \in TeardownSteps
    BY <1>2, ElementOfSeq
  <1>4. \A i \in 1..(n + 1) : Settled(steps[i], d) /\ i \in 1..N /\ i # N
    BY <1>1, <1>2 DEF Stands
  <1>5. /\ e.c = d.c /\ e.cmake = d.cmake /\ e.lua = d.lua /\ e \in GameType
        /\ e.copies["mcp.c"] = 0
    <2>1. /\ e.c = d.c /\ e.cmake = d.cmake /\ e.lua = d.lua
          /\ e.copies = [d.copies EXCEPT !["mcp.c"] = 0]
      BY DEF GameType
    <2>2. [d.copies EXCEPT !["mcp.c"] = 0] \in [Harness -> 0..MaxVersion]
      <3>1. 0 \in 0..MaxVersion
        BY ConstantsAssumption
      <3>2. d.copies \in [Harness -> 0..MaxVersion]
        BY DEF GameType
      <3> QED
        BY <3>1, <3>2
    <2>3. e.copies["mcp.c"] = 0
      BY <2>1 DEF GameType, Harness
    <2>4. e \in GameType
      BY <2>1, <2>2 DEF GameType
    <2> QED
      BY <2>1, <2>3, <2>4
  <1>6. Steps("teardown", "c", e) = steps
    BY <1>5, TeardownStepsStay DEF Languages
  <1>7. After(<<"remove", "mcp.c">>, d) = e
    BY DEF After
  <1> HIDE DEF e
  <1>8. ASSUME NEW i \in 1..(n + 1) PROVE Settled(steps[i], e)
    <2>1. Settled(steps[i], d) /\ i \in 1..N /\ i # N /\ steps[i] \in TeardownSteps
      BY <1>3, <1>4
    <2>2. steps[i] # <<"remove", "mcp.lua">>
      BY <2>1, RemoveLuaLast DEF Languages
    <2>3. <<"remove", "mcp.c">> \in TeardownSteps
      BY DEF TeardownSteps, Removing, Harness
    <2> HIDE DEF steps
    <2> QED
      BY <1>7, <2>1, <2>2, <2>3, TeardownStays
  <1>9. PICK g : Runs(steps, d, g) /\ Whole("teardown", "c", d) = g[N].d
    BY <1>1, <1>2, WholeRuns
  <1>10. PICK h : Runs(steps, e, h) /\ Whole("teardown", "c", e) = h[N].d
    BY <1>1, <1>2, <1>6, WholeRuns
  <1> HIDE DEF steps
  <1>11. \A i \in 1..(n + 1) : Readable(steps[i], d) /\ After(steps[i], d) = d
    BY <1>3, <1>4, SettledSame
  <1>12. \A i \in 1..(n + 1) : Readable(steps[i], e) /\ After(steps[i], e) = e
    BY <1>3, <1>4, <1>5, <1>8, SettledSame
  <1>13. /\ \A x : Readable(<<"remove", "mcp.h">>, x) /\ Readable(<<"remove", "mcp.c">>, x)
         /\ \A x : After(<<"remove", "mcp.h">>, x) = [x EXCEPT !.copies["mcp.h"] = 0]
         /\ \A x : After(<<"remove", "mcp.c">>, x) = [x EXCEPT !.copies["mcp.c"] = 0]
    BY DEF Readable, After
  <1>14. /\ (n + 1) + 1 \in 1..N /\ (n + 1) + 2 \in 1..N
         /\ ((n + 1) + 1) - 1 = n + 1 /\ ((n + 1) + 2) - 1 = (n + 1) + 1
         /\ N = (n + 1) + 2
    BY <1>1, <1>2
  <1>15. ASSUME NEW x, NEW f, Runs(steps, x, f),
                \A i \in 1..(n + 1) : Readable(steps[i], x) /\ After(steps[i], x) = x
         PROVE  f[N].d = [[x EXCEPT !.copies["mcp.h"] = 0] EXCEPT !.copies["mcp.c"] = 0]
    <2> DEFINE x1 == [x EXCEPT !.copies["mcp.h"] = 0]
               x2 == [x1 EXCEPT !.copies["mcp.c"] = 0]
    <2>5. f[n + 1] = [ok |-> TRUE, d |-> x]
      <3>1. n + 1 \in 0..N /\ N \in Nat
        BY <1>1, <1>2
      <3> QED
        BY <1>15, <3>1, RunsSame
    <2>1. f[(n + 1) + 1] = Write(f[n + 1], <<"remove", "mcp.h">>)
      BY <1>2, <1>14, <1>15 DEF Runs
    <2>2. f[(n + 1) + 1] = [ok |-> TRUE, d |-> x1]
      BY <1>13, <2>1, <2>5, WriteIs
    <2>3. f[(n + 1) + 2] = Write(f[(n + 1) + 1], <<"remove", "mcp.c">>)
      BY <1>2, <1>14, <1>15 DEF Runs
    <2> HIDE DEF x1
    <2>4. f[(n + 1) + 2] = [ok |-> TRUE, d |-> x2]
      BY <1>13, <2>2, <2>3, WriteIs
    <2> HIDE DEF x2
    <2> QED
      BY <1>14, <2>4 DEF x1, x2
  <1>16. [[e EXCEPT !.copies["mcp.h"] = 0] EXCEPT !.copies["mcp.c"] = 0]
         = [[d EXCEPT !.copies["mcp.h"] = 0] EXCEPT !.copies["mcp.c"] = 0]
    <2> DEFINE u == [[d.copies EXCEPT !["mcp.h"] = 0] EXCEPT !["mcp.c"] = 0]
               v == [[[d.copies EXCEPT !["mcp.c"] = 0] EXCEPT !["mcp.h"] = 0] EXCEPT !["mcp.c"] = 0]
    <2>1. u = v
      BY DEF GameType, Harness
    <2>2. [[d EXCEPT !.copies["mcp.h"] = 0] EXCEPT !.copies["mcp.c"] = 0] = [d EXCEPT !.copies = u]
      BY DEF GameType
    <2>3. [[e EXCEPT !.copies["mcp.h"] = 0] EXCEPT !.copies["mcp.c"] = 0] = [d EXCEPT !.copies = v]
      BY DEF GameType, e
    <2> HIDE DEF u, v
    <2> QED
      BY <2>1, <2>2, <2>3
  <1>17. Whole("teardown", "c", d) = [[d EXCEPT !.copies["mcp.h"] = 0] EXCEPT !.copies["mcp.c"] = 0]
    BY <1>9, <1>11, <1>15
  <1>18. Whole("teardown", "c", e) = [[e EXCEPT !.copies["mcp.h"] = 0] EXCEPT !.copies["mcp.c"] = 0]
    BY <1>10, <1>12, <1>15
  <1> QED
    BY <1>16, <1>17, <1>18 DEF e

LEMMA ResumeCall ==
  ASSUME ResumeInv, NEW tool \in {"setup", "teardown"}, NEW language \in Languages,
         Call(tool, language)
  PROVE  ListsCode(disk)' /\ Progress' /\ Resumable'
  <1>1. /\ disk' = disk /\ version' = version /\ todo' = Steps(tool, language, disk)
        /\ call' = [tool |-> tool, language |-> language,
                    state |-> IF todo' = <<>> THEN "done" ELSE "running"]
        /\ start' = IF call' = [call EXCEPT !.state = call'.state] /\ call.state = "failed"
                    THEN start ELSE disk
    BY DEF Call
  <1>2. call'.tool = tool /\ call'.language = language /\ call'.state # "none"
    BY <1>1
  <1>3. ListsCode(disk)'
    BY <1>1 DEF ResumeInv, ListsCode, CodeLists
  <1>4. Progress'
    <2> DEFINE d == disk
               left == Steps(tool, language, d)
    <2>1. AtWrite(tool, language, d, left, 0)
      BY StandsAtFirst
    <2>2. disk' = d /\ todo' = left
      BY <1>1
    <2> HIDE DEF left
    <2>3. Stands(tool, language, disk, 0)
      BY <2>1 DEF AtWrite
    <2>4. Stands(tool, language, disk, 0)'
      BY <1>1, <2>3 DEF Stands, Settled
    <2>5. AtWrite(tool, language, disk, todo, 0)'
      BY <2>1, <2>2, <2>4 DEF AtWrite
    <2> QED
      BY <1>2, <2>5 DEF Progress
  <1>5. Whole(tool, language, start') = Whole(tool, language, disk)
    <2>1. CASE call' = [call EXCEPT !.state = call'.state] /\ call.state = "failed"
      <3>1. call \in CallTypes
        BY DEF ResumeInv, WholeInv, TodoOfCall
      <3>2. call.tool = tool /\ call.language = language
        BY <1>2, <2>1, <3>1 DEF CallTypes
      <3>3. start' = start
        BY <1>1, <2>1
      <3> QED
        BY <2>1, <3>2, <3>3 DEF ResumeInv, Resumable
    <2>2. CASE ~(call' = [call EXCEPT !.state = call'.state] /\ call.state = "failed")
      BY <1>1, <2>2
    <2> QED
      BY <2>1, <2>2
  <1>6. Resumable'
    <2>1. PICK d, c : d = disk /\ c = start'
      OBVIOUS
    <2>2. Whole(tool, language, d) = Whole(tool, language, c) /\ disk' = d /\ start' = c
      BY <1>1, <1>5, <2>1
    <2> QED
      BY <1>1, <1>2, <2>2, WholeSame DEF Resumable
  <1> QED
    BY <1>3, <1>4, <1>6

LEMMA SameListsCode ==
  ASSUME ResumeInv, disk'.cmake = disk.cmake
  PROVE  ListsCode(disk)'
  BY DEF ResumeInv, ListsCode, CodeLists

LEMMA ResumeStep ==
  ASSUME ResumeInv, Step, ~AtLast(call.tool, call.language, disk, todo)
  PROVE  ListsCode(disk)' /\ Progress' /\ Resumable'
  <1> DEFINE tool == call.tool
             language == call.language
             steps == Steps(tool, language, disk)
             e == After(Head(todo), disk)
  <1>1. /\ todo # <<>> /\ Readable(Head(todo), disk) /\ disk' = e /\ todo' = Tail(todo)
        /\ call' = [call EXCEPT !.state = IF todo' = <<>> THEN "done" ELSE "running"]
        /\ version' = version /\ start' = start
    BY DEF Step
  <1>2. call \in CallTypes /\ call.state = "running"
    BY <1>1 DEF ResumeInv, WholeInv, TodoOfCall
  <1>3. call'.tool = tool /\ call'.language = language /\ call'.state \in {"running", "done"}
    BY <1>1, <1>2 DEF CallTypes
  <1>4. /\ disk \in GameType /\ FilesFormed(disk) /\ ListsCode(disk)
        /\ version \in 1..MaxVersion /\ MaxVersion \in Nat
    BY ConstantsAssumption DEF ResumeInv, WholeInv, KeptInv, DanglingInv, SetupTypes
  <1>5. tool \in {"setup", "teardown"} /\ language \in Languages
    BY <1>2 DEF ResumeInv, Progress
  <1>6. PICK k : AtWrite(tool, language, disk, todo, k)
    BY <1>2 DEF ResumeInv, Progress
  <1>7. /\ steps \in Seq(SetupSteps) \/ steps \in Seq(TeardownSteps)
        /\ todo \in Seq(SetupSteps) \/ todo \in Seq(TeardownSteps)
    BY <1>4, <1>5, StepsOf DEF ResumeInv, WholeInv, KeptInv, DanglingInv, SetupTypes
  <1>8. e \in GameType
    <2>1. DanglingInv' /\ disk' = e
      BY <1>1, DanglingNext DEF ResumeInv, WholeInv, KeptInv, Next
    <2> HIDE DEF e
    <2> QED
      BY <2>1 DEF DanglingInv, SetupTypes
  <1>9. /\ Len(todo) \in Nat /\ Len(todo) # 0 /\ Head(todo) = todo[1]
        /\ Len(todo') = Len(todo) - 1
        /\ \A i \in 1..Len(todo') : todo'[i] = todo[i + 1]
    BY <1>1, <1>7, HeadTailProperties, LenProperties, EmptySeq
  <1>10. /\ k \in 0..Len(steps) /\ Len(steps) \in Nat /\ Len(steps) = k + Len(todo)
         /\ \A i \in 1..Len(todo) : todo[i] = steps[k + i]
    BY <1>6, <1>7, LenProperties DEF AtWrite, Stands
  <1>11. k # Len(steps) /\ Head(todo) = steps[k + 1] /\ k + 1 \in 1..Len(steps)
    BY <1>9, <1>10
  <1>12. Head(todo) \in SetupSteps \cup TeardownSteps
    BY <1>1, <1>7, HeadTailProperties
  <1>13. tool = "teardown" /\ language = "c" =>
           ~HasUnmarkedHarnessReference(disk.c) /\ ~HasUnmarkedHarnessReference(e.c)
    <2> SUFFICES ASSUME tool = "teardown", language = "c"
                 PROVE  ~HasUnmarkedHarnessReference(disk.c) /\ ~HasUnmarkedHarnessReference(e.c)
      OBVIOUS
    <2>1. Torn /\ ~HasUnmarkedHarnessReference(disk.c) /\ todo \in Seq(TeardownSteps)
      BY <1>2 DEF ResumeInv, WholeInv, TeardownWhole, TodoOfCall
    <2>2. ~HasUnmarkedHarnessReference(disk'.c)
      BY <2>1, TornStep DEF ResumeInv
    <2> HIDE DEF e
    <2> QED
      BY <1>1, <2>1, <2>2
  <1>14. /\ Steps(tool, language, e) = steps
         /\ Stands(tool, language, e, k + 1)
         /\ Whole(tool, language, e) = Whole(tool, language, disk)
    <2>1. Readable(steps[k + 1], disk) /\ e = After(steps[k + 1], disk)
      BY <1>1, <1>11
    <2>2. Stands(tool, language, disk, k)
      BY <1>6 DEF AtWrite
    <2> HIDE DEF e, tool, language
    <2>3. disk.cmake # NoFile => CodeLists(disk.cmake)
      BY <1>4 DEF ListsCode
    <2> QED
      BY <1>4, <1>5, <1>8, <1>11, <1>13, <2>1, <2>2, <2>3, StandsOn
  <1>15. PICK d, a, b : d = e /\ a = tool /\ b = language
    OBVIOUS
  <1>16. ListsCode(d) /\ disk' = d
    BY <1>1, <1>4, <1>12, <1>15, AfterCode
  <1>17. ListsCode(disk)'
    BY <1>16 DEF ListsCode, CodeLists
  <1>18. /\ call'.tool = a /\ call'.language = b
         /\ Steps(a, b, d) = steps /\ Stands(a, b, d, k + 1)
         /\ Whole(a, b, d) = Whole(a, b, disk)
    BY <1>3, <1>14, <1>15
  <1> HIDE DEF e
  <1>19. Progress'
    <2>1. Stands(a, b, d, k + 1)'
      BY <1>1, <1>18, StandsSame
    <2>2. Len(steps) = (k + 1) + Len(todo')
      BY <1>9, <1>10
    <2>3. ASSUME NEW i \in 1..Len(todo') PROVE todo'[i] = steps[(k + 1) + i]
      <3>1. i + 1 \in 1..Len(todo) /\ k + (i + 1) = (k + 1) + i
        BY <1>9, <1>10
      <3> QED
        BY <1>9, <1>10, <3>1
    <2>4. /\ Len(Steps(a, b, d)) = (k + 1) + Len(todo')
          /\ \A i \in 1..Len(todo') : todo'[i] = Steps(a, b, d)[(k + 1) + i]
      BY <1>18, <2>2, <2>3
    <2> HIDE DEF steps
    <2>5. AtWrite(a, b, disk, todo, k + 1)'
      BY <1>16, <2>1, <2>4 DEF AtWrite
    <2>6. call'.tool \in {"setup", "teardown"} /\ call'.language \in Languages
      BY <1>3, <1>5
    <2> QED
      BY <1>18, <2>5, <2>6 DEF Progress
  <1>20. Resumable'
    <2>1. PICK c : c = start
      OBVIOUS
    <2>2. Whole(tool, language, disk) = Whole(tool, language, start)
      BY <1>2 DEF ResumeInv, Resumable
    <2>3. Whole(a, b, d) = Whole(a, b, c) /\ start' = c
      BY <1>1, <1>15, <1>18, <2>1, <2>2
    <2> QED
      BY <1>1, <1>16, <1>18, <2>3, WholeSame DEF Resumable
  <1> QED
    BY <1>17, <1>19, <1>20

LEMMA ResumeLast ==
  ASSUME ResumeInv, Step, AtLast(call.tool, call.language, disk, todo)
  PROVE  ListsCode(disk)' /\ Progress' /\ Resumable'
  <1> DEFINE e == [disk EXCEPT !.copies["mcp.c"] = 0]
             left == <<<<"remove", "mcp.c">>>>
  <1>1. todo = left /\ call.tool = "teardown" /\ call.language = "c"
    BY DEF AtLast
  <1>2. Head(todo) = <<"remove", "mcp.c">> /\ Tail(todo) = <<>> /\ todo # <<>>
    BY <1>1
  <1>3. /\ disk' = After(Head(todo), disk) /\ todo' = <<>>
        /\ call' = [call EXCEPT !.state = IF todo' = <<>> THEN "done" ELSE "running"]
        /\ version' = version /\ start' = start
    BY <1>2 DEF Step
  <1>4. call \in CallTypes /\ call.state = "running"
    BY <1>2 DEF ResumeInv, WholeInv, TodoOfCall
  <1>5. call'.tool = "teardown" /\ call'.language = "c" /\ call'.state = "done"
    BY <1>1, <1>3, <1>4 DEF CallTypes
  <1>6. disk' = e
    <2>1. /\ <<"remove", "mcp.c">>[1] = "remove" /\ <<"remove", "mcp.c">>[2] = "mcp.c"
      OBVIOUS
    <2> QED
      BY <1>2, <1>3, <2>1 DEF After
  <1>7. disk \in GameType /\ FilesFormed(disk) /\ ~HasUnmarkedHarnessReference(disk.c)
    BY <1>1, <1>4
    DEF ResumeInv, WholeInv, TeardownWhole, KeptInv, DanglingInv, SetupTypes
  <1>8. Stands("teardown", "c", disk, Len(CFiles) + 1)
    BY <1>1 DEF AtLast
  <1>9. PICK d : d = e
    OBVIOUS
  <1>10. Whole("teardown", "c", d) = Whole("teardown", "c", disk)
    BY <1>7, <1>8, <1>9, LastWrites
  <1>11. d.cmake = disk.cmake
    BY <1>7, <1>9 DEF GameType
  <1> HIDE DEF e
  <1>12. ListsCode(disk)'
    BY <1>6, <1>9, <1>11, SameListsCode
  <1>13. Progress'
    BY <1>5 DEF Progress
  <1>14. Resumable'
    <2>1. PICK c : c = start
      OBVIOUS
    <2>2. Whole("teardown", "c", disk) = Whole("teardown", "c", start)
      BY <1>1, <1>4 DEF ResumeInv, Resumable
    <2>3. Whole("teardown", "c", d) = Whole("teardown", "c", c) /\ start' = c /\ disk' = d
      BY <1>3, <1>6, <1>9, <1>10, <2>1, <2>2
    <2> QED
      BY <1>3, <1>5, <2>3, WholeSame DEF Resumable
  <1> QED
    BY <1>12, <1>13, <1>14

(* A copy that is not looked up leaves the game as it is; of a C game one
   more write may be left.                                                  *)
LEMMA ResumeOverlook ==
  ASSUME ResumeInv, Overlook
  PROVE  ListsCode(disk)' /\ Progress' /\ Resumable'
  <1>1. /\ todo # <<>> /\ Head(todo)[1] = "remove" /\ todo' = Tail(todo)
        /\ call' = [call EXCEPT !.state = IF todo' = <<>> THEN "done" ELSE "running"]
        /\ disk' = disk /\ version' = version /\ start' = start
    BY DEF Overlook
  <1>2. call \in CallTypes /\ call.state = "running"
    BY <1>1 DEF ResumeInv, WholeInv, TodoOfCall
  <1>3. call'.tool = call.tool /\ call'.language = call.language /\ call'.state # "none"
    BY <1>1, <1>2 DEF CallTypes
  <1>4. ListsCode(disk)'
    BY <1>1, SameListsCode
  <1>5. Resumable'
    <2>1. PICK a, b, c, d : a = call.tool /\ b = call.language /\ c = start /\ d = disk
      OBVIOUS
    <2>2. Whole(a, b, d) = Whole(a, b, c)
      BY <1>2, <2>1 DEF ResumeInv, Resumable
    <2>3. call'.tool = a /\ call'.language = b /\ start' = c /\ disk' = d
      BY <1>1, <1>3, <2>1
    <2> QED
      BY <1>1, <2>2, <2>3, WholeSame DEF Resumable
  <1>6. todo \in Seq(TeardownSteps) /\ todo \notin Seq(SetupSteps)
    BY OverlooksCopy DEF ResumeInv, WholeInv, KeptInv, DanglingInv
  <1>7. call.tool = "teardown" /\ call.language \in Languages
    BY <1>2, <1>6 DEF ResumeInv, WholeInv, TodoOfCall, Progress
  <1>8. Progress'
    <2>1. CASE AtLast(call.tool, call.language, disk, todo)
      <3>1. todo = <<<<"remove", "mcp.c">>>>
        BY <2>1 DEF AtLast
      <3>2. todo' = <<>>
        BY <1>1, <3>1
      <3>3. call'.state = "done"
        BY <1>1, <1>2, <3>2 DEF CallTypes
      <3> QED
        BY <3>3 DEF Progress
    <2>2. CASE ~AtLast(call.tool, call.language, disk, todo)
      <3>1. PICK k : AtWrite("teardown", call.language, disk, todo, k)
        BY <1>2, <1>7, <2>2 DEF ResumeInv, Progress
      <3>2. call.language = "c" => ~HasUnmarkedHarnessReference(disk.c)
        BY <1>2, <1>7 DEF ResumeInv, WholeInv, TeardownWhole
      <3>3. todo' # <<>> => AtLast("teardown", call.language, disk, todo')
        <4>1. PICK d, left, rest, language :
                 d = disk /\ left = todo /\ rest = Tail(todo) /\ language = call.language
          OBVIOUS
        <4>2. /\ language \in Languages /\ left \in Seq(TeardownSteps) /\ left # <<>>
              /\ language = "c" => ~HasUnmarkedHarnessReference(d.c)
              /\ AtWrite("teardown", language, d, left, k)
          BY <1>1, <1>6, <1>7, <3>1, <3>2, <4>1
        <4>3. left[1][1] = "remove"
          BY <1>1, <4>1, <4>2, HeadTailProperties
        <4>4. rest # <<>> => AtLast("teardown", language, d, rest)
          BY <4>1, <4>2, <4>3, RemovesLeft
        <4> QED
          BY <1>1, <4>1, <4>4
      <3>4. todo' # <<>> => AtLast(call.tool, call.language, disk, todo)'
        BY <1>1, <1>3, <1>7, <3>3 DEF AtLast, Stands, Settled
      <3>5. todo' = <<>> => call'.state = "done"
        BY <1>1, <1>2 DEF CallTypes
      <3> QED
        BY <1>3, <1>7, <3>4, <3>5 DEF Progress
    <2> QED
      BY <2>1, <2>2
  <1> QED
    BY <1>4, <1>5, <1>8

LEMMA ResumeFail ==
  ASSUME ResumeInv, Fail
  PROVE  ListsCode(disk)' /\ Progress' /\ Resumable'
  <1>1. /\ todo # <<>> /\ call' = [call EXCEPT !.state = "failed"]
        /\ disk' = disk /\ version' = version /\ start' = start
    BY DEF Fail
  <1>2. call \in CallTypes /\ call.state = "running"
    BY <1>1 DEF ResumeInv, WholeInv, TodoOfCall
  <1>3. call'.tool = call.tool /\ call'.language = call.language /\ call'.state = "failed"
    BY <1>1, <1>2 DEF CallTypes
  <1>4. ListsCode(disk)' /\ Progress'
    BY <1>1, <1>3 DEF ResumeInv, ListsCode, CodeLists, Progress
  <1>5. Resumable'
    <2>1. PICK a, b, c, d : a = call.tool /\ b = call.language /\ c = start /\ d = disk
      OBVIOUS
    <2>2. Whole(a, b, d) = Whole(a, b, c)
      BY <1>2, <2>1 DEF ResumeInv, Resumable
    <2>3. call'.tool = a /\ call'.language = b /\ start' = c /\ disk' = d
      BY <1>1, <1>3, <2>1
    <2> QED
      BY <1>1, <2>2, <2>3, WholeSame DEF Resumable
  <1> QED
    BY <1>4, <1>5

(* After an edit, or a new version of the server, there is no call to resume. *)
LEMMA NothingToResume ==
  ASSUME call' = NoCall
  PROVE  Progress' /\ Resumable'
  <1>1. call'.state = "none"
    BY DEF NoCall
  <1> QED
    BY <1>1 DEF Progress, Resumable

LEMMA FollowCMakeCode ==
  ASSUME ResumeInv, FollowManualCMakeStep
  PROVE  ListsCode(disk)'
  <1> DEFINE i == First(disk.cmake, {"add"})
             s == [disk.cmake EXCEPT ![i] = AddHarness(@)]
  <1>1. i # 0 /\ disk' = [disk EXCEPT !.cmake[i] = AddHarness(@)] /\ told # {}
    BY DEF FollowManualCMakeStep, Edit
  <1>2. /\ disk \in GameType /\ disk.cmake \in Seq(CMakeItems) /\ disk.cmake # NoFile
        /\ CodeLists(disk.cmake)
    BY <1>1, NoFileAssumption
    DEF ResumeInv, WholeInv, KeptInv, DanglingInv, SetupTypes, ToldWithHarness, ListsCode
  <1>3. i \in 1..Len(disk.cmake) /\ disk.cmake[i].t = "add"
    BY <1>1, <1>2, FirstIs
  <1>4. disk.cmake[i] \in CMakeItems /\ DOMAIN disk.cmake = 1..Len(disk.cmake)
    BY <1>2, <1>3, ElementOfSeq, LenProperties
  <1>5. AddHarness(disk.cmake[i]).t = "add"
    BY <1>3, <1>4, AddHarnessLists
  <1>6. disk'.cmake = s
    BY <1>1, <1>2 DEF GameType
  <1> HIDE DEF i
  <1>7. \A k \in DOMAIN s : s[k].t \notin {"set", "project"} \/ \E j \in DOMAIN disk.cmake : SameCall(s[k], disk.cmake[j])
    <2>1. DOMAIN s = DOMAIN disk.cmake
      OBVIOUS
    <2>2. \A k \in DOMAIN s : s[k] = IF k = i THEN AddHarness(disk.cmake[i]) ELSE disk.cmake[k]
      BY <1>3, <1>4
    <2> HIDE DEF s
    <2> QED
      BY <1>5, <2>1, <2>2 DEF SameCall
  <1> HIDE DEF s
  <1>8. CodeLists(s)
    BY <1>2, <1>7, CodeFrom
  <1>9. PICK u : u = s
    OBVIOUS
  <1> QED
    BY <1>6, <1>8, <1>9 DEF ListsCode, CodeLists

LEMMA AccessCMake ==
  ASSUME disk \in GameType, ChangeAccess
  PROVE  disk'.cmake = disk.cmake
  <1>1. PICK c : disk' = [disk EXCEPT !.c = c]
    BY DEF ChangeAccess
  <1> QED
    BY <1>1 DEF GameType

LEMMA ResumeEdit ==
  ASSUME ResumeInv,
         FollowManualStep \/ FollowManualCMakeStep \/ UndoInputCalls
         \/ ChangeAccess \/ UpgradeServer
  PROVE  ListsCode(disk)' /\ Progress' /\ Resumable'
  <1>1. call' = NoCall
    BY DEF FollowManualStep, FollowManualCMakeStep, UndoInputCalls, ChangeAccess, UpgradeServer, Edit
  <1>2. disk \in GameType
    BY DEF ResumeInv, WholeInv, KeptInv, DanglingInv, SetupTypes
  <1>3. ASSUME FollowManualStep PROVE disk'.cmake = disk.cmake
    <2>1. PICK t \in told \cap {"init", "update"} :
            disk' = [disk EXCEPT !.c[EventHandler(disk.c)] = Append(@, OwnLine(t))]
      BY <1>3 DEF FollowManualStep, Edit
    <2> QED
      BY <1>2, <2>1 DEF GameType
  <1>4. ASSUME UndoInputCalls PROVE disk'.cmake = disk.cmake
    <2> DEFINE c == [f \in ToSet(CFiles) |-> Renamed(disk.c[f], "wrapper", "input")]
    <2>1. disk' = [disk EXCEPT !.c = c]
      BY <1>4 DEF UndoInputCalls, Edit
    <2> HIDE DEF c
    <2> QED
      BY <1>2, <2>1 DEF GameType
  <1>5. ASSUME UpgradeServer PROVE disk'.cmake = disk.cmake
    BY <1>5 DEF UpgradeServer
  <1>7. ASSUME ChangeAccess PROVE disk'.cmake = disk.cmake
    BY <1>2, <1>7, AccessCMake
  <1>6. ListsCode(disk)'
    BY <1>3, <1>4, <1>5, <1>7, SameListsCode, FollowCMakeCode
  <1> QED
    BY <1>1, <1>6, NothingToResume

LEMMA ResumeInit ==
  ASSUME ListsAreCode, Init
  PROVE  ResumeInv
  <1>1. disk \in Games /\ call.state = "none"
    BY DEF Init, NoCall
  <1>2. ListsCode(disk)
    BY <1>1 DEF ListsAreCode, ListsCode, CodeLists
  <1> QED
    BY <1>1, <1>2, WholeInit DEF ResumeInv, Progress, Resumable

LEMMA ResumeNext ==
  ASSUME ResumeInv, [Next]_vars
  PROVE  ResumeInv'
  <1>1. WholeInv'
    BY WholeNext DEF ResumeInv
  <1>2. ASSUME NEW tool \in {"setup", "teardown"}, CallDetected(tool)
        PROVE  ListsCode(disk)' /\ Progress' /\ Resumable'
    <2>1. DetectLanguage(disk) \in Languages /\ Call(tool, DetectLanguage(disk))
      BY <1>2 DEF CallDetected, DetectLanguage, Languages
    <2> QED
      BY <2>1, ResumeCall
  <1>3. ASSUME NEW tool \in {"setup", "teardown"}, NEW language \in Languages,
               Call(tool, language)
        PROVE  ListsCode(disk)' /\ Progress' /\ Resumable'
    BY <1>3, ResumeCall
  <1>4. ASSUME UNCHANGED vars
        PROVE  ListsCode(disk)' /\ Progress' /\ Resumable'
    <2>1. /\ disk' = disk /\ version' = version /\ call' = call /\ start' = start /\ todo' = todo
      BY <1>4 DEF vars
    <2>2. ListsCode(disk)'
      BY <2>1, SameListsCode
    <2>3. Progress'
      <3> SUFFICES ASSUME call.state = "running" PROVE Progress'
        BY <2>1 DEF Progress
      <3>1. ASSUME NEW k, AtWrite(call.tool, call.language, disk, todo, k)
            PROVE  AtWrite(call.tool, call.language, disk, todo, k)'
        BY <2>1, <3>1 DEF AtWrite, Stands, Settled
      <3>2. AtLast(call.tool, call.language, disk, todo) =>
              AtLast(call.tool, call.language, disk, todo)'
        BY <2>1 DEF AtLast, Stands, Settled
      <3> QED
        BY <2>1, <3>1, <3>2 DEF ResumeInv, Progress
    <2>4. Resumable'
      <3> SUFFICES ASSUME call.state # "none" PROVE Resumable'
        BY <2>1 DEF Resumable
      <3>1. PICK a, b, c, d : a = call.tool /\ b = call.language /\ c = start /\ d = disk
        OBVIOUS
      <3>2. Whole(a, b, d) = Whole(a, b, c)
        BY <3>1 DEF ResumeInv, Resumable
      <3>3. call'.tool = a /\ call'.language = b /\ start' = c /\ disk' = d
        BY <2>1, <3>1
      <3> QED
        BY <2>1, <3>2, <3>3, WholeSame DEF Resumable
    <2> QED
      BY <2>2, <2>3, <2>4
  <1>5. ListsCode(disk)' /\ Progress' /\ Resumable'
    BY <1>2, <1>3, <1>4, ResumeStep, ResumeLast, ResumeOverlook, ResumeFail, ResumeEdit
    DEF Next
  <1> QED
    BY <1>1, <1>5 DEF ResumeInv

(* In games of any size, if neither project() nor a list in their CMakeLists.txt
   is in a comment, and while the same files can be read: from wherever a call
   stands, done, failed or in the middle, the same call again leads where it
   would have led at once, for each of its writes can be repeated, and the later
   ones undo none of the earlier. *)
THEOREM ResumableCorrect ==
  ASSUME ListsAreCode
  PROVE  Spec => []Resumable
  <1>1. Init => ResumeInv
    BY ResumeInit
  <1>2. ResumeInv /\ [Next]_vars => ResumeInv'
    BY ResumeNext
  <1>3. ResumeInv => Resumable
    BY DEF ResumeInv
  <1> QED
    BY <1>1, <1>2, <1>3, PTL DEF Spec
=============================================================================
