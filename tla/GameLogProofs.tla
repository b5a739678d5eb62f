--------------------------- MODULE GameLogProofs ---------------------------
(***************************************************************************)
(* Theorems about GameLog for entries of any number and size, every cap,   *)
(* and any number of runs, deaths and failures.                            *)
(***************************************************************************)
EXTENDS GameLog, TLAPS, WellFoundedInduction, FiniteSetTheorems

LEMMA Contents ==
  ASSUME NEW f \in (SUBSET Entries) \cup {Absent}
  PROVE  Content(f) \in SUBSET Entries /\ Content(f) # Absent
  <1>1. 0 \notin Entries
    BY ConstantsAssumption DEF Entries
  <1> QED
    BY <1>1 DEF Content, Absent

(* The file is there when its line is written, and an entry was printed.   *)
AtWork ==
    /\ pc = "write" => cur # Absent
    /\ pc \in {"delete", "rename", "truncate", "open", "write"} => printed \in Entries

TypeInv == TypeOK /\ AtWork

LEMMA TypeInit == Init => TypeInv
  <1> SUFFICES ASSUME Init PROVE TypeInv
    OBVIOUS
  <1>1. sizeOf \in [Entries -> Nat]
    BY DEF Init
  <1>2. /\ printed \in 0..MaxEntries /\ before \in 0..printed /\ runs \in 0..MaxRuns
        /\ gameLogBytes \in Nat
    BY ConstantsAssumption DEF Init
  <1>3. prev \in {Absent} /\ cur \in {Absent} /\ failures = {} /\ older = {} /\ newer = {}
    BY DEF Init
  <1> QED
    BY <1>1, <1>2, <1>3 DEF Init, TypeInv, TypeOK, AtWork

LEMMA TypeStep == TypeInv /\ [Next]_vars => TypeInv'
  <1> SUFFICES ASSUME TypeInv, [Next]_vars PROVE TypeInv'
    OBVIOUS
  <1> USE ConstantsAssumption DEF TypeInv, TypeOK, AtWork
  <1>0. /\ Content(cur) \in SUBSET Entries /\ Content(prev) \in SUBSET Entries
        /\ Content(cur) # Absent
    BY Contents
  <1>00. {} # Absent /\ 0 \in 0..MaxEntries
    BY DEF Absent
  <1>1. CASE UNCHANGED vars
    BY <1>1 DEF vars, fileVars, gameVars, readVars
  <1>2. CASE Start
    <2>1. /\ runs' \in 0..MaxRuns /\ before' \in 0..printed' /\ gameLogBytes' \in Nat
          /\ pc' = "reset"
      BY <1>2 DEF Start, Goto
    <2>2. /\ cur' \in (SUBSET Entries) \cup {Absent} /\ torn' \in 0..MaxEntries
          /\ broken' \in BOOLEAN
          /\ failures' \subseteq MayFail
      BY <1>2, <1>00 DEF Start, Truncate, Works, Fails
    <2>3. UNCHANGED <<prev, prevBroken, printed, sizeOf, readVars>>
      BY <1>2 DEF Start
    <2> QED
      BY <2>1, <2>2, <2>3 DEF readVars
  <1>3. CASE DeleteOldGeneration \/ RotateDelete
    BY <1>3 DEF DeleteOldGeneration, RotateDelete, Goto, readVars
  <1>4. CASE SimulatorDies
    BY <1>4 DEF SimulatorDies, fileVars, readVars
  <1>5. CASE Log
    <2>1. PICK size \in Sizes : sizeOf' = [sizeOf EXCEPT ![printed'] = size]
      BY <1>5 DEF Log
    <2>2. sizeOf' \in [Entries -> Nat]
      BY <2>1
    <2>3. /\ printed' \in Entries /\ printed' \in 0..MaxEntries /\ before' \in 0..printed'
          /\ pc' \in {"delete", "open"}
      BY <1>5 DEF Log, Entries, Goto
    <2> QED
      BY <1>5, <2>2, <2>3 DEF Log, fileVars, readVars
  <1>6. CASE RotateRename
    <2>1. /\ prev' \in {prev, cur} /\ cur' \in {cur, Absent} /\ gameLogBytes' \in {gameLogBytes, 0}
          /\ failures' \subseteq MayFail
          /\ pc = "rename" /\ pc' \in {"open", "truncate"}
          /\ torn' \in {torn, 0} /\ broken' \in {broken, FALSE}
          /\ prevBroken' \in {prevBroken} \cup Stops
          /\ UNCHANGED <<printed, sizeOf, before, runs, readVars>>
      BY <1>6 DEF RotateRename, Goto, Works, Fails, fileVars
    <2>2. gameLogBytes' \in Nat /\ torn' \in 0..MaxEntries
      BY <2>1
    <2>3. prevBroken' \in BOOLEAN
      BY <2>1 DEF Stops
    <2> QED
      BY <2>1, <2>2, <2>3 DEF readVars
  <1>7. CASE RotateTruncate
    <2>1. /\ cur' \in {cur, {}} /\ torn' \in {torn, 0} /\ broken' \in BOOLEAN
          /\ failures' \subseteq MayFail /\ pc' = "open" /\ gameLogBytes' = 0
          /\ pc = "truncate"
          /\ UNCHANGED <<prev, prevBroken, printed, sizeOf, before, runs, readVars>>
      BY <1>7 DEF RotateTruncate, Goto, Truncate, Works, Fails
    <2>2. torn' \in 0..MaxEntries /\ gameLogBytes' \in Nat
      BY <2>1, <1>00
    <2> QED
      BY <2>1, <2>2, <1>00 DEF readVars
  <1>8. CASE Append
    BY <1>8, <1>0 DEF Append, Goto, Works, Fails, readVars
  <1>9. CASE Written
    <2>1. /\ cur \in SUBSET Entries /\ printed \in Entries /\ sizeOf[printed] \in Nat
          /\ cur' = cur \cup {printed} /\ gameLogBytes' = gameLogBytes + sizeOf[printed]
      BY <1>9 DEF Written, Goto
    <2>2. cur' \in SUBSET Entries /\ gameLogBytes' \in Nat
      BY <2>1
    <2> QED
      BY <1>9, <2>2 DEF Written, Goto, readVars
  <1>10. CASE ReadOlder \/ ReadNewer
    <2>1. /\ older' \in SUBSET Entries /\ newer' \in SUBSET Entries /\ rpc' \in {"idle", "newer"}
          /\ UNCHANGED <<fileVars, gameVars>>
      BY <1>10, <1>0 DEF ReadOlder, ReadNewer, Generation
    <2>2. failed' \in BOOLEAN
      BY <1>10 DEF ReadOlder, ReadNewer, Stops, TooLong
    <2> QED
      BY <2>1, <2>2 DEF fileVars, gameVars
  <1> QED
    BY <1>1, <1>2, <1>3, <1>4, <1>5, <1>6, <1>7, <1>8, <1>9, <1>10 DEF Next

(* The files, the counters and what a reader holds keep their types.       *)
THEOREM TypeCorrect == Spec => []TypeOK
  <1>1. TypeInv => TypeOK
    BY DEF TypeInv
  <1> QED
    BY <1>1, TypeInit, TypeStep, PTL DEF Spec

-----------------------------------------------------------------------------
(* The generations are in order, and so are what a reader has of the older *)
(* one and what it is still to read.  An entry that is being logged is in  *)
(* neither, and later than all.                                            *)
Ordered ==
    /\ \A m \in Content(prev), n \in Content(cur) : m < n
    /\ rpc = "newer" => \A m \in older, n \in Content(cur) : m < n
    /\ \A n \in Content(prev) \cup Content(cur) \cup older \cup newer : n <= printed
    /\ pc \in {"delete", "rename", "truncate", "open", "write"} =>
           \A n \in Content(prev) \cup Content(cur) \cup older \cup newer : n < printed

OrderInv == TypeInv /\ Ordered /\ InOrder

LEMMA OrderInit == Init => OrderInv
  BY TypeInit DEF Init, OrderInv, Ordered, InOrder, Content

(* Files that lose entries, or pass from cur to prev, stay in order.       *)
LEMMA OrderFewer ==
  ASSUME OrderInv,
         UNCHANGED <<printed, readVars>>,
         pc' \in {"delete", "rename", "truncate", "open", "write"} =>
             pc \in {"delete", "rename", "truncate", "open", "write"},
         Content(cur)' \in {Content(cur), {}},
         \/ Content(prev)' \in {Content(prev), {}}
         \/ Content(prev)' = Content(cur) /\ Content(cur)' = {}
  PROVE  Ordered' /\ InOrder'
  BY DEF OrderInv, Ordered, InOrder, readVars

LEMMA OrderStep == OrderInv /\ [Next]_vars => OrderInv'
  <1> SUFFICES ASSUME OrderInv, [Next]_vars PROVE Ordered' /\ InOrder'
    BY TypeStep DEF OrderInv
  <1>0. /\ Content(Absent) = {} /\ Content({}) = {}
        /\ printed \in Nat /\ \A n \in Entries : n \in Nat
        /\ Content(cur) \in SUBSET Entries /\ Content(prev) \in SUBSET Entries
        /\ Content(cur) # Absent /\ Content(Content(cur)) = Content(cur)
        /\ older \subseteq Entries /\ newer \subseteq Entries
    BY Contents, ConstantsAssumption DEF OrderInv, TypeInv, TypeOK, Content, Entries
  <1>1. CASE UNCHANGED vars
    BY <1>1, OrderFewer DEF vars, fileVars, gameVars, Content
  <1>2. CASE Start
    BY <1>0, <1>2, OrderFewer DEF Start, Goto, Truncate, Content
  <1>3. CASE DeleteOldGeneration \/ RotateDelete
    BY <1>0, <1>3, OrderFewer DEF DeleteOldGeneration, RotateDelete, Goto, Content
  <1>4. CASE SimulatorDies
    BY <1>4, OrderFewer DEF SimulatorDies, fileVars, Content
  <1>5. CASE Log
    <2>1. printed' = printed + 1 /\ UNCHANGED <<fileVars, readVars>>
      BY <1>5 DEF Log
    <2>2. \A n \in Content(prev) \cup Content(cur) \cup older \cup newer : n < printed'
      BY <1>0, <2>1 DEF OrderInv, Ordered
    <2> QED
      BY <1>0, <2>1, <2>2 DEF OrderInv, Ordered, InOrder, fileVars, readVars, Content
  <1>6. CASE RotateRename
    BY <1>0, <1>6, OrderFewer DEF RotateRename, Goto, Content, fileVars
  <1>7. CASE RotateTruncate
    BY <1>0, <1>7, OrderFewer DEF RotateTruncate, Goto, Truncate, Content
  <1>8. CASE Append
    BY <1>0, <1>8, OrderFewer DEF Append, Goto
  <1>9. CASE Written
    <2>1. /\ pc = "write" /\ pc' = "run" /\ cur # Absent /\ Content(cur) = cur
          /\ cur' = cur \cup {printed}
          /\ UNCHANGED <<prev, printed, readVars>>
      BY <1>9 DEF Written, Goto, OrderInv, TypeInv, AtWork, Content
    <2>2. printed \in Entries
      BY <2>1 DEF OrderInv, TypeInv, AtWork
    <2>3. cur' # Absent
      BY <2>1, <2>2, ConstantsAssumption DEF Absent, Entries
    <2>4. Content(cur)' = Content(cur) \cup {printed} /\ Content(prev)' = Content(prev)
      BY <2>1, <2>3 DEF Content
    <2> QED
      BY <1>0, <2>1, <2>4 DEF OrderInv, Ordered, InOrder, readVars
  <1>10. CASE ReadOlder
    BY <1>0, <1>10 DEF ReadOlder, Generation, OrderInv, Ordered, InOrder, fileVars, gameVars, Content
  <1>11. CASE ReadNewer
    BY <1>0, <1>11 DEF ReadNewer, Generation, OrderInv, Ordered, InOrder, fileVars, gameVars, Content
  <1> QED
    BY <1>1, <1>2, <1>3, <1>4, <1>5, <1>6, <1>7, <1>8, <1>9, <1>10, <1>11 DEF Next

(* What get_game_logs returns is in the order the game printed it, however *)
(* the files move between its two reads and whatever fails or dies.        *)
THEOREM InOrderCorrect == Spec => []InOrder
  <1>1. OrderInv => InOrder
    BY DEF OrderInv
  <1> QED
    BY <1>1, OrderInit, OrderStep, PTL DEF Spec

-----------------------------------------------------------------------------
(* As long as the file can be opened, only its last line is ever cut, and  *)
(* only until the next run opens it.  What else stops a reader is a line   *)
(* that is too long.                                                       *)
OnlyLastCut ==
    "open" \notin failures /\ ~TooLong(1..printed) =>
        /\ torn # 0 => pc \in {"write", "down"}
        /\ ~broken /\ ~prevBroken /\ ~failed

CutInv == OrderInv /\ torn <= printed /\ OnlyLastCut

LEMMA CutStep == CutInv /\ [Next]_vars => CutInv'
  <1> SUFFICES ASSUME CutInv, [Next]_vars
               PROVE  torn' <= printed' /\ OnlyLastCut'
    BY OrderStep DEF CutInv
  <1>0. /\ printed \in Nat /\ torn \in Nat /\ torn <= printed
        /\ broken \in BOOLEAN /\ prevBroken \in BOOLEAN /\ failed \in BOOLEAN
        /\ Content(prev) \subseteq 1..printed /\ Content(cur) \subseteq 1..printed
    BY Contents, ConstantsAssumption
       DEF CutInv, OrderInv, TypeInv, TypeOK, Ordered, Entries
  (* Nothing that is there to be read is too long unless an entry is.      *)
  <1>long. ~TooLong(1..printed) =>
             /\ ~TooLong(Content(prev)) /\ ~TooLong(Content(cur))
             /\ Stops = {broken}
    <2>1. torn # 0 => torn \in 1..printed
      BY <1>0
    <2> QED
      BY <1>0, <2>1 DEF TooLong, Stops
  <1>same. UNCHANGED <<printed, sizeOf>> => TooLong(1..printed)' = TooLong(1..printed)
    BY DEF TooLong
  <1>1. CASE UNCHANGED vars
    BY <1>0, <1>1, <1>same DEF vars, fileVars, gameVars, readVars, CutInv, OnlyLastCut
  <1>2. CASE Start \/ DeleteOldGeneration \/ SimulatorDies
    BY <1>0, <1>2, <1>same DEF Start, DeleteOldGeneration, SimulatorDies, Truncate, fileVars,
       readVars, CutInv, OnlyLastCut, Goto, Works, Fails
  <1>3. CASE Log
    <2>1. /\ printed' = printed + 1 /\ pc = "run"
          /\ UNCHANGED <<fileVars, failures, readVars>>
      BY <1>3 DEF Log, Goto
    <2>2. \A n \in 1..printed : sizeOf'[n] = sizeOf[n]
      BY <1>0, <1>3, ConstantsAssumption
         DEF Log, CutInv, OrderInv, TypeInv, TypeOK, Entries
    <2>3. TooLong(1..printed) => TooLong(1..printed)'
      BY <1>0, <2>1, <2>2 DEF TooLong
    <2> QED
      BY <1>0, <2>1, <2>3 DEF CutInv, OnlyLastCut, fileVars, readVars
  <1>4. CASE RotateDelete \/ RotateTruncate
    BY <1>0, <1>4, <1>same DEF RotateDelete, RotateTruncate, Truncate, readVars, CutInv,
       OnlyLastCut, Goto, Works, Fails
  <1>5. CASE RotateRename
    BY <1>0, <1>5, <1>long, <1>same DEF RotateRename, fileVars, readVars, CutInv, OnlyLastCut,
       Goto, Works, Fails
  <1>6. CASE Append \/ Written
    BY <1>0, <1>6, <1>same DEF Append, Written, readVars, CutInv, OnlyLastCut, Goto, Works, Fails
  <1>7. CASE ReadOlder \/ ReadNewer
    BY <1>0, <1>7, <1>long, <1>same DEF ReadOlder, ReadNewer, fileVars, gameVars, CutInv,
       OnlyLastCut
  <1> QED
    BY <1>1, <1>2, <1>3, <1>4, <1>5, <1>6, <1>7 DEF Next

(* A Simulator killed in the middle of a line never makes the log          *)
(* unreadable, over any number of runs and rotations, and of renames that  *)
(* fail, as long as the file itself can be opened and no line is longer    *)
(* than a reader takes.                                                    *)
THEOREM ReadsNeverFailCorrect == Spec => []ReadsNeverFail
  <1>1. Init => CutInv
    BY OrderInit, ConstantsAssumption DEF Init, CutInv, OnlyLastCut
  <1>2. CutInv => ReadsNeverFail
    BY DEF CutInv, OnlyLastCut, ReadsNeverFail
  <1> QED
    BY <1>1, <1>2, CutStep, PTL DEF Spec

-----------------------------------------------------------------------------
(* Induction over the numbers, for a set of them. *)
LEMMA NatSet ==
  ASSUME NEW T \in SUBSET Nat, 0 \in T, \A n \in T : n + 1 \in T
  PROVE  T = Nat
  <1> SUFFICES ASSUME Nat \ T # {} PROVE FALSE
    OBVIOUS
  <1>1. PICK m \in Nat \ T : \A k \in Nat \ T : ~ (<<k, m>> \in OpToRel(<, Nat))
    BY NatLessThanWellFounded, WFMin
  <1>2. m # 0 /\ m - 1 \in Nat
    OBVIOUS
  <1>3. <<m - 1, m>> \in OpToRel(<, Nat)
    BY <1>2 DEF OpToRel
  <1>4. m - 1 \in T
    BY <1>1, <1>2, <1>3
  <1>5. (m - 1) + 1 \in T
    BY <1>4
  <1> QED
    BY <1>5

(* One step of the sum of f over s, whose other sums g has.               *)
SumStep(f, g, s) ==
    IF s = {} THEN 0 ELSE LET x == CHOOSE x \in s : TRUE IN f[x] + g[s \ {x}]

AreSums(f, S, g) == g = [s \in SUBSET S |-> SumStep(f, g, s)]

Sums(f, S) == CHOOSE g : AreSums(f, S, g)

Sum(f, S) == Sums(f, S)[S]

LEMMA SizeIsSum == ASSUME NEW S PROVE SizeOf(S) = Sum(sizeOf, S)
  BY DEF SizeOf, MapThenSumSet, MapThenFoldSet, Sum, Sums, AreSums, SumStep

LEMMA Smaller ==
  ASSUME NEW S, IsFiniteSet(S), NEW s \in SUBSET S
  PROVE  /\ Cardinality(s) \in Nat
         /\ s = {} <=> Cardinality(s) = 0
         /\ \A x \in s : Cardinality(s \ {x}) = Cardinality(s) - 1
         /\ IsFiniteSet(s)
  <1>1. IsFiniteSet(s)
    BY FS_Subset
  <1> QED
    BY <1>1, FS_CardinalityType, FS_EmptySet, FS_RemoveElement

(* The sums over the subsets of a finite set exist: those over the smaller *)
(* ones are there when a larger one is formed.                             *)
LEMMA SumsExist ==
  ASSUME NEW S, IsFiniteSet(S), NEW f, \A x \in S : f[x] \in Nat
  PROVE  \E g : AreSums(f, S, g)
  <1> DEFINE T == {k \in Nat : \E g \in [SUBSET S -> Nat] : \A s \in SUBSET S :
                     Cardinality(s) <= k => g[s] = SumStep(f, g, s)}
  <1>1. 0 \in T
    <2> DEFINE g == [s \in SUBSET S |-> 0]
    <2>1. g \in [SUBSET S -> Nat]
      OBVIOUS
    <2>2. ASSUME NEW s \in SUBSET S, Cardinality(s) <= 0 PROVE g[s] = SumStep(f, g, s)
      <3>1. s = {}
        BY <2>2, Smaller
      <3> QED
        BY <3>1 DEF SumStep
    <2> QED
      BY <2>1, <2>2
  <1>2. ASSUME NEW k \in T PROVE k + 1 \in T
    <2>1. PICK g \in [SUBSET S -> Nat] : \A s \in SUBSET S :
                     Cardinality(s) <= k => g[s] = SumStep(f, g, s)
      OBVIOUS
    <2> DEFINE h == [s \in SUBSET S |-> IF Cardinality(s) <= k THEN g[s] ELSE SumStep(f, g, s)]
    <2>2. ASSUME NEW s \in SUBSET S PROVE SumStep(f, g, s) \in Nat
      BY DEF SumStep
    <2>3. h \in [SUBSET S -> Nat]
      BY <2>2
    <2>4. ASSUME NEW s \in SUBSET S, Cardinality(s) <= k + 1 PROVE h[s] = SumStep(f, h, s)
      <3>1. h[s] = SumStep(f, g, s)
        BY <2>1
      <3>2. CASE s = {}
        BY <3>1, <3>2 DEF SumStep
      <3>3. CASE s # {}
        <4> DEFINE x == CHOOSE x \in s : TRUE
        <4>1. x \in s
          BY <3>3
        <4> HIDE DEF x
        <4>2. Cardinality(s \ {x}) <= k /\ s \ {x} \in SUBSET S
          BY <2>4, <4>1, Smaller
        <4>3. h[s \ {x}] = g[s \ {x}]
          BY <4>2
        <4> QED
          BY <3>1, <4>3 DEF SumStep, x
      <3> QED
        BY <3>2, <3>3
    <2>5. \A s \in SUBSET S : Cardinality(s) <= k + 1 => h[s] = SumStep(f, h, s)
      BY <2>4
    <2> HIDE DEF h
    <2>6. \E g1 \in [SUBSET S -> Nat] : \A s \in SUBSET S :
              Cardinality(s) <= k + 1 => g1[s] = SumStep(f, g1, s)
      BY <2>3, <2>5
    <2>7. k + 1 \in Nat
      OBVIOUS
    <2> QED
      BY <2>6, <2>7
  <1>3. Cardinality(S) \in T
    <2>1. T = Nat
      <3> HIDE DEF T
      <3>1. T \subseteq Nat
        BY DEF T
      <3> QED
        BY <1>1, <1>2, <3>1, NatSet
    <2> QED
      BY <2>1, FS_CardinalityType
  <1>4. PICK g \in [SUBSET S -> Nat] : \A s \in SUBSET S :
                     Cardinality(s) <= Cardinality(S) => g[s] = SumStep(f, g, s)
    BY <1>3
  <1>5. \A s \in SUBSET S : Cardinality(s) <= Cardinality(S)
    BY FS_Subset
  <1>6. AreSums(f, S, g)
    BY <1>4, <1>5 DEF AreSums
  <1> QED
    BY <1>6

LEMMA SumsStep ==
  ASSUME NEW S, IsFiniteSet(S), NEW f, \A x \in S : f[x] \in Nat, NEW s \in SUBSET S
  PROVE  Sums(f, S)[s] = SumStep(f, Sums(f, S), s)
  <1>1. AreSums(f, S, Sums(f, S))
    BY SumsExist DEF Sums
  <1> DEFINE sums == Sums(f, S)
  <1>2. AreSums(f, S, sums)
    BY <1>1
  <1> HIDE DEF sums
  <1>3. sums[s] = SumStep(f, sums, s)
    BY <1>2 DEF AreSums
  <1> QED
    BY <1>3 DEF sums

(* What holds of the subsets of S of every size holds of all of them.      *)
LEMMA BySize ==
  ASSUME NEW S, IsFiniteSet(S), NEW Q \in SUBSET SUBSET S, {} \in Q,
         \A s \in SUBSET S : \A x \in s :
            (\A t \in SUBSET S : Cardinality(t) < Cardinality(s) => t \in Q) => s \in Q
  PROVE  Q = SUBSET S
  <1> DEFINE T == {k \in Nat : \A s \in SUBSET S : Cardinality(s) <= k => s \in Q}
  <1>1. 0 \in T
    <2>1. \A s \in SUBSET S : Cardinality(s) <= 0 => s = {}
      BY Smaller
    <2> QED
      BY <2>1
  <1>2. ASSUME NEW k \in T PROVE k + 1 \in T
    <2>1. ASSUME NEW s \in SUBSET S, Cardinality(s) <= k + 1 PROVE s \in Q
      <3>1. CASE s = {}
        BY <3>1
      <3>2. ASSUME NEW x \in s PROVE s \in Q
        <4>1. ASSUME NEW t \in SUBSET S, Cardinality(t) < Cardinality(s) PROVE t \in Q
          <5>1. Cardinality(t) \in Nat /\ Cardinality(s) \in Nat
            BY Smaller
          <5>2. Cardinality(t) <= k
            BY <2>1, <4>1, <5>1
          <5> QED
            BY <5>2
        <4> QED
          BY <4>1
      <3> QED
        BY <3>1, <3>2
    <2> QED
      BY <2>1
  <1>3. T = Nat
    <2> HIDE DEF T
    <2>1. T \subseteq Nat
      BY DEF T
    <2> QED
      BY <1>1, <1>2, <2>1, NatSet
  <1>4. ASSUME NEW s \in SUBSET S PROVE s \in Q
    <2>1. Cardinality(s) \in T
      BY <1>3, Smaller
    <2> QED
      BY <2>1, Smaller
  <1> QED
    BY <1>4

LEMMA SumsNat ==
  ASSUME NEW S, IsFiniteSet(S), NEW f, \A x \in S : f[x] \in Nat, NEW s \in SUBSET S
  PROVE  Sums(f, S)[s] \in Nat
  <1> DEFINE Q == {t \in SUBSET S : Sums(f, S)[t] \in Nat}
  <1>1. {} \in Q
    <2>1. Sums(f, S)[{}] = SumStep(f, Sums(f, S), {})
      BY SumsStep
    <2> QED
      BY <2>1 DEF SumStep
  <1>2. ASSUME NEW t \in SUBSET S, NEW y \in t,
               \A u \in SUBSET S : Cardinality(u) < Cardinality(t) => u \in Q
        PROVE  t \in Q
    <2> DEFINE x == CHOOSE x \in t : TRUE
    <2>1. x \in t
      OBVIOUS
    <2>2. Sums(f, S)[t] = f[x] + Sums(f, S)[t \ {x}]
      BY SumsStep DEF SumStep
    <2> HIDE DEF x
    <2>3. Cardinality(t \ {x}) < Cardinality(t)
      BY <2>1, Smaller
    <2>4. Sums(f, S)[t \ {x}] \in Nat
      BY <1>2, <2>3
    <2> QED
      BY <2>1, <2>2, <2>4
  <1>3. Q = SUBSET S
    <2> HIDE DEF Q
    <2>1. Q \in SUBSET SUBSET S
      BY DEF Q
    <2> QED
      BY <1>1, <1>2, <2>1, BySize
  <1> QED
    BY <1>3

(* The order in which the elements are taken does not matter.              *)
LEMMA SumsAny ==
  ASSUME NEW S, IsFiniteSet(S), NEW f, \A x \in S : f[x] \in Nat,
         NEW s \in SUBSET S, NEW z \in s
  PROVE  Sums(f, S)[s] = f[z] + Sums(f, S)[s \ {z}]
  <1> DEFINE sums == Sums(f, S)
             Q == {t \in SUBSET S : \A y \in t : sums[t] = f[y] + sums[t \ {y}]}
  <1>1. {} \in Q
    OBVIOUS
  <1>0. \A t \in SUBSET S : sums[t] \in Nat
    BY SumsNat
  <1>2. ASSUME NEW t \in SUBSET S, NEW w \in t,
               \A u \in SUBSET S : Cardinality(u) < Cardinality(t) => u \in Q
        PROVE  t \in Q
    <2> DEFINE x == CHOOSE x \in t : TRUE
    <2>1. x \in t
      OBVIOUS
    <2>2. sums[t] = f[x] + sums[t \ {x}]
      BY SumsStep DEF SumStep
    <2> HIDE DEF x
    <2>3. ASSUME NEW y \in t, y # x PROVE sums[t] = f[y] + sums[t \ {y}]
      <3>1. Cardinality(t \ {x}) < Cardinality(t) /\ Cardinality(t \ {y}) < Cardinality(t)
        BY <2>1, Smaller
      <3>2. t \ {x} \in Q /\ t \ {y} \in Q
        BY <1>2, <3>1
      <3>3. /\ sums[t \ {x}] = f[y] + sums[(t \ {x}) \ {y}]
            /\ sums[t \ {y}] = f[x] + sums[(t \ {y}) \ {x}]
        BY <2>1, <2>3, <3>2
      <3>4. (t \ {x}) \ {y} = (t \ {y}) \ {x}
        OBVIOUS
      <3>5. /\ f[x] \in Nat /\ f[y] \in Nat /\ sums[(t \ {y}) \ {x}] \in Nat
            /\ sums[t \ {x}] \in Nat /\ sums[t \ {y}] \in Nat
        BY <1>0, <2>1
      <3> HIDE DEF sums
      <3> QED
        BY <2>2, <3>3, <3>4, <3>5
    <2> QED
      BY <2>2, <2>3
  <1>3. Q = SUBSET S
    <2> HIDE DEF Q
    <2>1. Q \in SUBSET SUBSET S
      BY DEF Q
    <2> QED
      BY <1>1, <1>2, <2>1, BySize
  <1> QED
    BY <1>3

(* A sum depends on nothing but what is summed.                            *)
LEMMA SumsSame ==
  ASSUME NEW S, IsFiniteSet(S), NEW R \in SUBSET S, NEW f, NEW h,
         \A x \in S : f[x] \in Nat, \A x \in R : h[x] = f[x]
  PROVE  Sums(h, R)[R] = Sums(f, S)[R]
  <1> DEFINE Q == {t \in SUBSET R : Sums(h, R)[t] = Sums(f, S)[t]}
  <1>0. IsFiniteSet(R) /\ (\A x \in R : h[x] \in Nat)
    BY FS_Subset
  <1>1. {} \in Q
    BY <1>0, SumsStep DEF SumStep
  <1>2. ASSUME NEW t \in SUBSET R, NEW y \in t,
               \A u \in SUBSET R : Cardinality(u) < Cardinality(t) => u \in Q
        PROVE  t \in Q
    <2> DEFINE x == CHOOSE x \in t : TRUE
    <2>1. x \in t
      OBVIOUS
    <2>2. /\ Sums(h, R)[t] = h[x] + Sums(h, R)[t \ {x}]
          /\ Sums(f, S)[t] = f[x] + Sums(f, S)[t \ {x}]
      BY <1>0, SumsStep DEF SumStep
    <2> HIDE DEF x
    <2>3. Cardinality(t \ {x}) < Cardinality(t)
      BY <1>0, <2>1, Smaller
    <2>4. Sums(h, R)[t \ {x}] = Sums(f, S)[t \ {x}]
      BY <1>2, <2>3
    <2> QED
      BY <2>1, <2>2, <2>4
  <1>3. Q = SUBSET R
    <2> HIDE DEF Q
    <2>1. Q \in SUBSET SUBSET R
      BY DEF Q
    <2> QED
      BY <1>0, <1>1, <1>2, <2>1, BySize
  <1> QED
    BY <1>3

LEMMA EntriesFinite == IsFiniteSet(Entries)
  BY ConstantsAssumption, FS_Interval DEF Entries

LEMMA SumSame ==
  ASSUME NEW f \in [Entries -> Nat], NEW h, NEW S \in SUBSET Entries,
         \A x \in S : h[x] = f[x]
  PROVE  Sum(h, S) = Sum(f, S)
  <1>1. \A g : (\A x \in S : g[x] = f[x]) => Sum(g, S) = Sums(f, Entries)[S]
    BY EntriesFinite, SumsSame DEF Sum
  <1> QED
    BY <1>1

LEMMA SumFacts ==
  ASSUME NEW f \in [Entries -> Nat]
  PROVE  /\ Sum(f, {}) = 0
         /\ \A S \in SUBSET Entries : Sum(f, S) \in Nat
         /\ \A S \in SUBSET Entries : \A x \in S : Sum(f, S) = f[x] + Sum(f, S \ {x})
  <1> DEFINE sums == Sums(f, Entries)
  <1>1. ASSUME NEW S \in SUBSET Entries PROVE Sum(f, S) = sums[S]
    BY EntriesFinite, SumsSame DEF Sum
  <1>2. sums[{}] = 0
    <2>1. sums[{}] = SumStep(f, sums, {})
      BY EntriesFinite, SumsStep
    <2> QED
      BY <2>1 DEF SumStep
  <1>3. \A S \in SUBSET Entries : sums[S] \in Nat
    BY EntriesFinite, SumsNat
  <1>4. ASSUME NEW S \in SUBSET Entries, NEW x \in S PROVE sums[S] = f[x] + sums[S \ {x}]
    <2>1. \A y \in Entries : f[y] \in Nat
      OBVIOUS
    <2> QED
      BY ONLY <2>1, EntriesFinite, SumsAny, <1>4
  <1> HIDE DEF sums
  <1> QED
    BY <1>1, <1>2, <1>3, <1>4

LEMMA SumMore ==
  ASSUME NEW f \in [Entries -> Nat], NEW S \in SUBSET Entries, NEW R \in SUBSET S
  PROVE  Sum(f, R) <= Sum(f, S)
  <1> DEFINE Q == {t \in SUBSET Entries : \A r \in SUBSET t : Sum(f, r) <= Sum(f, t)}
  <1>1. {} \in Q
    BY SumFacts
  <1>2. ASSUME NEW t \in SUBSET Entries, NEW y \in t,
               \A u \in SUBSET Entries : Cardinality(u) < Cardinality(t) => u \in Q
        PROVE  t \in Q
    <2>1. ASSUME NEW r \in SUBSET t PROVE Sum(f, r) <= Sum(f, t)
      <3>1. CASE r = t
        BY <3>1, SumFacts
      <3>2. ASSUME NEW x \in t \ r PROVE Sum(f, r) <= Sum(f, t)
        <4>1. Cardinality(t \ {x}) < Cardinality(t)
          BY EntriesFinite, Smaller
        <4>2. t \ {x} \in Q
          BY <1>2, <4>1
        <4>3. Sum(f, r) <= Sum(f, t \ {x})
          BY <4>2
        <4>4. Sum(f, t) = f[x] + Sum(f, t \ {x})
          BY SumFacts
        <4>5. Sum(f, r) \in Nat /\ Sum(f, t \ {x}) \in Nat /\ f[x] \in Nat
          BY SumFacts
        <4> QED
          BY <4>3, <4>4, <4>5
      <3> QED
        BY <3>1, <3>2
    <2> QED
      BY <2>1
  <1>3. Q = SUBSET Entries
    <2> HIDE DEF Q
    <2>1. Q \in SUBSET SUBSET Entries
      BY DEF Q
    <2> QED
      BY EntriesFinite, <1>1, <1>2, <2>1, BySize
  <1> QED
    BY <1>3

-----------------------------------------------------------------------------
(* gameLogBytes is what the file being written holds, whatever was moved   *)
(* or truncated before, and an entry is appended where it fits, or to an   *)
(* empty file.                                                             *)
Total(S) == Sum(sizeOf, S)

Measured ==
    "open" \notin failures =>
        /\ pc # "down" => gameLogBytes = Total(Content(cur))
        /\ pc \in {"open", "write"} =>
               gameLogBytes + sizeOf[printed] <= Cap \/ Content(cur) = {}
        /\ \A f \in {Content(prev), Content(cur)} : Total(f) > Cap => Cardinality(f) = 1

(* What is logged of this run: all but an entry under way.                 *)
Logging == pc \in {"delete", "rename", "truncate", "open", "write"}
Logged == IF Logging THEN printed - 1 ELSE printed

(* The files hold the entries from the b-th on, and cur those from the     *)
(* a-th, which made the one before it full.                                *)
Filled(a, b) ==
    /\ Content(prev) = b..(a - 1)
    /\ b > before + 1 => a <= printed /\ Total(b..a) > Cap

Recent ==
    failures = {} /\ pc # "down" =>
        /\ pc = "reset" => before = printed
        /\ pc \in {"delete", "rename"} => gameLogBytes + sizeOf[printed] > Cap
        /\ pc \in {"rename", "truncate"} => Content(prev) = {}
        /\ pc = "truncate" => Content(cur) = {} /\ sizeOf[printed] > Cap
        /\ \E a \in (before + 1)..(Logged + 1) :
              /\ Content(cur) = a..Logged
              /\ pc \notin {"reset", "rename", "truncate"} =>
                     \E b \in (before + 1)..a : Filled(a, b)

RoomInv == OrderInv /\ Measured

LEMMA RoomInit == Init => RoomInv
  <1> SUFFICES ASSUME Init PROVE Measured
    BY OrderInit DEF RoomInv
  <1>1. sizeOf \in [Entries -> Nat]
    BY DEF Init
  <1>2. Total({}) = 0
    BY <1>1, SumFacts DEF Total
  <1> QED
    BY <1>2, ConstantsAssumption DEF Init, Measured, Content

(* No entry in a file changes its size.                                    *)
LEMMA SameTotal ==
  ASSUME TypeOK, NEW S \in SUBSET Entries, \A n \in S : sizeOf'[n] = sizeOf[n]
  PROVE  Sum(sizeOf', S) = Sum(sizeOf, S)
  BY SumSame DEF TypeOK

(* A file that is moved, emptied or left alone stays measured.             *)
LEMMA MeasuredFewer ==
  ASSUME RoomInv, "open" \notin failures, UNCHANGED <<sizeOf, printed>>,
         Content(prev)' \in {Content(prev), Content(cur), {}},
         \/ /\ Content(cur)' = Content(cur) /\ gameLogBytes' = gameLogBytes
            /\ pc' = "down" \/ pc # "down"
            /\ pc' \in {"open", "write"} => pc \in {"open", "write"}
         \/ Content(cur)' = {} /\ gameLogBytes' = 0
  PROVE  Measured'
  <1>1. \A S : Total(S)' = Total(S)
    BY DEF Total
  <1>2. Total({}) = 0
    BY SumFacts DEF Total, RoomInv, OrderInv, TypeInv, TypeOK
  <1>3. Total(Content(prev))' = Total(Content(prev)') /\ Total(Content(cur))' = Total(Content(cur)')
    BY DEF Total
  <1> QED
    BY <1>2, <1>3, ConstantsAssumption DEF RoomInv, Measured

LEMMA RoomStep == RoomInv /\ [Next]_vars => RoomInv'
  <1> SUFFICES ASSUME RoomInv, [Next]_vars, "open" \notin failures'
               PROVE  Measured'
    BY OrderStep DEF RoomInv, Measured
  <1>0. /\ TypeOK /\ TypeOK' /\ OrderInv /\ OrderInv'
    BY OrderStep DEF RoomInv, OrderInv, TypeInv
  <1>1. /\ Content(Absent) = {} /\ Content({}) = {}
        /\ Content(cur) \in SUBSET Entries /\ Content(prev) \in SUBSET Entries
        /\ Content(cur) # Absent /\ Content(Content(cur)) = Content(cur)
        /\ printed \in Nat /\ Cap \in Nat /\ gameLogBytes \in Nat
    BY <1>0, Contents, ConstantsAssumption DEF TypeOK, Content
  <1>2. CASE UNCHANGED vars
    BY <1>2, MeasuredFewer DEF vars, fileVars, gameVars, Content
  <1>3. CASE Start
    BY <1>1, <1>3, MeasuredFewer DEF Start, Goto, Truncate, Works, Fails, Content
  <1>4. CASE DeleteOldGeneration \/ RotateDelete
    BY <1>1, <1>4, MeasuredFewer DEF DeleteOldGeneration, RotateDelete, Goto, Content
  <1>5. CASE SimulatorDies
    BY <1>5, MeasuredFewer DEF SimulatorDies, fileVars, Content
  <1>6. CASE Log
    <2>1. PICK size \in Sizes : /\ sizeOf' = [sizeOf EXCEPT ![printed'] = size]
                                /\ pc' = IF Full(size) THEN "delete" ELSE "open"
      BY <1>6 DEF Log, Goto
    <2>2. /\ pc = "run" /\ printed' = printed + 1
          /\ printed' \in Entries /\ UNCHANGED <<fileVars, gameLogBytes, failures>>
      BY <1>6, <1>1, ConstantsAssumption DEF Log, Goto, Entries
    <2>3. \A n \in Content(cur) \cup Content(prev) : sizeOf'[n] = sizeOf[n]
      BY <1>0, <1>1, <2>1, <2>2 DEF OrderInv, Ordered, TypeOK, Entries
    <2>4. /\ Total(Content(cur))' = Total(Content(cur))
          /\ Total(Content(prev))' = Total(Content(prev))
      BY <1>0, <1>1, <2>2, <2>3, SameTotal DEF Total, fileVars, Content
    <2>5. sizeOf'[printed'] = size /\ size \in Nat
      BY <1>0, <2>1, <2>2, ConstantsAssumption DEF TypeOK
    <2>6. Content(cur)' = Content(cur) /\ Content(prev)' = Content(prev)
      BY <2>2 DEF fileVars, Content
    <2>7. pc' = "open" => gameLogBytes' + sizeOf'[printed'] <= Cap
      BY <1>1, <2>1, <2>2, <2>5 DEF Full
    <2> QED
      BY <2>1, <2>2, <2>4, <2>6, <2>7 DEF RoomInv, Measured
  <1>7. CASE RotateRename
    BY <1>1, <1>7, MeasuredFewer DEF RotateRename, Goto, Works, Fails, Content, fileVars
  <1>8. CASE RotateTruncate
    BY <1>1, <1>8, MeasuredFewer DEF RotateTruncate, Goto, Truncate, Works, Fails, Content
  <1>9. CASE Append
    BY <1>1, <1>9, MeasuredFewer DEF Append, Goto, Works, Fails, Content
  <1>10. CASE Written
    <2>1. /\ pc = "write" /\ pc' = "run" /\ cur # Absent /\ Content(cur) = cur
          /\ cur' = cur \cup {printed}
          /\ gameLogBytes' = gameLogBytes + sizeOf[printed]
          /\ UNCHANGED <<prev, printed, sizeOf, failures>>
      BY <1>0, <1>10 DEF Written, Goto, OrderInv, TypeInv, AtWork, Content
    <2>2. printed \in Entries /\ printed \notin cur
      BY <1>0, <1>1, <2>1 DEF OrderInv, Ordered, TypeInv, AtWork
    <2>3. cur' # Absent /\ cur' \ {printed} = cur
      BY <2>1, <2>2, ConstantsAssumption DEF Absent, Entries
    <2>4. Content(cur)' = cur' /\ Content(prev)' = Content(prev)
      BY <2>1, <2>3 DEF Content
    <2>5. Sum(sizeOf, cur') = sizeOf[printed] + Sum(sizeOf, cur)
      <3>1. cur' \in SUBSET Entries /\ printed \in cur'
        BY <1>1, <2>1, <2>2
      <3>2. sizeOf \in [Entries -> Nat]
        BY <1>0 DEF TypeOK
      <3>3. Sum(sizeOf, cur') = sizeOf[printed] + Sum(sizeOf, cur' \ {printed})
        BY <3>1, <3>2, SumFacts
      <3> QED
        BY <2>3, <3>3
    <2>6. Total(Content(cur))' = gameLogBytes'
      <3>1. gameLogBytes = Sum(sizeOf, cur) /\ "open" \notin failures
        BY <2>1 DEF RoomInv, Measured, Total
      <3>2. sizeOf[printed] \in Nat
        BY <1>0, <2>2 DEF TypeOK
      <3>3. Total(Content(cur))' = Sum(sizeOf, cur')
        BY <2>1, <2>4 DEF Total
      <3> QED
        BY <1>1, <2>1, <2>5, <3>1, <3>2, <3>3
    <2>7. Total(Content(prev))' = Total(Content(prev))
      BY <2>1, <2>4 DEF Total
    <2>8. Cardinality({printed}) = 1
      BY FS_Singleton
    <2>9. Total(Content(cur))' > Cap => cur = {}
      BY <1>1, <2>1, <2>6 DEF RoomInv, Measured
    <2> QED
      BY <2>1, <2>4, <2>6, <2>7, <2>8, <2>9 DEF RoomInv, Measured
  <1>11. CASE ReadOlder \/ ReadNewer
    BY <1>11, MeasuredFewer DEF ReadOlder, ReadNewer, fileVars, gameVars, Content
  <1> QED
    BY <1>2, <1>3, <1>4, <1>5, <1>6, <1>7, <1>8, <1>9, <1>10, <1>11 DEF Next

(* No file of the log outgrows the cap but by one entry that is larger     *)
(* than it, over any number of rotations, runs and failed renames, as long *)
(* as the file can be opened.                                              *)
THEOREM BoundedCorrect == Spec => []Bounded
  <1>1. RoomInv => Bounded
    BY SizeIsSum DEF RoomInv, Measured, Total, Bounded
  <1> QED
    BY <1>1, RoomInit, RoomStep, PTL DEF Spec

-----------------------------------------------------------------------------

RecentInv == RoomInv /\ Recent

LEMMA RecentInit == Init => RecentInv
  <1>1. Init => Recent
    BY DEF Init, Recent
  <1> QED
    BY <1>1, RoomInit DEF RecentInv

LEMMA RecentStep == RecentInv /\ [Next]_vars => RecentInv'
  <1> SUFFICES ASSUME RecentInv, [Next]_vars, failures' = {}, pc' # "down"
               PROVE  Recent'
    BY RoomStep DEF RecentInv, Recent
  <1>0. /\ TypeOK /\ TypeOK' /\ OrderInv /\ RoomInv /\ RoomInv'
    BY RoomStep, OrderStep DEF RecentInv, RoomInv, OrderInv, TypeInv
  <1>1. /\ Content(Absent) = {} /\ Content({}) = {}
        /\ Content(cur) \in SUBSET Entries /\ Content(prev) \in SUBSET Entries
        /\ Content(cur) # Absent /\ Content(Content(cur)) = Content(cur)
        /\ printed \in Nat /\ before \in 0..printed /\ Cap \in Nat /\ gameLogBytes \in Nat
        /\ \A n \in Entries : sizeOf[n] \in Nat
    BY <1>0, Contents, ConstantsAssumption DEF TypeOK, Content
  <1>2. CASE UNCHANGED vars
    BY <1>2 DEF vars, fileVars, gameVars, RecentInv, Recent, Filled, Total, Logged, Logging, Content
  <1>3. CASE ReadOlder \/ ReadNewer
    BY <1>3 DEF ReadOlder, ReadNewer, fileVars, gameVars, RecentInv, Recent, Filled, Total, Logged,
                Logging, Content
  <1>4. CASE Start
    <2>1. /\ pc' = "reset" /\ before' = printed' /\ printed' = printed /\ Content(cur)' = {}
      BY <1>1, <1>4 DEF Start, Goto, Truncate, Works, Fails, Content
    <2>2. Logged' = printed /\ {} = (printed + 1)..printed
      BY <1>1, <2>1 DEF Logged, Logging
    <2>3. printed + 1 \in (before' + 1)..(Logged' + 1)
      BY <1>1, <2>1, <2>2
    <2> QED
      BY <2>1, <2>2, <2>3 DEF Recent
  <1>5. CASE SimulatorDies
    BY <1>5 DEF SimulatorDies
  <1>6. CASE DeleteOldGeneration \/ Log \/ RotateDelete \/ RotateRename \/ RotateTruncate
             \/ Append \/ Written
    <2>0. pc # "down" /\ failures = {}
      BY <1>6 DEF DeleteOldGeneration, Log, RotateDelete, RotateRename, RotateTruncate, Append,
                  Written, Goto, Truncate, Works, Fails
    <2>1. /\ pc = "reset" => before = printed
          /\ pc \in {"delete", "rename"} => gameLogBytes + sizeOf[printed] > Cap
          /\ pc \in {"rename", "truncate"} => Content(prev) = {}
          /\ pc = "truncate" => Content(cur) = {} /\ sizeOf[printed] > Cap
      BY <2>0 DEF RecentInv, Recent
    <2>2. PICK a \in (before + 1)..(Logged + 1) :
              /\ Content(cur) = a..Logged
              /\ pc \notin {"reset", "rename", "truncate"} =>
                     \E b \in (before + 1)..a : Filled(a, b)
      BY <2>0 DEF RecentInv, Recent
    <2>3. Logged \in Int /\ Logged <= printed
      BY <1>1 DEF Logged
    <2>4. CASE DeleteOldGeneration
      <3>1. /\ pc = "reset" /\ pc' = "run" /\ Content(prev)' = {} /\ Content(cur)' = Content(cur)
            /\ UNCHANGED <<printed, before, sizeOf>>
        BY <1>1, <2>4 DEF DeleteOldGeneration, Goto, Content
      <3>2. before = printed /\ Logged' = printed /\ Logged = printed /\ a = printed + 1
        BY <1>1, <2>1, <2>2, <3>1 DEF Logged, Logging
      <3>3. a..(a - 1) = {}
        BY <3>2, <1>1
      <3>4. Filled(a, a)'
        BY <1>1, <3>1, <3>2, <3>3 DEF Filled
      <3> QED
        BY <1>1, <2>2, <3>1, <3>2, <3>4 DEF Recent
    <2>5. CASE Log
      <3>1. PICK size \in Sizes : /\ sizeOf' = [sizeOf EXCEPT ![printed'] = size]
                                  /\ pc' = IF Full(size) THEN "delete" ELSE "open"
        BY <2>5 DEF Log, Goto
      <3>2. /\ pc = "run" /\ printed' = printed + 1 /\ printed' \in Entries
            /\ Content(prev)' = Content(prev) /\ Content(cur)' = Content(cur)
            /\ before' = before /\ gameLogBytes' = gameLogBytes
        BY <2>5, <1>1, ConstantsAssumption DEF Log, Goto, Entries, fileVars, Content
      <3>3. Logged = printed /\ Logged' = printed
        BY <1>1, <3>1, <3>2 DEF Logged, Logging
      <3>4. PICK b \in (before + 1)..a : Filled(a, b)
        BY <2>2, <3>2
      <3>5. ASSUME b > before + 1 PROVE Total(b..a)' > Cap
        <4>1. Total(b..a) > Cap /\ a <= printed
          BY <3>4, <3>5 DEF Filled
        <4>2. b..a \in SUBSET Entries /\ \A n \in b..a : n # printed'
          <5>1. b \in Nat \ {0} /\ a \in Nat /\ printed <= MaxEntries /\ MaxEntries \in Nat
            BY <1>0, <1>1, <2>3, ConstantsAssumption DEF TypeOK
          <5> QED
            BY <1>1, <3>2, <4>1, <5>1 DEF Entries
        <4>3. \A n \in b..a : sizeOf'[n] = sizeOf[n]
          BY <1>0, <3>1, <4>2 DEF TypeOK
        <4>4. Sum(sizeOf', b..a) = Sum(sizeOf, b..a)
          BY <1>0, <4>2, <4>3, SameTotal
        <4> QED
          BY <4>1, <4>4 DEF Total
      <3>6. Filled(a, b)'
        BY <1>1, <3>2, <3>4, <3>5 DEF Filled
      <3>7. pc' = "delete" => gameLogBytes' + sizeOf'[printed'] > Cap
        <4>1. sizeOf'[printed'] = size
          BY <1>0, <3>1, <3>2 DEF TypeOK
        <4> QED
          BY <3>1, <3>2, <4>1 DEF Full
      <3> QED
        BY <2>2, <3>1, <3>2, <3>3, <3>6, <3>7 DEF Recent
    <2>6. CASE RotateDelete
      <3>1. /\ pc = "delete" /\ pc' = "rename" /\ Content(prev)' = {} /\ Content(cur)' = Content(cur)
            /\ UNCHANGED <<printed, before, sizeOf, gameLogBytes>> /\ Logged' = Logged
        BY <1>1, <2>6 DEF RotateDelete, Goto, Content, Logged, Logging
      <3> QED
        BY <2>1, <2>2, <3>1 DEF Recent
    <2>7. CASE RotateRename
      <3>1. /\ pc = "rename" /\ pc' \in {"open", "truncate"} /\ UNCHANGED <<printed, before, sizeOf>>
        BY <2>7 DEF RotateRename, Goto
      <3>2. /\ printed \in Entries /\ gameLogBytes = Sum(sizeOf, Content(cur))
            /\ Logged' = printed - 1 /\ Logged = printed - 1
        BY <1>0, <2>0, <3>1 DEF OrderInv, TypeInv, AtWork, RoomInv, Measured, Total, Logged, Logging
      <3>3. CASE pc' = "open"
        <4>1. Content(prev)' = Content(cur) /\ Content(cur)' = {}
          BY <1>1, <2>7, <3>3 DEF RotateRename, Goto, Content
        <4>2. a..printed \in SUBSET Entries /\ printed \in a..printed
              /\ (a..printed) \ {printed} = a..(printed - 1)
          BY <1>1, <2>2, <3>2 DEF Entries
        <4>3. Sum(sizeOf, a..printed) = sizeOf[printed] + Sum(sizeOf, a..(printed - 1))
          <5>1. sizeOf \in [Entries -> Nat]
            BY <1>0 DEF TypeOK
          <5>2. Sum(sizeOf, a..printed) = sizeOf[printed] + Sum(sizeOf, (a..printed) \ {printed})
            BY <4>2, <5>1, SumFacts
          <5> QED
            BY <4>2, <5>2
        <4>4. Sum(sizeOf, a..(printed - 1)) = gameLogBytes
          BY <2>2, <3>2
        <4>5. Sum(sizeOf, a..printed) > Cap
          BY <1>1, <2>1, <3>1, <3>2, <4>3, <4>4
        <4>6. Filled(printed, a)'
          BY <1>1, <2>2, <3>1, <3>2, <4>1, <4>5 DEF Filled, Total
        <4>7. a \in (before' + 1)..printed /\ printed \in (before' + 1)..(Logged' + 1)
              /\ printed..Logged' = {}
          BY <1>1, <2>2, <3>1, <3>2
        <4>8. \E b \in (before' + 1)..printed : Filled(printed, b)'
          BY <4>6, <4>7
        <4>9. Content(cur)' = printed..Logged'
          BY <4>1, <4>7
        <4> QED
          BY <3>1, <3>3, <4>7, <4>8, <4>9 DEF Recent
      <3>4. CASE pc' = "truncate"
        <4>1. cur = Absent /\ Content(cur) = {} /\ Content(cur)' = {} /\ Content(prev)' = Content(prev)
          BY <1>1, <2>7, <3>4 DEF RotateRename, Goto, Works, Fails, Content, fileVars
        <4>2. gameLogBytes = 0
          BY <1>0, <3>2, <4>1, SumFacts DEF TypeOK
        <4>3. sizeOf[printed] > Cap
          BY <1>1, <2>1, <3>1, <3>2, <4>2
        <4> QED
          BY <2>1, <2>2, <3>1, <3>2, <3>4, <4>1, <4>3 DEF Recent
      <3> QED
        BY <3>1, <3>3, <3>4
    <2>8. CASE RotateTruncate
      <3>1. /\ pc = "truncate" /\ pc' = "open" /\ UNCHANGED <<prev, printed, before, sizeOf>>
            /\ Content(cur)' = {} /\ Content(prev)' = {}
        BY <1>1, <2>1, <2>8 DEF RotateTruncate, Goto, Truncate, Works, Fails, Content
      <3>2. /\ printed \in Entries /\ Logged' = printed - 1 /\ Logged = printed - 1
        BY <1>0, <3>1 DEF OrderInv, TypeInv, AtWork, Logged, Logging
      <3>3. Sum(sizeOf, printed..printed) > Cap
        <4>1. printed..printed \in SUBSET Entries /\ printed \in printed..printed
              /\ (printed..printed) \ {printed} = {}
          BY <1>1, <3>2
        <4>2. sizeOf \in [Entries -> Nat]
          BY <1>0 DEF TypeOK
        <4>3. Sum(sizeOf, printed..printed) = sizeOf[printed] + Sum(sizeOf, {})
          <5>1. Sum(sizeOf, printed..printed)
                  = sizeOf[printed] + Sum(sizeOf, (printed..printed) \ {printed})
            BY <4>1, <4>2, SumFacts
          <5> QED
            BY <4>1, <5>1
        <4>4. Sum(sizeOf, {}) = 0
          BY <4>2, SumFacts
        <4> QED
          BY <1>1, <2>1, <3>1, <3>2, <4>3, <4>4
      <3>4. Filled(printed, printed)'
        BY <1>1, <3>1, <3>3 DEF Filled, Total
      <3>5. /\ printed \in (before' + 1)..(Logged' + 1) /\ printed \in (before' + 1)..printed
            /\ printed..Logged' = {}
        BY <1>1, <2>2, <3>1, <3>2
      <3> QED
        BY <3>1, <3>4, <3>5 DEF Recent
    <2>9. CASE Append
      <3>1. /\ pc = "open" /\ pc' = "write" /\ Logged' = Logged
            /\ Content(cur)' = Content(cur) /\ Content(prev)' = Content(prev)
            /\ UNCHANGED <<printed, before, sizeOf>>
        BY <1>1, <2>9 DEF Append, Goto, Works, Fails, Content, Logged, Logging
      <3>2. \A b : Filled(a, b) => Filled(a, b)'
        BY <3>1 DEF Filled, Total
      <3> QED
        BY <2>2, <3>1, <3>2 DEF Recent
    <2>10. CASE Written
      <3>1. /\ pc = "write" /\ pc' = "run" /\ cur' = cur \cup {printed} /\ cur # Absent
            /\ Content(cur) = cur /\ Content(prev)' = Content(prev) /\ printed \in Entries
            /\ UNCHANGED <<printed, before, sizeOf>>
        BY <1>0, <2>10 DEF Written, Goto, OrderInv, TypeInv, AtWork, Content
      <3>2. Content(cur)' = Content(cur) \cup {printed}
        BY <3>1, ConstantsAssumption DEF Content, Absent, Entries
      <3>3. Logged = printed - 1 /\ Logged' = printed
        BY <3>1 DEF Logged, Logging
      <3>4. Content(cur)' = a..printed
        BY <1>1, <2>2, <3>2, <3>3
      <3>5. \A b : Filled(a, b) => Filled(a, b)'
        BY <3>1 DEF Filled, Total
      <3>6. a \in (before' + 1)..(Logged' + 1)
        BY <1>1, <2>2, <3>1, <3>3
      <3> QED
        BY <2>2, <3>1, <3>3, <3>4, <3>5, <3>6 DEF Recent
    <2> QED
      BY <1>6, <2>4, <2>5, <2>6, <2>7, <2>8, <2>9, <2>10
  <1> QED
    BY <1>2, <1>3, <1>4, <1>5, <1>6 DEF Next

(* As long as no operation fails, an entry of this run is gone only when   *)
(* it and what was logged after it are more than a generation holds,       *)
(* whatever the sizes of the entries and however often the files rotate.   *)
THEOREM KeepsRecentCorrect == Spec => []KeepsRecent
  <1>1. ASSUME RecentInv PROVE KeepsRecent
    <2> SUFFICES ASSUME pc = "run", failures = {}, NEW n \in (before + 1)..printed, n \notin Kept
                 PROVE  SizeOf(n..printed) > Cap
      BY DEF KeepsRecent
    <2>1. /\ TypeOK /\ printed \in Nat /\ before \in Nat /\ printed <= MaxEntries /\ Logged = printed
          /\ Cap \in Nat /\ sizeOf \in [Entries -> Nat]
      BY <1>1, ConstantsAssumption
         DEF RecentInv, RoomInv, OrderInv, TypeInv, TypeOK, Logged, Logging
    <2>2. PICK a \in (before + 1)..(printed + 1) : /\ Content(cur) = a..printed
                                                   /\ \E b \in (before + 1)..a : Filled(a, b)
      BY <1>1, <2>1 DEF RecentInv, Recent
    <2>3. PICK b \in (before + 1)..a : Filled(a, b)
      BY <2>2
    <2>4. n < b
      BY <2>1, <2>2, <2>3 DEF Kept, Filled
    <2>5. a <= printed /\ Sum(sizeOf, b..a) > Cap
      BY <2>1, <2>4, <2>3 DEF Filled, Total
    <2>6. b..a \in SUBSET (n..printed) /\ n..printed \in SUBSET Entries
      BY <2>1, <2>2, <2>4, <2>5, ConstantsAssumption DEF Entries
    <2>7. Sum(sizeOf, b..a) <= Sum(sizeOf, n..printed)
      BY <2>1, <2>6, SumMore
    <2>8. b..a \in SUBSET Entries
      BY <2>6
    <2>9. Sum(sizeOf, b..a) \in Nat /\ Sum(sizeOf, n..printed) \in Nat
      BY <2>1, <2>6, <2>8, SumFacts
    <2> QED
      BY <2>1, <2>5, <2>7, <2>9, SizeIsSum
  <1> QED
    BY <1>1, RecentInit, RecentStep, PTL DEF Spec
=============================================================================
