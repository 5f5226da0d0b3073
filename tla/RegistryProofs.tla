---------------------------- MODULE RegistryProofs ----------------------------
(***************************************************************************)
(* Proofs about what is learned from a chain that moves.                   *)
(*                                                                         *)
(* Part 1, RegistrationLogScan: for any window, budget, skew, slack and    *)
(* chain, what an empty answer means, that windows leave no gap, and that  *)
(* the scan gives up only where its budget is too small.                   *)
(*                                                                         *)
(* Part 2, RegistryDeployment: for any finite number of runs, any number   *)
(* of confirmations and reorganisations, and with every fault, what a      *)
(* manifest is worth, what a run answers, and that runs which overlap are  *)
(* seen by a gate.                                                         *)
(***************************************************************************)
EXTENDS RegistrationLogScan, RegistryDeployment, FiniteSetTheorems, FunctionTheorems,
        WellFoundedInduction, TLAPS

-----------------------------------------------------------------------------
(* PART 1.  The search in the logs.                                        *)

Phases == {"idle", "locating", "bisecting", "scanning", "found", "empty", "failed"}

\* Blocks are a second apart at least.
Spaced == \A m, n \in Blocks : m <= n => time[m] + (n - m) <= time[n]

\* The registration is in no block or in one after the deployment.
WorldOK ==
  /\ time \in [Blocks -> Int]
  /\ Spaced
  /\ height \in Blocks
  /\ event = Nothing \/ (event \in Blocks /\ Floor <= event)
  /\ issuedAt = Nothing \/ issuedAt \in Nat
  /\ DateFits(issuedAt)

\* The numbers of a scan.
ScanTypes ==
  /\ phase \in Phases
  /\ age \in Int
  /\ size \in Nat /\ size >= 1
  /\ start \in Int /\ cursor \in Int /\ low \in Int /\ high \in Int
  /\ step \in Int /\ target \in Int
  /\ phase \in {"locating", "bisecting", "scanning", "empty"} =>
       head \in Blocks /\ Floor <= head
  /\ phase \in {"locating", "bisecting"} => Forward

\* The age reaches back past the registration, the skew included.
AgeReaches ==
  phase \in {"locating", "bisecting"} /\ ~ClientDates /\ event # Nothing =>
    time[head] - Elapsed - Skew <= time[event]

\* The bisection: every block it discarded is older than the target.
BisectionOK ==
  phase = "bisecting" =>
    /\ target = time[head] - Elapsed - Skew
    /\ Floor <= low /\ low <= high /\ high <= head
    /\ \A n \in Floor .. low - 1 : time[n] < target

\* The windows: the cursor is between the first block and the head, and the
\* registration is not behind it.
CursorOK ==
  phase = "scanning" =>
    /\ Floor <= start /\ start <= cursor /\ cursor <= head
    /\ Forward => event \notin start .. cursor - 1
    /\ ~Forward => event \notin cursor + 1 .. head

\* What the scan skipped does not hold the registration.
SkipOK ==
  phase = "scanning" /\ ~ClientDates => event \notin Floor .. start - 1

ScanInv ==
  /\ WorldOK /\ ScanTypes /\ AgeReaches /\ BisectionOK /\ CursorOK /\ SkipOK
  /\ ~ClientDates => EmptyMeansAbsent

USE ScanAssumption DEF Nothing, MinWindow, Blocks

\* Halving an interval or a window stays inside it.
LEMMA Halving ==
  ASSUME NEW n \in Nat
  PROVE  n \div 2 \in Nat /\ (n > 0 => n \div 2 < n)
  OBVIOUS

LEMMA ScanInit == Init => ScanInv
  <1> SUFFICES ASSUME Init PROVE ScanInv
    OBVIOUS
  <1>1. WorldOK
    BY DEF Init, WorldOK, Spaced
  <1>2. ScanTypes
    BY DEF Init, ScanTypes, Phases
  <1>3. QED
    BY <1>1, <1>2 DEF Init, ScanInv, AgeReaches, BisectionOK, CursorOK, SkipOK, EmptyMeansAbsent

\* The world does not change under a scan, except that the chain grows.
LEMMA WorldKept ==
  ASSUME WorldOK, UNCHANGED world, height' \in Blocks
  PROVE  WorldOK'
  BY DEF WorldOK, Spaced, world, DateFits

LEMMA BeginStep ==
  ASSUME ScanInv, Begin
  PROVE  ScanInv'
  <1>1. WorldOK' /\ UNCHANGED world /\ height' = height /\ head' = height
    BY WorldKept DEF Begin, ScanInv, WorldOK
  <1>2. age' \in Int
    BY DEF Begin, ScanInv, ScanTypes, WorldOK
  <1>3. ScanTypes'
    BY <1>1, <1>2 DEF Begin, ScanInv, ScanTypes, WorldOK, Phases, BeginWindows, Forward, world,
       windows, bisect
  <1>4. AgeReaches'
    <2> SUFFICES ASSUME phase' = "locating", ~ClientDates, event # Nothing
                 PROVE  time[height] - Elapsed' - Skew <= time[event]
      BY <1>1 DEF AgeReaches, Begin, BeginWindows, world
    <2>1. issuedAt \in Nat
      BY DEF Begin, BeginWindows, ScanInv, WorldOK
    <2>2. PICK now \in time[height] - Drift .. time[height] + Drift : age' = now - issuedAt
      BY <2>1 DEF Begin
    <2>3. issuedAt - Drift <= time[event]
      BY <2>1 DEF ScanInv, WorldOK, DateFits
    <2>4. time[height] \in Int /\ time[event] \in Int
      BY DEF ScanInv, WorldOK
    <2>5. Elapsed' >= age' /\ Elapsed' \in Int
      BY <1>2 DEF Elapsed, AtLeast
    <2>6. QED BY <2>1, <2>2, <2>3, <2>4, <2>5
  <1>5. CursorOK' /\ SkipOK' /\ BisectionOK' /\ (~ClientDates => EmptyMeansAbsent')
    BY <1>1 DEF Begin, BeginWindows, CursorOK, SkipOK, BisectionOK, EmptyMeansAbsent, Forward,
       world, ScanInv, WorldOK, ScanTypes
  <1>6. QED BY <1>1, <1>3, <1>4, <1>5 DEF ScanInv

LEMMA LocateStep ==
  ASSUME ScanInv, ReadTarget \/ Bisect
  PROVE  ScanInv'
  <1>1. WorldOK' /\ UNCHANGED world /\ UNCHANGED <<height, age, head, windows>>
    BY WorldKept DEF ReadTarget, Bisect, ScanInv, WorldOK
  <1>2. /\ phase \in {"locating", "bisecting"} /\ phase' = "bisecting"
        /\ Elapsed' = Elapsed /\ Elapsed \in Int /\ time[head] \in Int /\ Forward'
        /\ head \in Blocks /\ Floor <= head
    BY <1>1 DEF ReadTarget, Bisect, ScanInv, ScanTypes, WorldOK, Elapsed, AtLeast, Forward, world
  <1>3. AgeReaches'
    BY <1>1, <1>2 DEF ScanInv, AgeReaches, world
  <1>4. BisectionOK' /\ low' \in Int /\ high' \in Int /\ step' \in Int /\ target' \in Int
    <2>1. CASE ReadTarget
      BY <1>1, <1>2, <2>1 DEF ReadTarget, BisectionOK, ScanInv, ScanTypes, world
    <2>2. CASE Bisect
      <3> DEFINE middle == low + (high - low) \div 2
      <3>1. /\ phase = "bisecting" /\ low < high /\ low \in Int /\ high \in Int
            /\ step \in Int /\ target \in Int
        BY <2>2 DEF Bisect, Narrowing, ScanInv, ScanTypes
      <3>2. /\ target = time[head] - Elapsed - Skew
            /\ Floor <= low /\ low <= high /\ high <= head
            /\ \A n \in Floor .. low - 1 : time[n] < target
        BY <3>1 DEF ScanInv, BisectionOK
      <3>3. middle \in Int /\ low <= middle /\ middle < high
        BY <3>1, Halving
      <3>4. target' = target /\ step' = step + 1
        BY <2>2 DEF Bisect, ReadTarget
      <3>5. \/ time[middle] >= target /\ high' = middle /\ low' = low
            \/ ~(time[middle] >= target) /\ low' = middle + 1 /\ high' = high
        BY <2>2 DEF Bisect, LateEnough
      <3> HIDE DEF middle
      <3>6. middle \in Blocks /\ time[middle] \in Int
        <4>1. middle \in Blocks
          BY <1>2, <3>1, <3>2, <3>3
        <4>2. QED BY <4>1 DEF ScanInv, WorldOK
      <3>7. \A n \in Floor .. low' - 1 : time[n] < target
        <4>1. CASE low' = low
          BY <3>2, <4>1
        <4>2. CASE low' = middle + 1 /\ time[middle] < target
          <5> SUFFICES ASSUME NEW n \in Floor .. middle
                       PROVE  time[n] < target
            BY <4>2, <3>3
          <5>1. n \in Blocks /\ n <= middle /\ time[n] \in Int
            BY <3>6 DEF ScanInv, WorldOK
          <5>2. time[n] + (middle - n) <= time[middle]
            BY <3>6, <5>1 DEF ScanInv, WorldOK, Spaced
          <5>3. QED BY <3>1, <3>3, <3>6, <4>2, <5>1, <5>2
        <4>3. QED BY <3>1, <3>5, <3>6, <4>1, <4>2
      <3>8. Floor <= low' /\ low' <= high' /\ high' <= head
        BY <1>2, <3>1, <3>2, <3>3, <3>5
      <3>9. low' \in Int /\ high' \in Int /\ step' \in Int /\ target' \in Int
        BY <3>1, <3>3, <3>4, <3>5
      <3>10. QED BY <1>1, <1>2, <3>2, <3>4, <3>7, <3>8, <3>9 DEF BisectionOK, world
    <2>3. QED BY <2>1, <2>2
  <1>5. ScanTypes'
    BY <1>1, <1>2, <1>4 DEF ScanInv, ScanTypes, Phases, windows
  <1>6. CursorOK' /\ SkipOK' /\ EmptyMeansAbsent'
    BY <1>2 DEF CursorOK, SkipOK, EmptyMeansAbsent
  <1>7. QED BY <1>1, <1>3, <1>4, <1>5, <1>6 DEF ScanInv

\* Both ways to find the first block skip nothing that matters.
LEMMA ScanStarts ==
  ASSUME ScanInv, Located \/ LocateFailed
  PROVE  ScanInv'
  <1>1. WorldOK' /\ UNCHANGED world /\ UNCHANGED <<height, age, head, bisect, size>>
    BY WorldKept DEF Located, LocateFailed, BeginWindows, ScanInv, WorldOK
  <1>2. /\ phase \in {"locating", "bisecting"} /\ phase' = "scanning" /\ cursor' = start'
        /\ Elapsed \in Int /\ Elapsed >= 0 /\ time[head] \in Int /\ Forward /\ Forward'
        /\ head \in Blocks /\ Floor <= head
    BY <1>1 DEF Located, LocateFailed, BeginWindows, ScanInv, ScanTypes, WorldOK, Elapsed,
       AtLeast, Forward, world
  <1>3. start' \in Int /\ Floor <= start' /\ start' <= head
    <2>1. CASE Located
      BY <1>2, <2>1 DEF Located, BeginWindows, ScanInv, BisectionOK, ScanTypes
    <2>2. CASE LocateFailed
      BY <1>2, <2>2 DEF LocateFailed, BeginWindows, BoundedSearchStart, AtLeast
    <2>3. QED BY <2>1, <2>2
  <1>4. ASSUME ~ClientDates
        PROVE  event \notin Floor .. start' - 1
    <2>1. PICK origin : origin = start' /\ origin \in Int /\ origin <= head
      BY <1>3
    <2>2. origin \in Int /\ origin <= head
      BY <2>1
    <2> SUFFICES ASSUME event \in Floor .. origin - 1
                 PROVE  FALSE
      BY <2>1
    <2>3. event \in Blocks /\ event <= head /\ event # Nothing /\ event <= origin - 1
      <3>1. head \in Int /\ head <= MaxBlock
        BY <1>2
      <3>2. QED BY <2>2, <3>1
    <2>4. time[event] \in Int /\ time[head] \in Int /\ head \in Int
      BY <1>2, <2>3 DEF ScanInv, WorldOK
    <2>5. time[head] - Elapsed - Skew <= time[event]
      BY <1>2, <1>4, <2>3 DEF ScanInv, AgeReaches
    <2>6. CASE Located
      <3>1. origin = low /\ target = time[head] - Elapsed - Skew /\ time[event] < target
        BY <2>1, <2>6 DEF Located, BeginWindows, ScanInv, BisectionOK
      <3>2. QED BY <1>2, <2>4, <2>5, <3>1
    <2>7. CASE LocateFailed
      <3>1. origin = AtLeast(Floor, head - (Elapsed + Slack))
        BY <2>1, <2>7 DEF LocateFailed, BeginWindows, BoundedSearchStart
      <3>2. Elapsed \in Int
        BY <1>2
      <3>3. event < head - (Elapsed + Slack)
        BY <2>2, <2>3, <2>4, <3>1, <3>2 DEF AtLeast
      <3>4. time[event] + (head - event) <= time[head]
        BY <1>2, <2>3 DEF ScanInv, WorldOK, Spaced
      <3>5. QED BY <2>3, <2>4, <2>5, <3>2, <3>3, <3>4
    <2>8. QED BY <2>6, <2>7
  <1>5. ScanTypes'
    BY <1>1, <1>2, <1>3 DEF ScanInv, ScanTypes, Phases, bisect
  <1>6. CursorOK'
    BY <1>1, <1>2, <1>3 DEF CursorOK
  <1>7. SkipOK'
    BY <1>1, <1>4 DEF SkipOK, world
  <1>8. AgeReaches' /\ BisectionOK' /\ EmptyMeansAbsent'
    BY <1>2 DEF AgeReaches, BisectionOK, EmptyMeansAbsent
  <1>9. QED BY <1>1, <1>5, <1>6, <1>7, <1>8 DEF ScanInv

\* The bounds of the next window.
LEMMA WindowBounds ==
  ASSUME ScanInv, phase = "scanning"
  PROVE  /\ FromBlock \in Int /\ ToBlock \in Int
         /\ start <= FromBlock /\ FromBlock <= ToBlock /\ ToBlock <= head
         /\ Forward => FromBlock = cursor
         /\ ~Forward => ToBlock = cursor
         /\ start \in Int /\ cursor \in Int /\ head \in Int /\ Floor <= start
  BY DEF ScanInv, ScanTypes, CursorOK, FromBlock, ToBlock, AtLeast, AtMost

LEMMA WindowStep ==
  ASSUME ScanInv, RangeRejected \/ LogsFound \/ NoLogs \/ ScanThrows
  PROVE  ScanInv'
  <1>1. WorldOK' /\ UNCHANGED world /\ UNCHANGED <<height, age, head, bisect, start>>
    BY WorldKept
       DEF RangeRejected, LogsFound, NoLogs, ScanThrows, windows, ScanInv, WorldOK
  <1>2. phase = "scanning" /\ phase' \in {"scanning", "found", "empty", "failed"}
    BY DEF RangeRejected, LogsFound, NoLogs, ScanThrows, Asking
  <1>3. size' \in Nat /\ size' >= 1
    BY Halving DEF RangeRejected, LogsFound, NoLogs, ScanThrows, windows, ScanInv, ScanTypes,
       SizeAfterAnswer, AtLeast
  <1>4. cursor' \in Int
    BY <1>2, WindowBounds
       DEF RangeRejected, LogsFound, NoLogs, ScanThrows, windows, NextCursor
  <1>5. ScanTypes'
    BY <1>1, <1>2, <1>3, <1>4 DEF ScanInv, ScanTypes, Phases, bisect
  <1>6. AgeReaches' /\ BisectionOK'
    BY <1>2 DEF AgeReaches, BisectionOK
  <1>7. SkipOK'
    BY <1>1, <1>2 DEF ScanInv, SkipOK, world
  <1>8. CASE NoLogs
    <2>1. /\ event \notin FromBlock .. ToBlock
          /\ \/ LastWindow /\ phase' = "empty" /\ cursor' = cursor
             \/ ~LastWindow /\ phase' = "scanning" /\ cursor' = NextCursor
      BY <1>2, <1>8 DEF NoLogs
    <2>2. event \in Int
      BY DEF ScanInv, WorldOK
    <2>3. CursorOK'
      BY <1>1, <1>2, <2>1, <2>2, WindowBounds
         DEF CursorOK, ScanInv, NextCursor, LastWindow, Forward, world
    <2>4. ~ClientDates => EmptyMeansAbsent'
      <3> SUFFICES ASSUME ~ClientDates, phase' = "empty"
                   PROVE  event \notin Floor .. head
        BY <1>1 DEF EmptyMeansAbsent, world
      <3>1. LastWindow
        BY <2>1
      <3>2. event \notin Floor .. start - 1
        BY <1>2 DEF ScanInv, SkipOK
      <3>3. CASE Forward
        BY <1>2, <2>1, <2>2, <3>1, <3>2, <3>3, WindowBounds DEF ScanInv, CursorOK, LastWindow
      <3>4. CASE ~Forward
        BY <1>2, <2>1, <2>2, <3>1, <3>2, <3>4, WindowBounds DEF ScanInv, CursorOK, LastWindow
      <3>5. QED BY <3>3, <3>4
    <2>5. QED BY <1>1, <1>5, <1>6, <1>7, <2>3, <2>4 DEF ScanInv
  <1>9. CASE ~NoLogs
    <2>1. cursor' = cursor /\ phase' # "empty"
      BY <1>2, <1>9 DEF RangeRejected, LogsFound, ScanThrows, windows
    <2>2. CursorOK'
      BY <1>1, <1>2, <2>1 DEF ScanInv, CursorOK, Forward, world
    <2>3. QED BY <1>1, <1>5, <1>6, <1>7, <2>1, <2>2 DEF ScanInv, EmptyMeansAbsent
  <1>10. QED BY <1>8, <1>9

LEMMA OtherStep ==
  ASSUME ScanInv, Grow \/ UNCHANGED vars
  PROVE  ScanInv'
  <1>1. WorldOK' /\ UNCHANGED world /\ UNCHANGED <<phase, age, head, bisect, windows>>
    BY WorldKept DEF Grow, vars, world, bisect, windows, ScanInv, WorldOK
  <1>2. QED
    BY <1>1 DEF ScanInv, ScanTypes, AgeReaches, BisectionOK, CursorOK, SkipOK, EmptyMeansAbsent,
       Forward, Elapsed, world, bisect, windows

\* The invariant of the scan, whatever the provider answers.
THEOREM ScanCorrect == Spec => []ScanInv
  <1>1. ScanInv /\ [Next]_vars => ScanInv'
    BY BeginStep, LocateStep, ScanStarts, WindowStep, OtherStep DEF Next
  <1>2. QED BY ScanInit, <1>1, PTL DEF Spec

\* An empty answer of the search means that the registration is in no block up
\* to the head, when the date of issue came from the server's clock.
THEOREM EmptyAnswerIsAbsence ==
  ASSUME ClientDates = FALSE
  PROVE  Spec => []EmptyMeansAbsent
  <1>1. ScanInv => EmptyMeansAbsent
    BY DEF ScanInv
  <1>2. QED BY <1>1, ScanCorrect, PTL

\* The windows advance without a gap, wherever the date came from.
THEOREM WindowsLeaveNoGap == Spec => []WindowsAdvance
  <1>1. ScanInv => WindowsAdvance
    BY WindowBounds DEF WindowsAdvance, ScanInv, CursorOK
  <1>2. QED BY <1>1, ScanCorrect, PTL

-----------------------------------------------------------------------------
(* What the scan learns of the provider: the halvings of a window.         *)

\* A set of numbers has a least one.
LEMMA LeastNumber ==
  ASSUME NEW T, T \subseteq Nat, T # {}
  PROVE  \E n \in T : \A j \in T : n <= j
  <1>1. \E n \in T : \A j \in T : ~(<<j, n>> \in OpToRel(<, Nat))
    BY NatLessThanWellFounded, WFMin
  <1>2. \E n \in T : \A j \in T : ~(j < n)
    BY <1>1 DEF OpToRel
  <1> QED
    BY <1>2

\* The powers of two, as the number of the subsets of an interval.
LEMMA PowerOfTwo ==
  ASSUME NEW n \in Nat
  PROVE  2^n \in Nat \ {0} /\ 2^(n + 1) = 2 * 2^n
  <1> DEFINE A == SUBSET (1..n)
             B == {T \cup {n + 1} : T \in A}
             add == [T \in A |-> T \cup {n + 1}]
  <1>1. IsFiniteSet(1..n) /\ Cardinality(1..n) = n
    BY FS_Interval
  <1>2. IsFiniteSet(1..(n + 1)) /\ Cardinality(1..(n + 1)) = n + 1
    BY FS_Interval
  <1>3. IsFiniteSet(A) /\ Cardinality(A) = 2^n
    BY <1>1, FS_SUBSET
  <1>4. Cardinality(SUBSET (1..(n + 1))) = 2^(n + 1)
    BY <1>2, FS_SUBSET
  <1>5. add \in Bijection(A, B)
    <2>0. \A T \in A : T = (T \cup {n + 1}) \ {n + 1}
      OBVIOUS
    <2>1. add \in [A -> B] /\ \A T, U \in A : add[T] = add[U] => T = U
      BY <2>0
    <2>2. \A V \in B : \E T \in A : add[T] = V
      OBVIOUS
    <2> QED
      BY <2>1, <2>2, Fun_IsBij
  <1>6. IsFiniteSet(B) /\ Cardinality(B) = Cardinality(A)
    BY <1>3, <1>5, FS_Bijection DEF ExistsBijection
  <1>7. A \cap B = {} /\ A \cup B = SUBSET (1..(n + 1))
    <2>1. 1..(n + 1) = (1..n) \cup {n + 1} /\ n + 1 \notin 1..n
      OBVIOUS
    <2>2. ASSUME NEW V \in SUBSET (1..(n + 1)), n + 1 \in V PROVE V \in B
      <3>1. V \ {n + 1} \in A /\ V = (V \ {n + 1}) \cup {n + 1}
        BY <2>1, <2>2
      <3> QED
        BY <3>1
    <2>3. ASSUME NEW V \in SUBSET (1..(n + 1)), n + 1 \notin V PROVE V \in A
      BY <2>1, <2>3
    <2>4. \A V \in A : n + 1 \notin V /\ V \in SUBSET (1..(n + 1))
      BY <2>1
    <2>5. ASSUME NEW V \in B PROVE n + 1 \in V /\ V \in SUBSET (1..(n + 1))
      <3>1. PICK T \in A : V = T \cup {n + 1}
        OBVIOUS
      <3> QED
        BY <2>1, <2>4, <3>1
    <2> HIDE DEF A, B
    <2>6. A \cap B = {}
      BY <2>4, <2>5
    <2>7. \A V : V \in A \cup B <=> V \in SUBSET (1..(n + 1))
      BY <2>2, <2>3, <2>4, <2>5
    <2> QED
      BY <2>6, <2>7
  <1>8. Cardinality(A \cup B) = Cardinality(A) + Cardinality(B) - Cardinality({})
    <2> HIDE DEF A, B
    <2> QED
      BY <1>3, <1>6, <1>7, FS_Union
  <1>9. Cardinality(A) \in Nat \ {0}
    <2>1. {} \in A
      OBVIOUS
    <2> HIDE DEF A
    <2>2. Cardinality(A) \in Nat
      BY <1>3, FS_CardinalityType
    <2>3. Cardinality(A) = 0 <=> A = {}
      BY <1>3, FS_EmptySet
    <2> QED
      BY <2>1, <2>2, <2>3
  <1>10. Cardinality({}) = 0
    BY FS_EmptySet
  <1>11. Cardinality(A \cup B) = 2^(n + 1)
    BY <1>4, <1>7
  <1> HIDE DEF A, B
  <1> QED
    BY <1>3, <1>6, <1>8, <1>9, <1>10, <1>11

LEMMA BelowPower ==
  ASSUME NEW n \in Nat
  PROVE  n < 2^n
  <1> SUFFICES ASSUME ~(n < 2^n) PROVE FALSE
    OBVIOUS
  <1> DEFINE T == {j \in Nat : ~(j < 2^j)}
  <1>1. PICK j \in T : \A i \in T : j <= i
    BY LeastNumber
  <1>2. j # 0
    BY PowerOfTwo
  <1>3. PICK i \in Nat : j = i + 1
    BY <1>2
  <1>4. i < 2^i
    BY <1>1, <1>3
  <1> QED
    BY <1>1, <1>3, <1>4, PowerOfTwo

\* The window after n halvings.
Halved(n) == Window \div 2^n

LEMMA HalvedFacts ==
  /\ Halved(0) = Window
  /\ \A n \in Nat : Halved(n) \in Nat /\ Halved(n + 1) = Halved(n) \div 2
  <1>1. Halved(0) = Window
    BY DEF Halved
  <1>2. ASSUME NEW n \in Nat PROVE Halved(n) \in Nat /\ Halved(n + 1) = Halved(n) \div 2
    <2>1. PICK m \in Nat \ {0} : m = 2^n /\ 2^(n + 1) = 2 * m
      BY PowerOfTwo
    <2>2. Window \div m \in Nat /\ (Window \div m) \div 2 = Window \div (2 * m)
      OBVIOUS
    <2> QED
      BY <2>1, <2>2 DEF Halved
  <1> QED
    BY <1>1, <1>2

LEMMA HalvedShrinks ==
  ASSUME NEW n \in Nat, NEW j \in 0..n
  PROVE  Halved(n) <= Halved(j)
  <1> SUFFICES ASSUME ~(Halved(n) <= Halved(j)) PROVE FALSE
    OBVIOUS
  <1> DEFINE T == {k \in Nat : j <= k /\ ~(Halved(k) <= Halved(j))}
  <1>0. T \subseteq Nat /\ T # {}
    OBVIOUS
  <1> HIDE DEF T
  <1>1. PICK k \in T : \A i \in T : k <= i
    BY <1>0, LeastNumber
  <1> USE DEF T
  <1>2. j \in Nat /\ k # j
    BY HalvedFacts
  <1>3. PICK i \in Nat : k = i + 1 /\ j <= i
    BY <1>2
  <1>4. Halved(i) <= Halved(j)
    BY <1>1, <1>3
  <1>5. Halved(k) = Halved(i) \div 2 /\ Halved(i) \in Nat /\ Halved(j) \in Nat
    BY <1>2, <1>3, HalvedFacts
  <1> QED
    BY <1>4, <1>5

\* How often a provider that accepts ranges of "limit" blocks rejects at most.
LEMMA HalvingsFacts ==
  ASSUME limit \in 1..Window
  PROVE  /\ Halvings \in 0..Window
         /\ Halved(Halvings) <= limit
         /\ \A j \in 0..Halvings - 1 : Halved(j) > limit
  <1> DEFINE T == {k \in 0..Window : Halved(k) <= limit}
  <1>1. Window \in T
    <2>1. PICK m \in Nat : m = 2^Window /\ Window < m
      BY BelowPower, PowerOfTwo
    <2>2. Window \div m = 0
      BY <2>1
    <2> QED
      BY <2>1, <2>2 DEF Halved
  <1>0. T \subseteq Nat /\ T # {}
    BY <1>1
  <1> HIDE DEF T
  <1>2. PICK k \in T : \A i \in T : k <= i
    BY <1>0, LeastNumber
  <1> USE DEF T
  <1>3. k \in 0..Window /\ Halved(k) <= limit
    OBVIOUS
  <1>4. ASSUME NEW j \in 0..k - 1 PROVE Halved(j) > limit
    <2>1. j \in Nat /\ j \in 0..Window /\ j \notin T
      BY <1>2, <1>3
    <2> QED
      BY <2>1, HalvedFacts
  <1> HIDE DEF T
  <1>5. \E i \in 0..Window : Halved(i) <= limit /\ \A j \in 0..i - 1 : Halved(j) > limit
    BY <1>3, <1>4
  <1> QED
    BY <1>5 DEF Halvings, Halved

\* Dividing counts how often the divisor fits.
LEMMA Fits ==
  ASSUME NEW n \in Nat, NEW m \in Nat \ {0}, NEW q \in Nat, q * m <= n
  PROVE  n \div m \in Nat /\ q <= n \div m
  <1> PICK d \in Nat : d = n \div m /\ n < (d + 1) * m
    OBVIOUS
  <1>1. ASSUME d < q PROVE FALSE
    <2>1. (d + 1) * m <= q * m
      BY <1>1
    <2> QED
      BY <2>1
  <1> QED
    BY <1>1

\* The blocks the windows have left behind.
Behind == IF Forward THEN cursor - start ELSE head - cursor

\* A scan of r requests of which j were rejected: the size is what is left of
\* the window after j halvings, and each of the others took as many blocks at least
\* as the size that is accepted in the end.
Learnt(j, r) ==
  /\ j \in 0..Halvings
  /\ size = AtLeast(MinWindow, Halved(j))
  /\ r \in Nat /\ r * LearntSize <= Behind
  /\ request = j + r

LearnInv ==
  /\ limit \in 0..Window
  /\ phase \in {"idle", "locating", "bisecting"} => size = Window /\ request = 0
  /\ limit # 0 /\ phase = "scanning" => \E j \in 0..Halvings, r \in Nat : Learnt(j, r)
  /\ LearnsTheWindow

LEMMA SizeFacts ==
  ASSUME limit \in 1..Window
  PROVE  /\ Halvings \in Nat /\ LearntSize \in Nat \ {0} /\ LearntSize <= limit
         /\ \A j \in 0..Halvings : /\ AtLeast(MinWindow, Halved(j)) \in Nat
                                   /\ LearntSize <= AtLeast(MinWindow, Halved(j))
  <1>1. Halvings \in Nat /\ Halved(Halvings) \in Nat /\ Halved(Halvings) <= limit
    BY HalvingsFacts, HalvedFacts
  <1>2. LearntSize = AtLeast(MinWindow, Halved(Halvings))
    BY DEF LearntSize, Halved
  <1>3. ASSUME NEW j \in 0..Halvings PROVE Halved(j) \in Nat /\ Halved(Halvings) <= Halved(j)
    <2>1. PICK h \in Nat : h = Halvings
      BY <1>1
    <2>2. j \in 0..h /\ j \in Nat
      BY <2>1
    <2>3. Halved(h) <= Halved(j)
      BY <2>2, HalvedShrinks
    <2>4. Halved(j) \in Nat
      BY <2>2, HalvedFacts
    <2> QED
      BY <2>1, <2>3, <2>4
  <1> QED
    BY <1>1, <1>2, <1>3 DEF AtLeast

LEMMA LearnStarts ==
  ASSUME ScanInv, LearnInv, Begin \/ ReadTarget \/ Bisect \/ Located \/ LocateFailed
  PROVE  LearnInv'
  <1>1. /\ limit' = limit /\ size' = size /\ request' = request
        /\ size = Window /\ request = 0
    BY DEF LearnInv, Begin, ReadTarget, Bisect, Located, LocateFailed, BeginWindows, windows, world
  <1>2. LearnsTheWindow'
    <2>1. phase' = "failed" => head' < Floor /\ head' \in Int
      BY DEF Begin, ReadTarget, Bisect, Located, LocateFailed, BeginWindows, ScanInv, WorldOK
    <2> QED
      BY <2>1 DEF LearnsTheWindow
  <1>3. Halvings' = Halvings /\ LearntSize' = LearntSize
    BY <1>1 DEF Halvings, LearntSize
  <1>4. ASSUME limit # 0, phase' = "scanning" PROVE \E j \in 0..Halvings', r \in Nat : Learnt(j, r)'
    <2>1. limit \in 1..Window
      BY <1>4 DEF LearnInv
    <2>2. Halvings \in Nat /\ LearntSize \in Nat
      BY <2>1, SizeFacts
    <2>3. Behind' = 0
      <3>1. CASE issuedAt # Nothing
        BY <1>4, <3>1 DEF Behind, Forward, Begin, ReadTarget, Bisect, Located, LocateFailed,
           BeginWindows, world, ScanInv, ScanTypes, BisectionOK, BoundedSearchStart, AtLeast,
           Elapsed, WorldOK
      <3>2. CASE issuedAt = Nothing
        BY <1>4, <3>2 DEF Behind, Forward, Begin, ReadTarget, Bisect, Located, LocateFailed,
           BeginWindows, world, ScanInv, ScanTypes, WorldOK
      <3> QED
        BY <3>1, <3>2
    <2>4. size' = AtLeast(MinWindow, Halved(0)) /\ request' = 0
      BY <1>1, HalvedFacts DEF AtLeast
    <2>5. Learnt(0, 0)'
      BY <1>3, <2>2, <2>3, <2>4 DEF Learnt
    <2> QED
      BY <1>3, <2>2, <2>5
  <1> QED
    BY <1>1, <1>2, <1>4 DEF LearnInv

\* The size a window of a scan is asked for.
LEMMA AskedSize ==
  ASSUME ScanInv, limit \in 1..Window, phase = "scanning",
         NEW j \in 0..Halvings, NEW r \in Nat, Learnt(j, r)
  PROVE  /\ ToBlock - FromBlock + 1 <= size
         /\ MayReject => j < Halvings /\ size = Halved(j)
  <1>1. /\ size \in Nat /\ Halvings \in Nat /\ Halved(Halvings) <= limit
        /\ Halved(Halvings) \in Nat /\ Halved(j) \in Nat
    BY HalvingsFacts, HalvedFacts DEF ScanInv, ScanTypes
  <1>2. ToBlock - FromBlock + 1 <= size
    BY <1>1, WindowBounds DEF ScanInv, ScanTypes, CursorOK, FromBlock, ToBlock, AtLeast, AtMost
  <1>3. ASSUME MayReject PROVE j < Halvings /\ size = Halved(j)
    <2>1. size > limit
      BY <1>1, <1>2, <1>3, WindowBounds DEF MayReject
    <2>2. size = AtLeast(MinWindow, Halved(j))
      BY DEF Learnt
    <2> QED
      BY <1>1, <2>1, <2>2 DEF AtLeast
  <1> QED
    BY <1>2, <1>3

LEMMA LearnGoesOn ==
  ASSUME ScanInv, LearnInv, RangeRejected \/ LogsFound \/ NoLogs
  PROVE  LearnInv'
  <1>1. /\ limit' = limit /\ head' = head /\ start' = start /\ issuedAt' = issuedAt
        /\ phase = "scanning" /\ phase' \in {"scanning", "found", "empty"}
    BY DEF RangeRejected, LogsFound, NoLogs, Asking, world
  <1>2. Halvings' = Halvings /\ LearntSize' = LearntSize
    BY <1>1 DEF Halvings, LearntSize
  <1>3. ASSUME limit # 0, phase' = "scanning"
        PROVE  \E j \in 0..Halvings, r \in Nat : Learnt(j, r)'
    <2>1. limit \in 1..Window
      BY <1>3 DEF LearnInv
    <2>2. PICK j \in 0..Halvings, r \in Nat : Learnt(j, r)
      BY <1>1, <1>3 DEF LearnInv
    <2>3. Halvings \in Nat /\ LearntSize \in Nat /\ size \in Nat /\ LearntSize <= size
      BY <2>1, <2>2, SizeFacts DEF Learnt
    <2>4. CASE RangeRejected
      <3>1. j < Halvings /\ size = Halved(j)
        BY <1>1, <2>1, <2>2, <2>4, AskedSize DEF RangeRejected
      <3>2. /\ size' = AtLeast(MinWindow, size \div 2) /\ request' = request + 1
            /\ cursor' = cursor
        BY <2>4 DEF RangeRejected
      <3>3. j + 1 \in 0..Halvings /\ size' = AtLeast(MinWindow, Halved(j + 1))
        BY <2>3, <3>1, <3>2, HalvedFacts
      <3>4. Behind' = Behind
        BY <1>1, <3>2 DEF Behind, Forward
      <3>5. request' = (j + 1) + r
        BY <2>3, <3>2, <2>2 DEF Learnt
      <3>6. Learnt(j + 1, r)'
        BY <1>2, <2>2, <3>3, <3>4, <3>5 DEF Learnt
      <3> QED
        BY <3>3, <3>6
    <2>5. CASE NoLogs
      <3>1. ~LastWindow /\ cursor' = NextCursor /\ size' = size /\ request' = request + 1
        BY <1>3, <2>5 DEF NoLogs, SizeAfterAnswer
      <3>2. Behind' = Behind + size /\ Behind \in Int
        <4>1. CASE Forward
          BY <1>1, <2>3, <3>1, <4>1, WindowBounds
             DEF Behind, Forward, LastWindow, NextCursor, ToBlock, FromBlock, AtMost
        <4>2. CASE ~Forward
          BY <1>1, <2>3, <3>1, <4>2, WindowBounds
             DEF Behind, Forward, LastWindow, NextCursor, ToBlock, FromBlock, AtLeast
        <4> QED
          BY <4>1, <4>2
      <3>3. (r + 1) * LearntSize <= Behind'
        <4>1. PICK l \in Nat : l = LearntSize
          BY <2>3
        <4>2. r * l <= Behind /\ (r + 1) * l = r * l + l
          BY <2>2, <4>1 DEF Learnt
        <4> QED
          BY <2>3, <3>2, <4>1, <4>2
      <3>4. request' = j + (r + 1)
        BY <2>3, <3>1, <2>2 DEF Learnt
      <3>5. Learnt(j, r + 1)'
        BY <1>2, <2>2, <3>1, <3>3, <3>4 DEF Learnt
      <3> QED
        BY <3>5
    <2>6. CASE LogsFound
      BY <1>3, <2>6 DEF LogsFound
    <2> QED
      BY <2>4, <2>5, <2>6
  <1> QED
    BY <1>1, <1>2, <1>3 DEF LearnInv, LearnsTheWindow

LEMMA LearnGivesUp ==
  ASSUME ScanInv, LearnInv, ScanThrows
  PROVE  LearnInv'
  <1>1. /\ limit' = limit /\ head' = head /\ phase = "scanning" /\ phase' = "failed"
    BY DEF ScanThrows, world
  <1>2. BudgetSuffices' = BudgetSuffices
    BY <1>1 DEF BudgetSuffices, LearntSize, Halvings
  <1>3. ASSUME limit # 0 PROVE ~BudgetSuffices
    <2>1. limit \in 1..Window
      BY <1>3 DEF LearnInv
    <2>2. PICK j \in 0..Halvings, r \in Nat : Learnt(j, r)
      BY <1>1, <1>3 DEF LearnInv
    <2>3. PICK h \in Nat, l \in Nat \ {0} : h = Halvings /\ l = LearntSize
      BY <2>1, SizeFacts
    <2>4. request = MaxRequests
      <3>1. ~(MayReject /\ size = MinWindow)
        <4>1. ASSUME MayReject PROVE size > limit
          <5>1. ToBlock - FromBlock + 1 <= size /\ size \in Nat
            BY <1>1, <2>1, <2>2, AskedSize DEF ScanInv, ScanTypes
          <5> QED
            BY <1>1, <1>3, <2>1, <4>1, <5>1, WindowBounds DEF MayReject
        <4> QED
          BY <2>1, <4>1
      <3> QED
        BY <1>3, <3>1 DEF ScanThrows
    <2>5. r * l <= head - Floor /\ head - Floor \in Nat
      <3>1. r * l <= Behind /\ r * l \in Nat
        BY <2>2, <2>3 DEF Learnt
      <3>2. Behind <= head - Floor /\ Behind \in Int /\ head - Floor \in Nat
        BY <1>1, WindowBounds DEF Behind, ScanInv, ScanTypes, CursorOK
      <3> QED
        BY <3>1, <3>2
    <2>6. PICK n \in Nat : n = head - Floor + l
      BY <2>3, <2>5
    <2>7. (r + 1) * l <= n
      <3>1. (r + 1) * l = r * l + l /\ r * l \in Nat
        OBVIOUS
      <3> QED
        BY <2>5, <2>6, <3>1
    <2>8. n \div l \in Nat /\ r + 1 <= n \div l
      BY <2>7, Fits
    <2>9. MaxRequests = j + r
      BY <2>2, <2>4 DEF Learnt
    <2> QED
      BY <2>3, <2>6, <2>8, <2>9 DEF BudgetSuffices
  <1> QED
    BY <1>1, <1>2, <1>3 DEF LearnInv, LearnsTheWindow

LEMMA LearnStays ==
  ASSUME LearnInv, Grow \/ UNCHANGED vars
  PROVE  LearnInv'
  <1>1. UNCHANGED <<limit, phase, size, request, head, issuedAt, cursor, start>>
    BY DEF Grow, vars, world, windows
  <1>2. Halvings' = Halvings /\ LearntSize' = LearntSize /\ BudgetSuffices' = BudgetSuffices
    BY <1>1 DEF Halvings, LearntSize, BudgetSuffices
  <1>3. \A j, r : Learnt(j, r)' = Learnt(j, r)
    BY <1>1, <1>2 DEF Learnt, Behind, Forward
  <1> QED
    BY <1>1, <1>2, <1>3 DEF LearnInv, LearnsTheWindow

\* The scan learns the size a provider accepts: it gives up only where the budget is
\* too small for one descent to that size and one pass of such windows.
THEOREM WindowIsLearnt == Spec => []LearnsTheWindow
  <1>1. Init => LearnInv
    BY DEF Init, LearnInv, LearnsTheWindow
  <1>2. ScanInv /\ LearnInv /\ [Next]_vars => LearnInv'
    BY LearnStarts, LearnGoesOn, LearnGivesUp, LearnStays DEF Next
  <1>3. LearnInv => LearnsTheWindow
    BY DEF LearnInv
  <1> QED
    BY <1>1, <1>2, <1>3, ScanCorrect, PTL DEF Spec

HIDE ScanAssumption DEF Nothing, MinWindow, Blocks

-----------------------------------------------------------------------------
(* PART 2.  What a run of the deployment knows of the chain.               *)

BeforeSend == {"idle", "latest", "create", "manifest", "estimate", "send"}
Observing  == {"code", "transaction", "block", "threshold", "reread"}
Persisting == {"open", "fill", "publish", "clean"}

\* The transactions that are, or may be, in a block.
Alive == pool \cup Mined

\* Of every sender there is one transaction, in one place, and that of a run is
\* the one its gate found the nonce for.
ChainInv ==
  /\ \A h \in 1..Len(chain) : chain[h].fork <= reorgs
  /\ \A h, j \in 1..Len(chain) : chain[h].tx # None /\ chain[h].tx = chain[j].tx => h = j
  /\ pool \cap Mined = {}
  /\ \A t \in Alive : t.by \in Runs => t = Tx(t.by) /\ pc[t.by] \notin BeforeSend
  /\ \A t, u \in Alive : t.by = u.by => t = u

\* What was seen in a block names the block: no other one ever has its height
\* and its fork.
Observed(at, t) ==
  /\ at \in Observations /\ at.fork <= reorgs
  /\ at.fork = reorgs => at.number <= Len(chain)
  /\ InBlock(at) => chain[at.number].tx = t /\ chain[at.number].ok

\* The threshold was reached over a block, and what that is worth.
Confirmed(at) == at.number + Confirmations <= top + 1
Stays(at) == deepest < Confirmations => InBlock(at)

RunInv(r) ==
  /\ pc[r] # "ended" => told[r] = None
  /\ r \in sent => pc[r] \notin BeforeSend /\ told[r] # "not ready"
  /\ pc[r] \in BeforeSend \cup {"wait", "threshold", "reread"} => second[r] = None
  /\ pc[r] \in Observing \cup Persisting => first[r] # None /\ Observed(first[r], Tx(r))
  /\ pc[r] \in Observing \cup Persisting /\ second[r] # None =>
       Observed(second[r], Tx(r)) /\ Confirmed(first[r])
  /\ pc[r] = "reread" => Confirmed(first[r])
  /\ pc[r] \in Persisting => second[r] # None /\ second[r] = first[r] /\ Stays(second[r])
  /\ pc[r] = "publish" => temporary[r] = "complete"
  /\ pc[r] = "clean" \/ told[r] = "finalized" =>
       manifests[nonce[r]] # None /\ manifests[nonce[r]].by = r

ManifestInv(n) ==
  manifests[n] # None =>
    LET m == manifests[n] IN
      /\ m.whole /\ Observed(m.at, [by |-> m.by, nonce |-> n])
      /\ Confirmed(m.at) /\ Stays(m.at)

DeployInv ==
  /\ DeployTypeOK /\ ChainInv
  /\ \A r \in Runs : RunInv(r)
  /\ \A n \in Nonces : ManifestInv(n)

-----------------------------------------------------------------------------
(* Names, transactions and nonces.                                         *)

LEMMA Numbers ==
  /\ Confirmations \in Nat /\ Confirmations > 0 /\ Depth \in Nat
  /\ MaxHeight \in Nat /\ MaxReorgs \in Nat
  BY BoundsAssumption

LEMMA Names ==
  /\ None \notin Txs /\ None \notin Observations /\ None \notin Manifests
  /\ None # "not ready" /\ None # "finalized" /\ Wallet \notin Runs
  <1>1. /\ None \notin Txs /\ None \notin Observations /\ None \notin Manifests
        /\ None \notin Answers /\ Wallet \notin Runs
    BY NamesAssumption
  <1>2. None # "not ready" /\ None # "finalized"
    BY <1>1 DEF Answers
  <1> QED
    BY <1>1, <1>2

LEMMA SendersFinite == IsFiniteSet(Senders) /\ Cardinality(Senders) \in Nat
  BY NamesAssumption, FS_AddElement, FS_CardinalityType DEF Senders

\* The chain and what it holds.
LEMMA ChainTypes ==
  ASSUME DeployTypeOK
  PROVE  /\ Len(chain) \in Nat
         /\ \A h \in 1..Len(chain) : chain[h] \in ChainBlocks
         /\ Mined \subseteq Txs /\ Alive \subseteq Txs
         /\ \A t \in Txs : t \in Mined <=> \E h \in 1..Len(chain) : chain[h].tx = t
  <1>1. Len(chain) \in Nat /\ \A h \in 1..Len(chain) : chain[h] \in ChainBlocks
    <2>1. chain \in Seq(ChainBlocks)
      BY DEF DeployTypeOK
    <2> QED
      BY <2>1
  <1>2. Mined \subseteq Txs
    BY <1>1 DEF Mined, ChainBlocks
  <1>3. \A t \in Txs : t \in Mined <=> \E h \in 1..Len(chain) : chain[h].tx = t
    BY Names DEF Mined
  <1> QED
    BY <1>1, <1>2, <1>3 DEF Alive, DeployTypeOK

\* Senders have one transaction each, so they are not fewer.
LEMMA OneEach ==
  ASSUME DeployTypeOK, ChainInv
  PROVE  /\ IsFiniteSet(Mined) /\ IsFiniteSet(seen)
         /\ Cardinality(Mined) \in Nat /\ Cardinality(seen) \in Nat
         /\ Cardinality(Mined) + Cardinality(seen) <= Cardinality(Senders)
  <1> DEFINE known == Mined \cup seen
             by == [t \in known |-> t.by]
  <1>1. known \subseteq Alive /\ Mined \cap seen = {} /\ Alive \subseteq Txs
    BY ChainTypes DEF Alive, DeployTypeOK, ChainInv
  <1>2. by \in Injection(known, Senders)
    <2>1. by \in [known -> Senders]
      BY <1>1 DEF Txs
    <2>2. \A t, u \in known : by[t] = by[u] => t = u
      BY <1>1 DEF ChainInv
    <2> QED
      BY <2>1, <2>2 DEF Injection, IsInjective
  <1>3. IsFiniteSet(known) /\ Cardinality(known) <= Cardinality(Senders)
    BY <1>2, SendersFinite, FS_Injection
  <1>4. IsFiniteSet(Mined) /\ IsFiniteSet(seen)
    BY <1>3, FS_Subset
  <1>5. /\ Cardinality(Mined) \in Nat /\ Cardinality(seen) \in Nat
        /\ Cardinality(Mined \cap seen) = 0
    BY <1>1, <1>4, FS_CardinalityType, FS_EmptySet
  <1>6. Cardinality(known) = Cardinality(Mined) + Cardinality(seen) - Cardinality(Mined \cap seen)
    BY <1>4, FS_Union
  <1> QED
    BY <1>3, <1>4, <1>5, <1>6

\* The nonce that is answered as pending is a nonce.
LEMMA PendingNonceType ==
  ASSUME DeployTypeOK, ChainInv
  PROVE  PendingNonce \in Nonces
  <1> DEFINE holder == [n \in Queued |-> CHOOSE t \in seen : t.nonce = n]
  <1>1. \A n \in Queued : n \in Nat /\ holder[n] \in seen /\ holder[n].nonce = n
    <2> TAKE n \in Queued
    <2>1. n \in Nat /\ LatestNonce \in Nat /\ LatestNonce <= n
      BY OneEach DEF Queued, Nonces, LatestNonce
    <2>2. \E t \in seen : t.nonce = n
      BY <2>1 DEF Queued
    <2> QED
      BY <2>1, <2>2
  <1>2. holder \in Injection(Queued, seen)
    <2>1. holder \in [Queued -> seen]
      BY <1>1
    <2>2. \A m, n \in Queued : holder[m] = holder[n] => m = n
      BY <1>1
    <2> QED
      BY <2>1, <2>2 DEF Injection, IsInjective
  <1>3. IsFiniteSet(Queued) /\ Cardinality(Queued) <= Cardinality(seen)
    BY <1>2, OneEach, FS_Injection
  <1>4. Cardinality(Queued) \in Nat
    BY <1>3, FS_CardinalityType
  <1> QED
    BY <1>3, <1>4, OneEach, SendersFinite DEF PendingNonce, LatestNonce, Nonces

-----------------------------------------------------------------------------
(* The chain moves.                                                        *)

\* What runs keep when they do not move.
RunsKept ==
  UNCHANGED <<sent, pc, told, nonce, ready, first, second, confirmedAtGate, temporary, manifests>>

\* A step of the chain that loses only what a reorganisation reaches keeps
\* what was seen and confirmed.
LEMMA ChainStep ==
  ASSUME DeployInv, DeployTypeOK', ChainInv', RunsKept, sent' = sent, top <= top',
         \A at \in Observations, t \in Txs : Observed(at, t) => Observed(at, t)',
         \A at \in Observations : Confirmed(at) /\ Stays(at) => Stays(at)'
  PROVE  DeployInv'
  <1>1. \A at \in Observations : Confirmed(at) => Confirmed(at)'
    BY Numbers DEF Confirmed, Observations, DeployInv, DeployTypeOK
  <1>2. ASSUME NEW r \in Runs PROVE RunInv(r)'
    <2>1. /\ pc' = pc /\ told' = told /\ nonce' = nonce /\ first' = first /\ second' = second
          /\ temporary' = temporary /\ manifests' = manifests
      BY DEF RunsKept
    <2>2. Tx(r) \in Txs /\ Tx(r)' = Tx(r)
      BY <2>1 DEF Tx, Txs, Senders, DeployInv, DeployTypeOK
    <2>3. RunInv(r)
      BY DEF DeployInv
    <2>4. first[r] \in Observations \cup {None} /\ second[r] \in Observations \cup {None}
      BY DEF DeployInv, DeployTypeOK
    <2>5. /\ first[r] # None /\ Observed(first[r], Tx(r)) => Observed(first[r], Tx(r))'
          /\ second[r] # None /\ Observed(second[r], Tx(r)) => Observed(second[r], Tx(r))'
          /\ first[r] # None /\ Confirmed(first[r]) => Confirmed(first[r])'
          /\ second[r] # None /\ Confirmed(second[r]) /\ Stays(second[r]) => Stays(second[r])'
      BY <1>1, <2>1, <2>2, <2>4
    <2> QED
      BY <2>1, <2>3, <2>5 DEF RunInv, Observing, Persisting
  <1>3. ASSUME NEW n \in Nonces PROVE ManifestInv(n)'
    <2>1. ManifestInv(n) /\ manifests' = manifests
      BY DEF DeployInv, RunsKept
    <2>2. manifests[n] # None =>
            /\ manifests[n].at \in Observations
            /\ [by |-> manifests[n].by, nonce |-> n] \in Txs
      BY DEF DeployInv, DeployTypeOK, Manifests, Txs, Senders
    <2> QED
      BY <1>1, <2>1, <2>2 DEF ManifestInv
  <1> QED
    BY <1>2, <1>3 DEF DeployInv

LEMMA MineInv == ASSUME DeployInv, Mine PROVE DeployInv'
  <1> DEFINE n == Len(chain)
  <1>0. PICK t \in {None} \cup {x \in pool : x.nonce = LatestNonce}, ok \in BOOLEAN :
          /\ chain' = Append(chain, [fork |-> reorgs, tx |-> t, ok |-> ok])
          /\ pool' = pool \ {t} /\ seen' = seen \ {t}
    BY DEF Mine
  <1>1. /\ DeployTypeOK /\ ChainInv /\ n \in Nat /\ n < MaxHeight /\ reorgs \in 0..MaxReorgs
        /\ top \in Nat /\ n <= top /\ RunsKept /\ reorgs' = reorgs /\ deepest' = deepest
        /\ top' = IF n = top THEN top + 1 ELSE top
    BY DEF DeployInv, DeployTypeOK, Mine, RunsKept
  <1>2. t \in Txs \cup {None} /\ t \notin Mined
    BY <1>1 DEF DeployTypeOK, ChainInv, Mined
  <1>3. /\ Len(chain') = n + 1 /\ chain'[n + 1] = [fork |-> reorgs, tx |-> t, ok |-> ok]
        /\ \A h \in 1..n : chain'[h] = chain[h]
    BY <1>0, <1>1, <1>2 DEF DeployTypeOK
  <1>4. Mined' = Mined \cup ({t} \ {None})
    <2>1. \A x : x \in Mined' <=> x # None /\ \E h \in 1..(n + 1) : chain'[h].tx = x
      BY <1>3 DEF Mined
    <2>2. \A x : x \in Mined <=> x # None /\ \E h \in 1..n : chain[h].tx = x
      BY DEF Mined
    <2>3. \A x : (\E h \in 1..(n + 1) : chain'[h].tx = x) <=> x = t \/ \E h \in 1..n : chain[h].tx = x
      BY <1>1, <1>3
    <2> QED
      BY <2>1, <2>2, <2>3
  <1>5. Alive' \subseteq Alive /\ pool' \cap Mined' = {}
    BY <1>0, <1>1, <1>4 DEF Alive, ChainInv
  <1>6. DeployTypeOK'
    <2>1. chain' \in Seq(ChainBlocks)
      BY <1>0, <1>1, <1>2 DEF DeployTypeOK, ChainBlocks
    <2>2. Len(chain') <= top' /\ top' \in 0..MaxHeight
      BY <1>1, <1>3, Numbers DEF DeployTypeOK
    <2> QED
      BY <1>0, <1>1, <2>1, <2>2 DEF DeployTypeOK, RunsKept, ChainBlocks
  <1>7. ChainInv'
    <2>1. \A h \in 1..Len(chain') : chain'[h].fork <= reorgs'
      BY <1>1, <1>3 DEF ChainInv
    <2>2. \A h, j \in 1..Len(chain') :
            chain'[h].tx # None /\ chain'[h].tx = chain'[j].tx => h = j
      <3>1. t = None \/ \A h \in 1..n : chain[h].tx # t
        BY <1>2 DEF Mined
      <3> QED
        BY <1>1, <1>3, <3>1 DEF ChainInv
    <2>3. \A x \in Alive' : x.by \in Runs => x = Tx(x.by)' /\ pc'[x.by] \notin BeforeSend
      BY <1>1, <1>5 DEF ChainInv, RunsKept, Tx
    <2> QED
      BY <1>1, <1>5, <2>1, <2>2, <2>3 DEF ChainInv
  <1>8. ASSUME NEW at \in Observations, NEW x \in Txs, Observed(at, x) PROVE Observed(at, x)'
    BY <1>1, <1>3, <1>8 DEF Observed, InBlock, Observations
  <1>9. ASSUME NEW at \in Observations, Stays(at) PROVE Stays(at)'
    BY <1>1, <1>3, <1>9 DEF Stays, InBlock, Observations
  <1> QED
    BY <1>1, <1>6, <1>7, <1>8, <1>9, ChainStep DEF RunsKept

LEMMA ReorganiseInv == ASSUME DeployInv, Reorganise PROVE DeployInv'
  <1>0. PICK d \in 1..Depth :
          LET undone == {chain[h].tx : h \in (Len(chain) - d + 1)..Len(chain)} \ {None}
              under  == top - (Len(chain) - d) IN
            /\ d <= Len(chain) /\ top <= Len(chain) - d + Depth
            /\ chain' = SubSeq(chain, 1, Len(chain) - d)
            /\ pool' = pool \cup undone /\ seen' = seen \cup undone
            /\ deepest' = IF under > deepest THEN under ELSE deepest
    BY DEF Reorganise
  <1> DEFINE n == Len(chain)
             left == n - d
             undone == {chain[h].tx : h \in (left + 1)..n} \ {None}
  <1>1. /\ DeployTypeOK /\ ChainInv /\ n \in Nat /\ reorgs \in Nat /\ reorgs < MaxReorgs
        /\ MaxReorgs \in Nat /\ top \in Nat /\ n <= top /\ top' = top /\ reorgs' = reorgs + 1
        /\ RunsKept /\ Depth \in Nat /\ deepest \in 0..Depth
    BY Numbers DEF DeployInv, DeployTypeOK, Reorganise, RunsKept
  <1>2. d \in Nat /\ d >= 1 /\ left \in Nat /\ left < n /\ left <= n
    BY <1>0, <1>1
  <1>3. /\ Len(chain') = left
        /\ \A h \in 1..left : chain'[h] = chain[h]
    BY <1>0, <1>1, <1>2 DEF DeployTypeOK
  <1>4. Mined = Mined' \cup undone
    <2>1. \A x : x \in Mined' <=> x # None /\ \E h \in 1..left : chain[h].tx = x
      BY <1>3 DEF Mined
    <2>2. \A x : x \in Mined <=> x # None /\ \E h \in 1..n : chain[h].tx = x
      BY DEF Mined
    <2>3. \A x : x \in undone <=> x # None /\ \E h \in (left + 1)..n : chain[h].tx = x
      OBVIOUS
    <2>4. \A h : h \in 1..n <=> h \in 1..left \/ h \in (left + 1)..n
      BY <1>1, <1>2
    <2> QED
      BY <2>1, <2>2, <2>3, <2>4
  <1>5. undone \cap Mined' = {}
    <2> SUFFICES ASSUME NEW x \in undone, x \in Mined' PROVE FALSE
      OBVIOUS
    <2>1. x # None /\ \E h \in (left + 1)..n : chain[h].tx = x
      OBVIOUS
    <2>2. \E h \in 1..left : chain[h].tx = x
      BY <1>3 DEF Mined
    <2>3. \A h, j \in 1..n : chain[h].tx # None /\ chain[h].tx = chain[j].tx => h = j
      BY <1>1 DEF ChainInv
    <2>4. PICK h \in (left + 1)..n, j \in 1..left : chain[h].tx = x /\ chain[j].tx = x
      BY <2>1, <2>2
    <2>5. h \in 1..n /\ j \in 1..n /\ h # j
      BY <1>1, <1>2, <2>4
    <2> QED
      BY <2>1, <2>3, <2>4, <2>5
  <1>6. /\ pool' = pool \cup undone /\ seen' = seen \cup undone
        /\ undone \subseteq Txs /\ Alive' = Alive /\ pool' \cap Mined' = {}
    <2>1. pool' = pool \cup undone /\ seen' = seen \cup undone
      BY <1>0
    <2>2. Mined \subseteq Txs /\ pool \cap Mined = {}
      BY <1>1, ChainTypes DEF ChainInv
    <2> HIDE DEF undone
    <2> QED
      BY <1>4, <1>5, <2>1, <2>2 DEF Alive
  <1>7. DeployTypeOK'
    <2>1. chain' \in Seq(ChainBlocks)
      <3>1. chain \in Seq(ChainBlocks) /\ chain' = SubSeq(chain, 1, left)
        BY <1>0, <1>1 DEF DeployTypeOK
      <3> QED
        BY <1>2, <3>1
    <2>2. deepest' \in 0..Depth
      BY <1>0, <1>1, <1>2
    <2> HIDE DEF undone
    <2> QED
      BY <1>1, <1>2, <1>3, <1>6, <2>1, <2>2 DEF DeployTypeOK, RunsKept, ChainBlocks
  <1>8. ChainInv'
    <2> HIDE DEF undone
    <2>1. \A h \in 1..Len(chain') : chain'[h].fork <= reorgs'
      <3>1. ASSUME NEW h \in 1..left PROVE chain[h].fork <= reorgs + 1
        <4>1. chain[h].fork \in Nat /\ chain[h].fork <= reorgs
          BY <1>1, <1>2, ChainTypes, Numbers DEF ChainInv, ChainBlocks
        <4> QED
          BY <1>1, <4>1
      <3> QED
        BY <1>1, <1>3, <3>1
    <2>2. \A h, j \in 1..Len(chain') :
            chain'[h].tx # None /\ chain'[h].tx = chain'[j].tx => h = j
      <3>1. \A h, j \in 1..n : chain[h].tx # None /\ chain[h].tx = chain[j].tx => h = j
        BY <1>1 DEF ChainInv
      <3>2. \A h \in 1..left : h \in 1..n
        BY <1>1, <1>2
      <3> QED
        BY <1>3, <3>1, <3>2
    <2>3. \A x \in Alive' : x.by \in Runs => x = Tx(x.by)' /\ pc'[x.by] \notin BeforeSend
      BY <1>1, <1>6 DEF ChainInv, RunsKept, Tx
    <2> QED
      BY <1>1, <1>6, <2>1, <2>2, <2>3 DEF ChainInv
  <1>9. ASSUME NEW at \in Observations, NEW x \in Txs, Observed(at, x) PROVE Observed(at, x)'
    <2>1. at.number \in Nat /\ at.number >= 1 /\ at.fork \in Nat /\ at.fork <= reorgs
      BY <1>9, Numbers DEF Observations, Observed
    <2>2. InBlock(at)' => InBlock(at) /\ chain'[at.number] = chain[at.number]
      BY <1>2, <1>3, <2>1 DEF InBlock
    <2> QED
      BY <1>1, <1>9, <2>1, <2>2 DEF Observed
  <1>10. ASSUME NEW at \in Observations, Confirmed(at), Stays(at) PROVE Stays(at)'
    <2>1. at.number \in Nat /\ at.number >= 1
      BY Numbers DEF Observations
    <2>2. SUFFICES ASSUME deepest' < Confirmations PROVE InBlock(at)'
      BY DEF Stays
    <2>3. deepest < Confirmations /\ top - left < Confirmations
      BY <1>0, <1>1, <1>2, <2>2, Numbers
    <2>4. at.number <= left
      BY <1>1, <1>2, <1>10, <2>1, <2>3, Numbers DEF Confirmed
    <2>5. InBlock(at)
      BY <1>10, <2>3 DEF Stays
    <2> QED
      BY <1>1, <1>2, <1>3, <2>1, <2>4, <2>5 DEF InBlock
  <1> QED
    BY <1>1, <1>7, <1>8, <1>9, <1>10, ChainStep DEF RunsKept

LEMMA PoolStep ==
  ASSUME DeployInv, RunsKept, DeployTypeOK', ChainInv', UNCHANGED <<chain, top, reorgs, deepest>>
  PROVE  DeployInv'
  <1>1. \A at \in Observations, t \in Txs : Observed(at, t) => Observed(at, t)'
    BY DEF Observed, InBlock
  <1>2. \A at \in Observations : Stays(at) => Stays(at)'
    BY DEF Stays, InBlock
  <1> QED
    BY <1>1, <1>2, ChainStep DEF RunsKept, DeployInv, DeployTypeOK

LEMMA ForgetInv == ASSUME DeployInv, Forget PROVE DeployInv'
  <1>1. /\ DeployTypeOK /\ ChainInv /\ RunsKept /\ UNCHANGED <<chain, top, reorgs, deepest>>
        /\ Mined' = Mined
    BY DEF DeployInv, Forget, RunsKept, Mined
  <1>2. pool' \subseteq pool /\ seen' \subseteq pool' /\ Alive' \subseteq Alive
    BY <1>1 DEF Forget, DeployTypeOK, Alive
  <1>3. DeployTypeOK'
    BY <1>1, <1>2 DEF DeployTypeOK, RunsKept
  <1>4. ChainInv'
    BY <1>1, <1>2 DEF ChainInv, RunsKept, Tx
  <1> QED
    BY <1>1, <1>3, <1>4, PoolStep

LEMMA SendByHandInv == ASSUME DeployInv, SendByHand PROVE DeployInv'
  <1> DEFINE t == [by |-> Wallet, nonce |-> PendingNonce]
  <1>1. /\ DeployTypeOK /\ ChainInv /\ RunsKept /\ UNCHANGED <<chain, top, reorgs, deepest>>
        /\ Mined' = Mined /\ pool' = pool \cup {t} /\ seen' = seen \cup {t}
        /\ \A x \in Alive : x.by # Wallet
    BY DEF DeployInv, SendByHand, RunsKept, Mined, Alive
  <1>2. t \in Txs /\ t.by = Wallet /\ Wallet \notin Runs /\ Alive' = Alive \cup {t}
    BY <1>1, PendingNonceType, Names DEF Txs, Senders, Alive
  <1> HIDE DEF t
  <1>3. DeployTypeOK'
    BY <1>1, <1>2 DEF DeployTypeOK, RunsKept
  <1>4. ChainInv'
    <2>1. \A x \in Alive' : x.by \in Runs => x = Tx(x.by)' /\ pc'[x.by] \notin BeforeSend
      BY <1>1, <1>2 DEF ChainInv, RunsKept, Tx
    <2>2. t \notin Mined
      BY <1>1, <1>2 DEF Alive
    <2> QED
      BY <1>1, <1>2, <2>1, <2>2 DEF ChainInv
  <1> QED
    BY <1>1, <1>3, <1>4, PoolStep

-----------------------------------------------------------------------------
(* A run moves.                                                            *)

Still == UNCHANGED <<chain, top, reorgs, deepest>>

\* What the step of a run leaves to the others.
Elsewhere(r) ==
  \A q \in Runs \ {r} :
    /\ pc'[q] = pc[q] /\ told'[q] = told[q] /\ nonce'[q] = nonce[q]
    /\ first'[q] = first[q] /\ second'[q] = second[q] /\ temporary'[q] = temporary[q]
    /\ q \in sent' <=> q \in sent

ManifestsKept == \A n \in Nonces : manifests[n] # None => manifests'[n] = manifests[n]

LEMMA RunStep ==
  ASSUME DeployInv, DeployTypeOK', ChainInv', Still, NEW r \in Runs, Elsewhere(r),
         ManifestsKept, RunInv(r)',
         \A n \in Nonces : manifests'[n] # manifests[n] => ManifestInv(n)'
  PROVE  DeployInv'
  <1>1. chain' = chain /\ top' = top /\ reorgs' = reorgs /\ deepest' = deepest
    BY DEF Still
  <1>2. \A at, t : Observed(at, t)' <=> Observed(at, t)
    BY <1>1 DEF Observed, InBlock
  <1>3. \A at : (Confirmed(at)' <=> Confirmed(at)) /\ (Stays(at)' <=> Stays(at))
    BY <1>1 DEF Confirmed, Stays, InBlock
  <1>4. ASSUME NEW q \in Runs, q # r PROVE RunInv(q)'
    <2>1. /\ RunInv(q) /\ pc'[q] = pc[q] /\ told'[q] = told[q] /\ nonce'[q] = nonce[q]
          /\ first'[q] = first[q] /\ second'[q] = second[q] /\ temporary'[q] = temporary[q]
          /\ q \in sent' <=> q \in sent
      BY <1>4 DEF Elsewhere, DeployInv
    <2>2. nonce[q] \in Nonces /\ Tx(q)' = Tx(q)
      BY <2>1 DEF DeployInv, DeployTypeOK, Tx
    <2>3. manifests[nonce[q]] # None => manifests'[nonce'[q]] = manifests[nonce[q]]
      BY <2>1, <2>2 DEF ManifestsKept
    <2> QED
      BY <1>2, <1>3, <2>1, <2>2, <2>3 DEF RunInv
  <1>5. ASSUME NEW n \in Nonces PROVE ManifestInv(n)'
    <2>1. CASE manifests'[n] = manifests[n]
      <3>1. ManifestInv(n)
        BY DEF DeployInv
      <3> QED
        BY <1>2, <1>3, <2>1, <3>1 DEF ManifestInv
    <2>2. CASE manifests'[n] # manifests[n]
      BY <2>2
    <2> QED
      BY <2>1, <2>2
  <1> QED
    BY <1>4, <1>5 DEF DeployInv

\* Steps that send nothing and choose no nonce.
Quiet(r) ==
  /\ UNCHANGED <<chain, top, reorgs, deepest, pool, seen, sent, nonce>>
  /\ Elsewhere(r) /\ (pc'[r] \in BeforeSend => pc[r] \in BeforeSend)

LEMMA QuietChain ==
  ASSUME DeployInv, NEW r \in Runs, Quiet(r)
  PROVE  ChainInv' /\ Still
  <1>1. /\ ChainInv /\ chain' = chain /\ reorgs' = reorgs /\ pool' = pool /\ Mined' = Mined
        /\ Alive' = Alive /\ nonce' = nonce /\ Still
    BY DEF DeployInv, Quiet, Mined, Alive, Still
  <1>2. \A t \in Alive : t.by \in Runs => t = Tx(t.by)' /\ pc'[t.by] \notin BeforeSend
    BY <1>1 DEF ChainInv, Quiet, Elsewhere, Tx
  <1> QED
    BY <1>1, <1>2 DEF ChainInv

LEMMA QuietStep ==
  ASSUME DeployInv, DeployTypeOK', NEW r \in Runs, Quiet(r), manifests' = manifests, RunInv(r)'
  PROVE  DeployInv'
  <1>1. ManifestsKept /\ Elsewhere(r)
    BY DEF ManifestsKept, Quiet
  <1> QED
    BY <1>1, QuietChain, RunStep

\* What is known of a run before its step.
LEMMA RunTypes ==
  ASSUME DeployInv, NEW r \in Runs
  PROVE  /\ DeployTypeOK /\ ChainInv /\ RunInv(r) /\ pc[r] \in States /\ told[r] \in Answers \cup {None}
         /\ nonce[r] \in Nonces /\ Tx(r) \in Txs
         /\ first[r] \in Observations \cup {None} /\ second[r] \in Observations \cup {None}
  BY DEF DeployInv, DeployTypeOK, Tx, Txs, Senders

LEMMA ReadPendingInv == ASSUME DeployInv, NEW r \in Runs, ReadPending(r) PROVE DeployInv'
  <1>1. /\ pc[r] = "idle" /\ DeployTypeOK /\ ChainInv /\ RunInv(r) /\ Still /\ pool' = pool
        /\ pc' \in [Runs -> States] /\ told' \in [Runs -> Answers \cup {None}] /\ manifests' = manifests
        /\ second' = second /\ sent' = sent
    BY RunTypes DEF ReadPending, Still, Goes, Ends, DeployTypeOK, States, Answers
  <1>2. nonce' \in [Runs -> Nonces]
    BY <1>1, PendingNonceType DEF ReadPending, DeployTypeOK
  <1>3. DeployTypeOK'
    BY <1>1, <1>2 DEF ReadPending, DeployTypeOK
  <1>4. Elsewhere(r)
    BY <1>1 DEF ReadPending, Elsewhere, Goes, Ends, DeployTypeOK
  <1>5. ChainInv'
    <2>1. Mined' = Mined /\ Alive' = Alive /\ chain' = chain /\ reorgs' = reorgs
      BY <1>1 DEF Still, Mined, Alive
    <2>2. \A t \in Alive : t.by # r
      BY <1>1 DEF ChainInv, BeforeSend
    <2>3. \A t \in Alive : t.by \in Runs => t = Tx(t.by)' /\ pc'[t.by] \notin BeforeSend
      BY <1>1, <1>4, <2>2 DEF ChainInv, Elsewhere, Tx
    <2> QED
      BY <1>1, <2>1, <2>3 DEF ChainInv
  <1>6. RunInv(r)'
    <2>1. r \notin sent /\ told[r] = None /\ second[r] = None
      BY <1>1 DEF RunInv, BeforeSend
    <2>2. \/ pc'[r] = "latest" /\ told'[r] = None
          \/ pc'[r] = "ended" /\ told'[r] = "not ready"
      BY <1>1, <2>1 DEF ReadPending, Goes, Ends, DeployTypeOK
    <2>3. told'[r] # "finalized"
      BY <2>2, Names DEF Answers
    <2> QED
      BY <1>1, <2>1, <2>2, <2>3, Names DEF RunInv, BeforeSend, Observing, Persisting
  <1>7. ManifestsKept
    BY <1>1 DEF ManifestsKept
  <1> QED
    BY <1>1, <1>3, <1>4, <1>5, <1>6, <1>7, RunStep

\* The other readings of the gate.
LEMMA GateInv == 
  ASSUME DeployInv, NEW r \in Runs,
         ReadLatest(r) \/ ReadCreateAddress(r) \/ ReadManifest(r) \/ Estimate(r)
  PROVE  DeployInv'
  <1>1. DeployTypeOK /\ RunInv(r) /\ pc[r] \in BeforeSend /\ manifests' = manifests
    BY RunTypes DEF ReadLatest, ReadCreateAddress, ReadManifest, Estimate, BeforeSend
  <1>2. DeployTypeOK'
    <2>1. CASE ReadLatest(r)
      <3>1. {t.by : t \in Mined} \in SUBSET Senders
        <4>1. Mined \subseteq Txs
          BY <1>1, ChainTypes
        <4>2. \A t \in Txs : t.by \in Senders
          BY DEF Txs
        <4> QED
          BY <4>1, <4>2
      <3>2. confirmedAtGate' \in [Runs -> SUBSET Senders]
        <4>1. PICK by \in SUBSET Senders : by = {t.by : t \in Mined}
          BY <3>1
        <4>2. confirmedAtGate \in [Runs -> SUBSET Senders]
          BY <1>1 DEF DeployTypeOK
        <4>3. \/ confirmedAtGate' = [confirmedAtGate EXCEPT ![r] = by]
              \/ confirmedAtGate' = confirmedAtGate
          BY <2>1, <4>1 DEF ReadLatest
        <4> QED
          BY <4>2, <4>3
      <3>3. pc' \in [Runs -> States] /\ told' = told /\ ready' \in [Runs -> BOOLEAN]
        BY <1>1, <2>1 DEF DeployTypeOK, ReadLatest, Observes, Goes, States
      <3> QED
        BY <1>1, <2>1, <3>2, <3>3 DEF DeployTypeOK, ReadLatest
    <2>2. CASE ReadCreateAddress(r) \/ ReadManifest(r)
      BY <1>1, <2>2 DEF DeployTypeOK, ReadCreateAddress, ReadManifest, Observes, Goes, States
    <2>3. CASE Estimate(r)
      BY <1>1, <2>3 DEF DeployTypeOK, Estimate, Ends, Goes, States, Answers
    <2> QED
      BY <2>1, <2>2, <2>3
  <1>3. \/ pc' = [pc EXCEPT ![r] = "create"] /\ told' = told
        \/ pc' = [pc EXCEPT ![r] = "manifest"] /\ told' = told
        \/ pc' = [pc EXCEPT ![r] = "estimate"] /\ told' = told
        \/ pc' = [pc EXCEPT ![r] = "send"] /\ told' = told
        \/ pc' = [pc EXCEPT ![r] = "ended"] /\ told' = [told EXCEPT ![r] = "not ready"]
    BY DEF ReadLatest, ReadCreateAddress, ReadManifest, Estimate, Goes, Ends
  <1>4. Quiet(r) /\ UNCHANGED <<sent, nonce, first, second, temporary, manifests>>
    <2>1. UNCHANGED <<chain, top, reorgs, deepest, pool, seen, sent, nonce, first, second,
                      temporary, manifests>>
      BY DEF ReadLatest, ReadCreateAddress, ReadManifest, Estimate
    <2> QED
      BY <1>1, <1>3, <2>1 DEF Quiet, Elsewhere, DeployTypeOK
  <1>5. RunInv(r)'
    <2>1. r \notin sent /\ told[r] = None /\ second[r] = None
      BY <1>1 DEF RunInv, BeforeSend
    <2>2. \/ pc'[r] \in BeforeSend /\ told'[r] = None
          \/ pc'[r] = "ended" /\ told'[r] = "not ready"
      BY <1>1, <1>3, <2>1 DEF DeployTypeOK, BeforeSend
    <2>3. told'[r] # "finalized"
      BY <2>2, Names DEF Answers
    <2> QED
      BY <1>4, <2>1, <2>2, <2>3 DEF RunInv, BeforeSend, Observing, Persisting
  <1> QED
    BY <1>1, <1>2, <1>4, <1>5, QuietStep

LEMMA SendInv == ASSUME DeployInv, NEW r \in Runs, Send(r) PROVE DeployInv'
  <1> DEFINE t == Tx(r)
  <1>1. /\ DeployTypeOK /\ ChainInv /\ RunInv(r) /\ pc[r] = "send" /\ t \in Txs /\ t.by = r
        /\ Still /\ UNCHANGED <<nonce, first, second, temporary, manifests>>
    BY RunTypes DEF Send, Still, Tx
  <1>2. \/ pool' = pool \cup {t} /\ seen' = seen \cup {t} /\ sent' = sent \cup {r}
        \/ pool' = pool /\ seen' = seen /\ sent' = sent
    BY DEF Send, SendOnce
  <1>3. \/ pc' = [pc EXCEPT ![r] = "wait"] /\ told' = told
        \/ pc' = [pc EXCEPT ![r] = "ended"] /\ told' = [told EXCEPT ![r] = "ambiguous send"]
    BY DEF Send, SendFailure, Goes, Ends
  <1> HIDE DEF t
  <1>4. DeployTypeOK'
    <2>1. pool' \subseteq Txs /\ seen' \subseteq pool' /\ sent' \subseteq Runs
      BY <1>1, <1>2 DEF DeployTypeOK
    <2>2. pc' \in [Runs -> States] /\ told' \in [Runs -> Answers \cup {None}]
      BY <1>1, <1>3 DEF DeployTypeOK, States, Answers
    <2>3. UNCHANGED <<chain, top, reorgs, deepest, nonce, ready, first, second,
                      confirmedAtGate, temporary, manifests>>
      BY DEF Send
    <2> QED
      BY <1>1, <2>1, <2>2, <2>3 DEF DeployTypeOK
  <1>5. Elsewhere(r)
    BY <1>1, <1>2, <1>3 DEF Elsewhere, DeployTypeOK
  <1>6. ChainInv'
    <2>1. /\ Mined' = Mined /\ chain' = chain /\ reorgs' = reorgs
          /\ Alive' \subseteq Alive \cup {t} /\ pool' \subseteq pool \cup {t}
      BY <1>1, <1>2 DEF Still, Mined, Alive
    <2>2. \A x \in Alive : x.by # r
      BY <1>1 DEF ChainInv, BeforeSend
    <2>3. t \notin Mined
      BY <1>1, <2>2 DEF Alive
    <2>4. ASSUME NEW x \in Alive', x.by \in Runs
          PROVE  x = Tx(x.by)' /\ pc'[x.by] \notin BeforeSend
      <3>1. CASE x = t
        BY <1>1, <1>3, <3>1 DEF t, Tx, BeforeSend, DeployTypeOK
      <3>2. CASE x # t
        BY <1>1, <1>5, <2>1, <2>2, <2>4, <3>2 DEF ChainInv, Elsewhere, Tx
      <3> QED
        BY <3>1, <3>2
    <2>5. \A x, y \in Alive' : x.by = y.by => x = y
      BY <1>1, <2>1, <2>2 DEF ChainInv
    <2> QED
      BY <1>1, <2>1, <2>3, <2>4, <2>5 DEF ChainInv
  <1>7. RunInv(r)'
    <2>1. r \notin sent /\ told[r] = None /\ second[r] = None
      BY <1>1 DEF RunInv, BeforeSend
    <2>2. \/ pc'[r] = "wait" /\ told'[r] = None
          \/ pc'[r] = "ended" /\ told'[r] = "ambiguous send"
      BY <1>1, <1>3, <2>1 DEF DeployTypeOK
    <2>3. told'[r] # "finalized" /\ told'[r] # "not ready"
      BY <2>2, Names DEF Answers
    <2> QED
      BY <1>1, <2>1, <2>2, <2>3 DEF RunInv, BeforeSend, Observing, Persisting
  <1>8. ManifestsKept
    BY <1>1 DEF ManifestsKept
  <1> QED
    BY <1>1, <1>4, <1>5, <1>6, <1>7, <1>8, RunStep

\* A run that ends otherwise than finalized and than not ready.
LEMMA EndsInv ==
  ASSUME DeployInv, DeployTypeOK', NEW r \in Runs, Quiet(r), manifests' = manifests,
         NEW answer \in {"evidence rejected", "pending reconciliation", "manifest not persisted"},
         Ends(r, answer)
  PROVE  DeployInv'
  <1>1. pc'[r] = "ended" /\ told'[r] = answer
    BY RunTypes DEF Ends, DeployTypeOK
  <1>2. RunInv(r)'
    BY <1>1 DEF RunInv, BeforeSend, Observing, Persisting
  <1> QED
    BY <1>2, QuietStep

LEMMA StepTypes ==
  ASSUME DeployInv, NEW r \in Runs, NEW where \in States, Goes(r, where)
  PROVE  /\ pc' \in [Runs -> States] /\ told' \in [Runs -> Answers \cup {None}]
         /\ pc'[r] = where /\ told'[r] = told[r]
  BY DEF DeployInv, DeployTypeOK, Goes

LEMMA EndTypes ==
  ASSUME DeployInv, NEW r \in Runs, NEW answer \in Answers, Ends(r, answer)
  PROVE  pc' \in [Runs -> States] /\ told' \in [Runs -> Answers \cup {None}]
  BY DEF DeployInv, DeployTypeOK, Ends, States

\* What the receipt of the transaction of a run names.
LEMMA ReceiptNames ==
  ASSUME DeployInv, NEW r \in Runs, Tx(r) \in Mined
  PROVE  /\ Receipt(Tx(r)) \in Observations
         /\ Succeeded(Tx(r)) => Observed(Receipt(Tx(r)), Tx(r))
  <1> DEFINE t == Tx(r)
             h == HeightOf(t)
             at == Receipt(t)
  <1>1. DeployTypeOK /\ ChainInv /\ t \in Txs /\ t # None
    BY RunTypes, Names
  <1> HIDE DEF t
  <1>2. h \in 1..Len(chain) /\ chain[h].tx = t
    <2>1. \E k \in 1..Len(chain) : chain[k].tx = t
      BY <1>1, ChainTypes DEF t
    <2> QED
      BY <2>1 DEF HeightOf
  <1> HIDE DEF h
  <1>3. at = [number |-> h, fork |-> chain[h].fork]
    BY DEF Receipt, h
  <1>4. /\ Len(chain) \in Nat /\ Len(chain) <= MaxHeight /\ chain[h].fork \in 0..MaxReorgs
        /\ chain[h].fork <= reorgs
    BY <1>1, <1>2, ChainTypes, Numbers DEF DeployTypeOK, ChainInv, ChainBlocks
  <1>5. at \in Observations
    <2>1. h \in 1..MaxHeight
      BY <1>2, <1>4, Numbers
    <2> QED
      BY <1>3, <1>4, <2>1 DEF Observations
  <1>6. ASSUME Succeeded(t) PROVE chain[h].ok
    BY <1>1, <1>2, <1>6 DEF Succeeded, ChainInv
  <1> QED
    BY <1>2, <1>3, <1>4, <1>5, <1>6 DEF Observed, t

LEMMA WaitInv == ASSUME DeployInv, NEW r \in Runs, Wait(r) PROVE DeployInv'
  <1>1. /\ DeployTypeOK /\ RunInv(r) /\ pc[r] = "wait"
        /\ UNCHANGED <<chain, top, reorgs, deepest, pool, seen, sent, nonce, ready, second,
                       confirmedAtGate, temporary, manifests>>
    BY RunTypes DEF Wait
  <1>2. \/ /\ Tx(r) \in Mined /\ first' = [first EXCEPT ![r] = Receipt(Tx(r))]
           /\ Succeeded(Tx(r)) /\ Goes(r, "code")
        \/ /\ Tx(r) \in Mined /\ first' = [first EXCEPT ![r] = Receipt(Tx(r))]
           /\ Ends(r, "evidence rejected")
        \/ Ends(r, "pending reconciliation") /\ first' = first
    BY DEF Wait
  <1>3. DeployTypeOK'
    <2>1. first' \in [Runs -> Observations \cup {None}]
      BY <1>1, <1>2, ReceiptNames DEF DeployTypeOK
    <2>2. pc' \in [Runs -> States] /\ told' \in [Runs -> Answers \cup {None}]
      BY <1>2, StepTypes, EndTypes DEF States, Answers
    <2> QED
      BY <1>1, <2>1, <2>2 DEF DeployTypeOK
  <1>4. Quiet(r)
    BY <1>1, <1>2 DEF Quiet, Elsewhere, Goes, Ends, DeployTypeOK, BeforeSend
  <1>5. CASE Ends(r, "evidence rejected") \/ Ends(r, "pending reconciliation")
    BY <1>1, <1>3, <1>4, <1>5, EndsInv
  <1>6. CASE /\ Tx(r) \in Mined /\ first' = [first EXCEPT ![r] = Receipt(Tx(r))]
             /\ Succeeded(Tx(r)) /\ Goes(r, "code")
    <2>1. /\ pc'[r] = "code" /\ told'[r] = None /\ second'[r] = None /\ (r \in sent' <=> r \in sent)
          /\ Tx(r)' = Tx(r)
      BY <1>1, <1>6, StepTypes DEF States, RunInv, BeforeSend, Tx
    <2>2. first'[r] # None /\ Observed(first'[r], Tx(r))
      <3>1. first'[r] = Receipt(Tx(r))
        BY <1>1, <1>6 DEF DeployTypeOK
      <3> QED
        BY <1>6, <3>1, ReceiptNames, Names
    <2>3. Observed(first[r], Tx(r))'
      BY <1>1, <2>1, <2>2 DEF Observed, InBlock
    <2>4. told'[r] # "not ready" /\ told'[r] # "finalized"
      BY <2>1, Names DEF Answers
    <2>5. RunInv(r)'
      BY <2>1, <2>2, <2>3, <2>4 DEF RunInv, BeforeSend, Observing, Persisting
    <2> QED
      BY <1>1, <1>3, <1>4, <2>5, QuietStep
  <1> QED
    BY <1>2, <1>5, <1>6

\* A step that moves nothing but the place of the run.
Moves(r, where) ==
  /\ Goes(r, where)
  /\ UNCHANGED <<chain, top, reorgs, deepest, pool, seen, sent, nonce, ready, first, second,
                 confirmedAtGate, temporary, manifests>>

LEMMA MovesInv ==
  ASSUME DeployInv, NEW r \in Runs, NEW where \in States \ BeforeSend, Moves(r, where), RunInv(r)'
  PROVE  DeployInv'
  <1>1. /\ DeployTypeOK /\ pc' = [pc EXCEPT ![r] = where] /\ told' = told
        /\ UNCHANGED <<chain, top, reorgs, deepest, pool, seen, sent, nonce, ready, first, second,
                       confirmedAtGate, temporary, manifests>>
    BY DEF DeployInv, Moves, Goes
  <1>2. DeployTypeOK'
    BY <1>1 DEF DeployTypeOK
  <1>3. Quiet(r)
    BY <1>1 DEF Quiet, Elsewhere, DeployTypeOK
  <1> QED
    BY <1>1, <1>2, <1>3, QuietStep

LEMMA StopsInv ==
  ASSUME DeployInv, NEW r \in Runs, pc[r] \notin BeforeSend,
         NEW answer \in {"evidence rejected", "pending reconciliation"}, Ends(r, answer),
         UNCHANGED <<chain, top, reorgs, deepest, pool, seen, sent, nonce, ready, first, second,
                     confirmedAtGate, temporary, manifests>>
  PROVE  DeployInv'
  <1>1. DeployTypeOK'
    BY EndTypes DEF DeployInv, DeployTypeOK, Answers
  <1>2. Quiet(r)
    BY DEF Quiet, Elsewhere, Ends, DeployInv, DeployTypeOK, BeforeSend
  <1> QED
    BY <1>1, <1>2, EndsInv

\* What a run that only moves still knows.
LEMMA MovesKnows ==
  ASSUME DeployInv, NEW r \in Runs, NEW where \in States, Moves(r, where)
  PROVE  /\ pc'[r] = where /\ told'[r] = told[r] /\ (r \in sent' <=> r \in sent)
         /\ first'[r] = first[r] /\ second'[r] = second[r] /\ temporary'[r] = temporary[r]
         /\ nonce'[r] = nonce[r] /\ manifests' = manifests /\ Tx(r)' = Tx(r)
         /\ \A at, t : Observed(at, t)' <=> Observed(at, t)
         /\ \A at : (Confirmed(at)' <=> Confirmed(at)) /\ (Stays(at)' <=> Stays(at))
         /\ InBlock(second[r])' <=> InBlock(second[r])
  BY StepTypes DEF Moves, Observed, Confirmed, Stays, InBlock, Tx

\* The readings of the chain that are compared with the receipt.
LEMMA ObserveInv ==
  ASSUME DeployInv, NEW r \in Runs,
         ReadCode(r) \/ ReadTransaction(r) \/ ReadBlock(r) \/ ReadHeight(r)
  PROVE  DeployInv'
  <1>1. /\ DeployTypeOK /\ RunInv(r) /\ pc[r] \in Observing \ {"reread"}
        /\ UNCHANGED <<chain, top, reorgs, deepest, pool, seen, sent, nonce, ready, first, second,
                       confirmedAtGate, temporary, manifests>>
    BY RunTypes DEF ReadCode, ReadTransaction, ReadBlock, ReadHeight, Observing
  <1>2. told[r] = None /\ told[r] # "not ready" /\ told[r] # "finalized"
    BY <1>1, Names DEF RunInv, Observing, Answers
  <1>3. CASE Ends(r, "evidence rejected") \/ Ends(r, "pending reconciliation")
    BY <1>1, <1>3, StopsInv DEF Observing, BeforeSend
  <1>4. CASE /\ Goes(r, "transaction") \/ Goes(r, "block")
             /\ pc[r] \in {"code", "transaction"}
    <2>1. PICK where \in {"transaction", "block"} : Moves(r, where)
      BY <1>1, <1>4 DEF Moves
    <2>2. RunInv(r)'
      BY <1>1, <1>2, <1>4, <2>1, MovesKnows
      DEF RunInv, BeforeSend, Observing, Persisting, States
    <2> QED
      BY <2>1, <2>2, MovesInv DEF States, BeforeSend
  <1>5. CASE Goes(r, "threshold") /\ pc[r] = "block" /\ second[r] = None
    <2>1. Moves(r, "threshold")
      BY <1>1, <1>5 DEF Moves
    <2>2. RunInv(r)'
      BY <1>1, <1>2, <1>5, <2>1, MovesKnows
      DEF RunInv, BeforeSend, Observing, Persisting, States
    <2> QED
      BY <2>1, <2>2, MovesInv DEF States, BeforeSend
  <1>6. CASE Goes(r, "open") /\ pc[r] = "block" /\ second[r] # None /\ Agrees(r)
    <2>1. Moves(r, "open")
      BY <1>1, <1>6 DEF Moves
    <2>2. second[r] = first[r] /\ Stays(second[r])
      BY <1>6 DEF Agrees, Stays
    <2>3. RunInv(r)'
      BY <1>1, <1>2, <1>6, <2>1, <2>2, MovesKnows
      DEF RunInv, BeforeSend, Observing, Persisting, States
    <2> QED
      BY <2>1, <2>3, MovesInv DEF States, BeforeSend
  <1>7. CASE Goes(r, "reread") /\ pc[r] = "threshold" /\ DeepEnough(r)
    <2>1. Moves(r, "reread")
      BY <1>1, <1>7 DEF Moves
    <2>2. Confirmed(first[r])
      <3>1. first[r] # None
        BY <1>1, <1>7 DEF RunInv, Observing
      <3>2. first[r].number \in Nat
        BY <3>1, RunTypes, Numbers DEF Observations
      <3> QED
        BY <1>1, <1>7, <3>2, Numbers DEF DeepEnough, Confirmed, DeployTypeOK
    <2>3. RunInv(r)'
      BY <1>1, <1>2, <1>7, <2>1, <2>2, MovesKnows
      DEF RunInv, BeforeSend, Observing, Persisting, States
    <2> QED
      BY <2>1, <2>3, MovesInv DEF States, BeforeSend
  <1> QED
    <2>1. CASE ReadCode(r) \/ ReadTransaction(r)
      BY <1>3, <1>4, <2>1 DEF ReadCode, ReadTransaction, Verifies
    <2>2. CASE ReadBlock(r)
      BY <1>3, <1>5, <1>6, <2>2 DEF ReadBlock, Verifies
    <2>3. CASE ReadHeight(r)
      BY <1>3, <1>7, <2>3 DEF ReadHeight
    <2> QED
      BY <2>1, <2>2, <2>3

LEMMA ReadReceiptInv == ASSUME DeployInv, NEW r \in Runs, ReadReceipt(r) PROVE DeployInv'
  <1>1. /\ DeployTypeOK /\ RunInv(r) /\ pc[r] = "reread"
        /\ UNCHANGED <<chain, top, reorgs, deepest, pool, seen, sent, nonce, ready, first,
                       confirmedAtGate, temporary, manifests>>
    BY RunTypes DEF ReadReceipt
  <1>2. told[r] = None /\ told[r] # "not ready" /\ told[r] # "finalized"
    BY <1>1, Names DEF RunInv, Answers
  <1>3. CASE /\ Ends(r, "evidence rejected") \/ Ends(r, "pending reconciliation")
             /\ second' = second
    BY <1>1, <1>3, StopsInv DEF BeforeSend
  <1>4. CASE /\ Succeeded(Tx(r)) /\ second' = [second EXCEPT ![r] = Receipt(Tx(r))]
             /\ Goes(r, "code")
    <2>1. Tx(r) \in Mined
      BY <1>1, <1>4, RunTypes, ChainTypes DEF Succeeded
    <2>2. Receipt(Tx(r)) \in Observations /\ Observed(Receipt(Tx(r)), Tx(r))
      BY <1>4, <2>1, ReceiptNames
    <2>3. /\ pc'[r] = "code" /\ told'[r] = told[r] /\ second'[r] = Receipt(Tx(r))
          /\ Tx(r)' = Tx(r) /\ pc' \in [Runs -> States] /\ told' \in [Runs -> Answers \cup {None}]
      BY <1>1, <1>4, StepTypes DEF States, DeployTypeOK, Tx
    <2>4. DeployTypeOK'
      BY <1>1, <1>4, <2>2, <2>3 DEF DeployTypeOK
    <2>5. Quiet(r)
      BY <1>1, <1>4, <2>3 DEF Quiet, Elsewhere, Goes, DeployTypeOK, BeforeSend
    <2>6. /\ \A at, t : Observed(at, t)' <=> Observed(at, t)
          /\ \A at : Confirmed(at)' <=> Confirmed(at)
      BY <1>1 DEF Observed, Confirmed, InBlock
    <2>7. RunInv(r)'
      BY <1>1, <1>2, <2>2, <2>3, <2>6 DEF RunInv, BeforeSend, Observing, Persisting
    <2> QED
      BY <1>1, <2>4, <2>5, <2>7, QuietStep
  <1> QED
    BY <1>3, <1>4 DEF ReadReceipt

LEMMA PersistInv ==
  ASSUME DeployInv, NEW r \in Runs, OpenTemporary(r) \/ FillTemporary(r)
  PROVE  DeployInv'
  <1>1. /\ DeployTypeOK /\ RunInv(r) /\ pc[r] \in {"open", "fill"}
        /\ UNCHANGED <<chain, top, reorgs, deepest, pool, seen, sent, nonce, ready, first, second,
                       confirmedAtGate, manifests>>
    BY RunTypes DEF OpenTemporary, FillTemporary
  <1>2. told[r] = None /\ told[r] # "not ready" /\ told[r] # "finalized"
    BY <1>1, Names DEF RunInv, Answers
  <1>3. \/ temporary' = [temporary EXCEPT ![r] = "partial"] /\ Goes(r, "fill")
        \/ temporary' = [temporary EXCEPT ![r] = "complete"] /\ Goes(r, "publish")
        \/ /\ Ends(r, "manifest not persisted")
           /\ temporary' = temporary \/ temporary' = [temporary EXCEPT ![r] = "none"]
    BY DEF OpenTemporary, FillTemporary, NotPersisted, Discards
  <1>4. DeployTypeOK'
    <2>1. pc' \in [Runs -> States] /\ told' \in [Runs -> Answers \cup {None}]
      BY <1>3, StepTypes, EndTypes DEF States, Answers
    <2>2. temporary' \in [Runs -> {"none", "partial", "complete"}]
      BY <1>1, <1>3 DEF DeployTypeOK
    <2> QED
      BY <1>1, <2>1, <2>2 DEF DeployTypeOK
  <1>5. Quiet(r)
    BY <1>1, <1>3 DEF Quiet, Elsewhere, Goes, Ends, DeployTypeOK, BeforeSend
  <1>6. CASE Ends(r, "manifest not persisted")
    BY <1>1, <1>4, <1>5, <1>6, EndsInv
  <1>7. CASE \/ Goes(r, "fill")
             \/ temporary' = [temporary EXCEPT ![r] = "complete"] /\ Goes(r, "publish")
    <2>1. /\ pc'[r] = "fill" \/ (pc'[r] = "publish" /\ temporary'[r] = "complete")
          /\ told'[r] = told[r] /\ Tx(r)' = Tx(r)
      BY <1>1, <1>7, StepTypes DEF States, DeployTypeOK, Tx
    <2>2. /\ \A at, t : Observed(at, t)' <=> Observed(at, t)
          /\ \A at : (Confirmed(at)' <=> Confirmed(at)) /\ (Stays(at)' <=> Stays(at))
      BY <1>1 DEF Observed, Confirmed, Stays, InBlock
    <2>3. RunInv(r)'
      BY <1>1, <1>2, <2>1, <2>2 DEF RunInv, BeforeSend, Observing, Persisting
    <2> QED
      BY <1>1, <1>4, <1>5, <2>3, QuietStep
  <1> QED
    BY <1>3, <1>6, <1>7

LEMMA PublishInv == ASSUME DeployInv, NEW r \in Runs, Publish(r) PROVE DeployInv'
  <1>1. /\ DeployTypeOK /\ RunInv(r) /\ pc[r] = "publish" /\ nonce[r] \in Nonces
        /\ UNCHANGED <<chain, top, reorgs, deepest, pool, seen, sent, nonce, ready, first, second,
                       confirmedAtGate>>
    BY RunTypes DEF Publish
  <1>2. told[r] = None /\ told[r] # "not ready" /\ told[r] # "finalized"
    BY <1>1, Names DEF RunInv, Answers
  <1>3. CASE NotPersisted(r) /\ manifests' = manifests
    <2>1. /\ Ends(r, "manifest not persisted")
          /\ temporary' = temporary \/ temporary' = [temporary EXCEPT ![r] = "none"]
      BY <1>3 DEF NotPersisted, Discards
    <2>2. DeployTypeOK'
      <3>1. pc' \in [Runs -> States] /\ told' \in [Runs -> Answers \cup {None}]
        BY <2>1, EndTypes DEF Answers
      <3>2. temporary' \in [Runs -> {"none", "partial", "complete"}]
        BY <1>1, <2>1 DEF DeployTypeOK
      <3> QED
        BY <1>1, <1>3, <3>1, <3>2 DEF DeployTypeOK
    <2>3. Quiet(r)
      BY <1>1, <2>1 DEF Quiet, Elsewhere, Ends, DeployTypeOK, BeforeSend
    <2> QED
      BY <1>3, <2>1, <2>2, <2>3, EndsInv
  <1>4. CASE /\ manifests[nonce[r]] = None
             /\ manifests' = [manifests EXCEPT ![nonce[r]] = Manifest(r)]
             /\ Goes(r, "clean") /\ temporary' = temporary
    <2> DEFINE m == Manifest(r)
               n == nonce[r]
    <2>1. /\ m \in Manifests /\ m # None /\ m.by = r /\ m.at = second[r] /\ m.whole
          /\ second[r] = first[r] /\ second[r] # None
      <3>1. second[r] \in Observations /\ second[r] = first[r] /\ temporary[r] = "complete"
        BY <1>1, RunTypes, Names DEF RunInv, Persisting
      <3>2. m \in Manifests
        BY <3>1 DEF Manifest, Manifests
      <3> QED
        BY <3>1, <3>2, Names DEF Manifest
    <2>2. /\ pc' \in [Runs -> States] /\ told' \in [Runs -> Answers \cup {None}]
          /\ pc'[r] = "clean" /\ told'[r] = told[r]
      BY <1>4, StepTypes DEF States
    <2> HIDE DEF m
    <2>3. manifests' \in [Nonces -> Manifests \cup {None}] /\ manifests'[n] = m
      BY <1>1, <1>4, <2>1 DEF DeployTypeOK, m
    <2>4. DeployTypeOK'
      BY <1>1, <1>4, <2>2, <2>3 DEF DeployTypeOK
    <2>5. Quiet(r)
      BY <1>1, <1>4 DEF Quiet, Elsewhere, Goes, DeployTypeOK, BeforeSend
    <2>6. /\ \A at, t : Observed(at, t)' <=> Observed(at, t)
          /\ \A at : (Confirmed(at)' <=> Confirmed(at)) /\ (Stays(at)' <=> Stays(at))
          /\ Tx(r)' = Tx(r)
      BY <1>1 DEF Observed, Confirmed, Stays, InBlock, Tx
    <2>7. RunInv(r)'
      BY <1>1, <1>2, <2>1, <2>2, <2>3, <2>6 DEF RunInv, BeforeSend, Observing, Persisting
    <2>8. ManifestsKept /\ \A k \in Nonces : manifests'[k] # manifests[k] => k = n
      BY <1>1, <1>4 DEF ManifestsKept, DeployTypeOK
    <2>9. ManifestInv(n)'
      <3>1. Observed(m.at, [by |-> m.by, nonce |-> n]) /\ Confirmed(m.at) /\ Stays(m.at)
        BY <1>1, <2>1 DEF RunInv, Persisting, Tx
      <3> QED
        BY <1>1, <2>1, <2>3, <2>6, <3>1 DEF ManifestInv
    <2>10. ASSUME NEW k \in Nonces, manifests'[k] # manifests[k] PROVE ManifestInv(k)'
      <3>1. k = n
        BY <2>8, <2>10
      <3> QED
        BY <2>9, <3>1, <1>1 DEF ManifestInv
    <2> QED
      BY <2>4, <2>5, <2>7, <2>8, <2>10, QuietChain, RunStep DEF Quiet
  <1> QED
    BY <1>3, <1>4 DEF Publish

LEMMA CleanUpInv == ASSUME DeployInv, NEW r \in Runs, CleanUp(r) PROVE DeployInv'
  <1>1. /\ DeployTypeOK /\ RunInv(r) /\ pc[r] = "clean" /\ Ends(r, "finalized")
        /\ temporary' = temporary \/ temporary' = [temporary EXCEPT ![r] = "none"]
        /\ UNCHANGED <<chain, top, reorgs, deepest, pool, seen, sent, nonce, ready, first, second,
                       confirmedAtGate, manifests>>
    BY RunTypes DEF CleanUp, Discards
  <1>2. DeployTypeOK'
    <2>1. pc' \in [Runs -> States] /\ told' \in [Runs -> Answers \cup {None}]
      BY <1>1, EndTypes DEF Answers
    <2>2. temporary' \in [Runs -> {"none", "partial", "complete"}]
      BY <1>1 DEF DeployTypeOK
    <2> QED
      BY <1>1, <2>1, <2>2 DEF DeployTypeOK
  <1>3. Quiet(r)
    BY <1>1 DEF Quiet, Elsewhere, Ends, DeployTypeOK, BeforeSend
  <1>4. RunInv(r)'
    <2>1. pc'[r] = "ended" /\ told'[r] = "finalized"
      BY <1>1 DEF Ends, DeployTypeOK
    <2> QED
      BY <1>1, <2>1 DEF RunInv, BeforeSend, Observing, Persisting
  <1> QED
    BY <1>1, <1>2, <1>3, <1>4, QuietStep

LEMMA DieInv == ASSUME DeployInv, NEW r \in Runs, Die(r) PROVE DeployInv'
  <1>1. /\ RunInv(r) /\ pc[r] # "ended" /\ Goes(r, "dead")
        /\ UNCHANGED <<chain, top, reorgs, deepest, pool, seen, sent, nonce, ready, first, second,
                       confirmedAtGate, temporary, manifests>>
    BY RunTypes DEF Die
  <1>2. told[r] = None /\ told[r] # "not ready" /\ told[r] # "finalized"
    BY <1>1, Names DEF RunInv, Answers
  <1>3. Moves(r, "dead")
    BY <1>1 DEF Moves
  <1>4. RunInv(r)'
    <2>1. second[r] \in Observations \cup {None}
      BY RunTypes
    <2> QED
      BY <1>1, <1>2, <1>3, MovesKnows DEF RunInv, BeforeSend, Observing, Persisting, States
  <1> QED
    BY <1>3, <1>4, MovesInv DEF States, BeforeSend

LEMMA DeployInitInv == DeployInit => DeployInv
  <1> SUFFICES ASSUME DeployInit PROVE DeployInv
    OBVIOUS
  <1>1. DeployTypeOK
    <2>1. 0 \in Nonces
      BY SendersFinite DEF Nonces
    <2> QED
      BY <2>1, Numbers DEF DeployInit, DeployTypeOK, States, Answers
  <1>2. Mined = {} /\ Alive = {}
    BY DEF DeployInit, Mined, Alive
  <1>3. ChainInv
    BY <1>2 DEF DeployInit, ChainInv
  <1>4. \A r \in Runs : RunInv(r)
    BY Names DEF DeployInit, RunInv, Observing, Persisting, BeforeSend, Answers
  <1>5. \A n \in Nonces : ManifestInv(n)
    BY DEF DeployInit, ManifestInv
  <1> QED
    BY <1>1, <1>3, <1>4, <1>5 DEF DeployInv

LEMMA DeployNextInv == DeployInv /\ [DeployNext]_deployVars => DeployInv'
  <1> SUFFICES ASSUME DeployInv, [DeployNext]_deployVars PROVE DeployInv'
    OBVIOUS
  <1>1. CASE Environment
    BY <1>1, MineInv, ReorganiseInv, ForgetInv, SendByHandInv DEF Environment
  <1>2. ASSUME NEW r \in Runs, Gate(r) \/ Send(r) \/ Observe(r) \/ Persist(r) \/ Die(r)
        PROVE  DeployInv'
    BY <1>2, ReadPendingInv, GateInv, SendInv, WaitInv, ObserveInv, ReadReceiptInv, PersistInv,
       PublishInv, CleanUpInv, DieInv
    DEF Gate, Observe, Persist
  <1>3. CASE UNCHANGED deployVars
    <2>1. DeployTypeOK'
      BY <1>3 DEF DeployInv, DeployTypeOK, deployVars
    <2>2. ChainInv'
      BY <1>3 DEF DeployInv, ChainInv, deployVars, Mined, Alive, Tx
    <2> QED
      BY <1>3, <2>1, <2>2, PoolStep DEF deployVars, RunsKept
  <1> QED
    BY <1>1, <1>2, <1>3 DEF DeployNext

\* However runs overlap, die, are answered late or not at all, and whatever
\* the chain and the pool do.
THEOREM DeploymentSafe == DeploySpec => []DeployInv
  BY DeployInitInv, DeployNextInv, PTL DEF DeploySpec

\* Every answer, phase, nonce and manifest is of its kind, for any parameters.
THEOREM DeploymentTypes == DeploySpec => []DeployTypeOK
  <1>1. DeployInv => DeployTypeOK
    BY DEF DeployInv
  <1> QED
    BY <1>1, DeploymentSafe, PTL

\* Nothing that was sent is answered as if it was not, a manifest is whole as
\* soon as it has a name, and who is told "finalized" has his own
\* (runCredentialRegistryDeployment, FileManifestStore.writeNew).
THEOREM ManifestsTell == DeploySpec => []ManifestsTellTheirRun
  <1>1. DeployInv => ManifestsTellTheirRun
    <2> SUFFICES ASSUME DeployInv PROVE ManifestsTellTheirRun
      OBVIOUS
    <2>1. DOMAIN manifests = Nonces /\ DOMAIN told = Runs /\ sent \subseteq Runs
      BY DEF DeployInv, DeployTypeOK
    <2> QED
      BY <2>1 DEF DeployInv, RunInv, ManifestInv, ManifestsTellTheirRun, NothingSentUnreported,
                  ManifestsAreWhole, FinalizedHasItsManifest
  <1> QED
    BY <1>1, DeploymentSafe, PTL

\* What two readings and the threshold between them have shown is not undone
\* by a reorganisation that stays above the threshold.
THEOREM ManifestsStay == DeploySpec => []ManifestsAreFinal
  <1>1. DeployInv => ManifestsAreFinal
    <2> SUFFICES ASSUME DeployInv, deepest < Confirmations, NEW n \in Nonces, manifests[n] # None
                 PROVE  LET m == manifests[n] IN
                          /\ InBlock(m.at)
                          /\ chain[m.at.number].tx = [by |-> m.by, nonce |-> n]
                          /\ chain[m.at.number].ok
      BY DEF ManifestsAreFinal, DeployInv, DeployTypeOK
    <2> QED
      BY DEF DeployInv, ManifestInv, Observed, Stays
  <1> QED
    BY <1>1, DeploymentSafe, PTL

\* link(2) never writes over a manifest.
LEMMA ManifestsGrow ==
  DeployInv /\ [DeployNext]_deployVars =>
    [\A n \in DOMAIN manifests : manifests[n] # None => manifests'[n] = manifests[n]]_deployVars
  <1> SUFFICES ASSUME DeployInv, DeployNext, NEW n \in DOMAIN manifests, manifests[n] # None
               PROVE  manifests'[n] = manifests[n]
    OBVIOUS
  <1>1. CASE manifests' = manifests
    BY <1>1
  <1>2. ASSUME NEW r \in Runs, Publish(r) PROVE manifests'[n] = manifests[n]
    <2>1. CASE manifests' = [manifests EXCEPT ![nonce[r]] = Manifest(r)] /\ manifests[nonce[r]] = None
      BY <2>1
    <2>2. CASE manifests' = manifests
      BY <2>2
    <2> QED
      BY <1>2, <2>1, <2>2 DEF Publish
  <1> QED
    BY <1>1, <1>2
    DEF DeployNext, Environment, Mine, Reorganise, Forget, SendByHand, Gate, ReadPending,
        ReadLatest, ReadCreateAddress, ReadManifest, Estimate, Send, Observe, Wait, ReadCode,
        ReadTransaction, ReadBlock, ReadHeight, ReadReceipt, Persist, OpenTemporary,
        FillTemporary, CleanUp, Die

-----------------------------------------------------------------------------
(* Runs that overlap: while nothing is reorganised the nonces of the chain  *)
(* are counted, and a gate that found no more confirmed than its own nonce *)
(* saw whoever was before it.                                              *)

\* The gate of the run found the chain at its nonce.
Passed(q) ==
  \/ pc[q] \in {"create", "manifest", "estimate"} /\ ready[q]
  \/ pc[q] = "send"
  \/ \E t \in Alive : t.by = q

RaceInv ==
  reorgs = 0 =>
    /\ \A t \in Mined : t.nonce < LatestNonce
    /\ \A t, u \in Mined : t.nonce = u.nonce => t = u
    /\ \A q \in Runs : Passed(q) =>
         /\ nonce[q] <= LatestNonce
         /\ \A t \in Mined : t.nonce < nonce[q] => t.by \in confirmedAtGate[q]

LEMMA RaceMine == ASSUME DeployInv, RaceInv, Mine PROVE RaceInv'
  <1> SUFFICES ASSUME reorgs' = 0 PROVE RaceInv'
    BY DEF RaceInv
  <1>1. /\ DeployTypeOK /\ ChainInv /\ reorgs = 0 /\ nonce' = nonce /\ pc' = pc /\ ready' = ready
        /\ confirmedAtGate' = confirmedAtGate /\ pool' \subseteq pool
    BY DEF DeployInv, Mine
  <1>2. PICK t \in {None} \cup {x \in pool : x.nonce = LatestNonce} :
          Mined' = Mined \cup ({t} \ {None})
    <2>1. PICK t \in {None} \cup {x \in pool : x.nonce = LatestNonce}, ok \in BOOLEAN :
            chain' = Append(chain, [fork |-> reorgs, tx |-> t, ok |-> ok])
      BY DEF Mine
    <2>2. /\ Len(chain) \in Nat /\ Len(chain') = Len(chain) + 1
          /\ chain'[Len(chain) + 1].tx = t
          /\ \A h \in 1..Len(chain) : chain'[h] = chain[h]
      <3>1. [fork |-> reorgs, tx |-> t, ok |-> ok] \in ChainBlocks /\ chain \in Seq(ChainBlocks)
        BY <1>1 DEF DeployTypeOK, ChainBlocks
      <3> QED
        BY <2>1, <3>1
    <2>3. \A x : x \in Mined' <=> x # None /\ \E h \in 1..(Len(chain) + 1) : chain'[h].tx = x
      BY <2>2 DEF Mined
    <2>4. \A x : x \in Mined <=> x # None /\ \E h \in 1..Len(chain) : chain[h].tx = x
      BY DEF Mined
    <2>5. \A x : (\E h \in 1..(Len(chain) + 1) : chain'[h].tx = x)
                 <=> x = t \/ \E h \in 1..Len(chain) : chain[h].tx = x
      BY <2>2
    <2>6. Mined' = Mined \cup ({t} \ {None})
      BY <2>3, <2>4, <2>5
    <2> QED
      BY <2>6
  <1>3. /\ \A x \in Mined : x.nonce \in Nat /\ x.nonce < LatestNonce
        /\ \A x, u \in Mined : x.nonce = u.nonce => x = u
        /\ IsFiniteSet(Mined) /\ LatestNonce \in Nat
    BY <1>1, ChainTypes, OneEach, SendersFinite DEF RaceInv, LatestNonce, Txs, Nonces
  <1>4. \A q \in Runs : Passed(q)' => Passed(q)
    <2>1. Alive' \subseteq Alive
      BY <1>1, <1>2 DEF Alive
    <2> QED
      BY <1>1, <2>1 DEF Passed
  <1>5. \A q \in Runs : nonce[q] \in Nat
    BY <1>1, SendersFinite DEF DeployTypeOK, Nonces
  <1>6. CASE t = None
    <2>1. Mined' = Mined /\ LatestNonce' = LatestNonce
      BY <1>2, <1>6 DEF LatestNonce
    <2> QED
      BY <1>1, <1>4, <2>1 DEF RaceInv
  <1>7. CASE t # None
    <2>1. Mined' = Mined \cup {t} /\ t.nonce = LatestNonce /\ t \notin Mined
      BY <1>2, <1>3, <1>7
    <2>2. LatestNonce' = LatestNonce + 1
      BY <1>3, <2>1, FS_AddElement DEF LatestNonce
    <2>3. /\ \A x \in Mined' : x.nonce < LatestNonce'
          /\ \A x, u \in Mined' : x.nonce = u.nonce => x = u
      BY <1>3, <2>1, <2>2
    <2>4. ASSUME NEW q \in Runs, Passed(q)'
          PROVE  /\ nonce[q] <= LatestNonce'
                 /\ \A x \in Mined' : x.nonce < nonce[q] => x.by \in confirmedAtGate[q]
      <3>1. /\ nonce[q] <= LatestNonce
            /\ \A x \in Mined : x.nonce < nonce[q] => x.by \in confirmedAtGate[q]
        BY <1>1, <1>4, <2>4 DEF RaceInv
      <3> QED
        BY <1>3, <1>5, <2>1, <2>2, <3>1
    <2> QED
      BY <1>1, <2>3, <2>4 DEF RaceInv
  <1> QED
    BY <1>6, <1>7

\* A step that leaves the chain, and lets no run pass its gate.
LEMMA RaceKept ==
  ASSUME RaceInv, chain' = chain, reorgs' = reorgs,
         \A q \in Runs : Passed(q)' =>
           Passed(q) /\ nonce'[q] = nonce[q] /\ confirmedAtGate'[q] = confirmedAtGate[q]
  PROVE  RaceInv'
  <1>1. Mined' = Mined /\ LatestNonce' = LatestNonce
    BY DEF Mined, LatestNonce
  <1> QED
    BY <1>1 DEF RaceInv

LEMMA RaceGate ==
  ASSUME DeployInv, RaceInv, NEW r \in Runs, Gate(r)
  PROVE  RaceInv'
  <1>1. /\ DeployTypeOK /\ chain' = chain /\ reorgs' = reorgs /\ pool' = pool
        /\ Mined' = Mined /\ Alive' = Alive
        /\ \A q \in Runs \ {r} : pc'[q] = pc[q] /\ ready'[q] = ready[q] /\ nonce'[q] = nonce[q]
                                 /\ confirmedAtGate'[q] = confirmedAtGate[q]
    <2>1. DeployTypeOK
      BY DEF DeployInv
    <2>2. chain' = chain /\ reorgs' = reorgs /\ pool' = pool
      BY DEF Gate, ReadPending, ReadLatest, ReadCreateAddress, ReadManifest, Estimate
    <2>3. Mined' = Mined /\ Alive' = Alive
      BY <2>2 DEF Mined, Alive
    <2> SUFFICES ASSUME NEW q \in Runs \ {r}
                 PROVE  /\ pc'[q] = pc[q] /\ ready'[q] = ready[q] /\ nonce'[q] = nonce[q]
                        /\ confirmedAtGate'[q] = confirmedAtGate[q]
      BY <2>1, <2>2, <2>3
    <2>4. pc'[q] = pc[q]
      BY <2>1 DEF Gate, ReadPending, ReadLatest, ReadCreateAddress, ReadManifest, Estimate, Goes,
                  Ends, DeployTypeOK
    <2>5. ready'[q] = ready[q]
      BY <2>1 DEF Gate, ReadPending, ReadLatest, ReadCreateAddress, ReadManifest, Estimate,
                  Observes, DeployTypeOK
    <2>6. nonce'[q] = nonce[q]
      BY <2>1 DEF Gate, ReadPending, ReadLatest, ReadCreateAddress, ReadManifest, Estimate,
                  DeployTypeOK
    <2>7. confirmedAtGate'[q] = confirmedAtGate[q]
      BY <2>1 DEF Gate, ReadPending, ReadLatest, ReadCreateAddress, ReadManifest, Estimate,
                  DeployTypeOK
    <2> QED
      BY <2>4, <2>5, <2>6, <2>7
  <1>2. \A q \in Runs \ {r} : Passed(q)' => Passed(q)
    BY <1>1 DEF Passed
  <1>3. \A t \in Alive : t.by # r
    <2>1. pc[r] \in BeforeSend
      BY DEF Gate, ReadPending, ReadLatest, ReadCreateAddress, ReadManifest, Estimate, BeforeSend
    <2> QED
      BY <2>1 DEF DeployInv, ChainInv
  <1>4. CASE ReadPending(r)
    <2>1. pc'[r] \in {"latest", "ended"}
      BY <1>1, <1>4 DEF ReadPending, Goes, Ends, DeployTypeOK
    <2>2. ~Passed(r)'
      BY <1>1, <1>3, <2>1 DEF Passed
    <2> QED
      BY <1>1, <1>2, <2>2, RaceKept
  <1>5. CASE ReadLatest(r)
    <2>1. nonce' = nonce /\ pc[r] = "latest"
      BY <1>5 DEF ReadLatest
    <2>2. CASE /\ Observes(r, NothingPending(r))
               /\ confirmedAtGate' = [confirmedAtGate EXCEPT ![r] = {t.by : t \in Mined}]
      <3>1. ready'[r] => nonce[r] = LatestNonce
        BY <1>1, <2>2 DEF Observes, NothingPending, DeployTypeOK
      <3>2. Passed(r)' => ready'[r]
        <4>1. pc'[r] = "create"
          BY <1>1, <1>5 DEF ReadLatest, Goes, DeployTypeOK
        <4> QED
          BY <1>1, <1>3, <4>1 DEF Passed
      <3>3. \A t \in Mined : t.by \in confirmedAtGate'[r]
        BY <1>1, <2>2 DEF DeployTypeOK
      <3>4. LatestNonce' = LatestNonce /\ LatestNonce \in Nat
        BY <1>1, OneEach DEF LatestNonce, DeployInv
      <3> QED
        BY <1>1, <1>2, <2>1, <3>1, <3>2, <3>3, <3>4 DEF RaceInv
    <2>3. CASE Observes(r, FALSE)
      <3>1. ~ready'[r]
        BY <1>1, <2>3 DEF Observes, DeployTypeOK
      <3>2. pc'[r] = "create"
        BY <1>1, <1>5 DEF ReadLatest, Goes, DeployTypeOK
      <3>3. ~Passed(r)'
        BY <1>1, <1>3, <3>1, <3>2 DEF Passed
      <3> QED
        BY <1>1, <1>2, <3>3, RaceKept
    <2> QED
      BY <1>5, <2>2, <2>3 DEF ReadLatest
  <1>6. CASE ReadCreateAddress(r) \/ ReadManifest(r) \/ Estimate(r)
    <2>1. nonce' = nonce /\ confirmedAtGate' = confirmedAtGate
      BY <1>6 DEF ReadCreateAddress, ReadManifest, Estimate
    <2>2. Passed(r)' => Passed(r)
      <3>1. pc[r] \in {"create", "manifest", "estimate"}
        BY <1>6 DEF ReadCreateAddress, ReadManifest, Estimate
      <3>2. CASE ReadCreateAddress(r) \/ ReadManifest(r)
        <4>1. (ready'[r] => ready[r]) /\ pc'[r] \in {"manifest", "estimate"}
          BY <1>1, <3>2 DEF ReadCreateAddress, ReadManifest, Observes, Goes, DeployTypeOK
        <4> QED
          BY <1>1, <3>1, <4>1 DEF Passed
      <3>3. CASE Estimate(r)
        <4>1. (pc'[r] = "send" /\ ready[r]) \/ pc'[r] = "ended"
          BY <1>1, <3>3 DEF Estimate, Goes, Ends, DeployTypeOK
        <4> QED
          BY <1>1, <3>1, <4>1 DEF Passed
      <3> QED
        BY <1>6, <3>2, <3>3
    <2> QED
      BY <1>1, <1>2, <2>1, <2>2, RaceKept
  <1> QED
    BY <1>4, <1>5, <1>6 DEF Gate

LEMMA RaceStep == DeployInv /\ RaceInv /\ [DeployNext]_deployVars => RaceInv'
  <1> SUFFICES ASSUME DeployInv, RaceInv, [DeployNext]_deployVars PROVE RaceInv'
    OBVIOUS
  <1>1. CASE Reorganise
    <2>1. reorgs' # 0
      BY <1>1, Numbers DEF Reorganise, DeployInv, DeployTypeOK
    <2> QED
      BY <2>1 DEF RaceInv
  <1>2. CASE Forget \/ SendByHand
    <2>1. /\ chain' = chain /\ reorgs' = reorgs /\ Mined' = Mined
          /\ UNCHANGED <<pc, ready, nonce, confirmedAtGate>>
          /\ \A t \in pool' : t \in pool \/ t.by = Wallet
      BY <1>2 DEF Forget, SendByHand, Mined
    <2>2. \A q \in Runs : Passed(q)' => Passed(q)
      BY <2>1, Names DEF Passed, Alive
    <2> QED
      BY <2>1, <2>2, RaceKept
  <1>3. ASSUME NEW r \in Runs, Send(r) \/ Observe(r) \/ Persist(r) \/ Die(r) PROVE RaceInv'
    <2>1. /\ DeployTypeOK /\ chain' = chain /\ reorgs' = reorgs /\ Mined' = Mined
          /\ UNCHANGED <<ready, nonce, confirmedAtGate>>
          /\ \A t \in pool' : t \in pool \/ (pc[r] = "send" /\ t.by = r)
          /\ \A q \in Runs \ {r} : pc'[q] = pc[q]
          /\ pc'[r] \notin BeforeSend
      <3>1. DeployTypeOK
        BY DEF DeployInv
      <3>2. /\ chain' = chain /\ reorgs' = reorgs
            /\ UNCHANGED <<ready, nonce, confirmedAtGate>>
        BY <1>3 DEF Send, Observe, Wait, ReadCode, ReadTransaction, ReadBlock, ReadHeight,
                    ReadReceipt, Persist, OpenTemporary, FillTemporary, Publish, CleanUp, Die
      <3>3. Mined' = Mined
        BY <3>2 DEF Mined
      <3>4. CASE Send(r)
        <4>1. pool' = pool \/ pool' = pool \cup {Tx(r)}
          BY <3>4 DEF Send, SendOnce
        <4>2. pc[r] = "send" /\ Tx(r).by = r
          BY <3>4 DEF Send, Tx
        <4>3. pc' = [pc EXCEPT ![r] = "wait"] \/ pc' = [pc EXCEPT ![r] = "ended"]
          BY <3>4 DEF Send, Goes, Ends
        <4> QED
          BY <3>1, <3>2, <3>3, <4>1, <4>2, <4>3 DEF DeployTypeOK, BeforeSend
      <3>5. CASE Observe(r) \/ Persist(r) \/ Die(r)
        <4>1. pool' = pool
          BY <3>5 DEF Observe, Wait, ReadCode, ReadTransaction, ReadBlock, ReadHeight,
                      ReadReceipt, Persist, OpenTemporary, FillTemporary, Publish, CleanUp, Die
        <4>2. \E to \in {"code", "transaction", "block", "threshold", "reread", "open", "fill",
                         "publish", "clean", "ended", "dead"} : pc' = [pc EXCEPT ![r] = to]
          <5>1. CASE Observe(r)
            BY <5>1 DEF Observe, Wait, ReadCode, ReadTransaction, ReadBlock, ReadHeight,
                        ReadReceipt, Verifies, Goes, Ends
          <5>2. CASE Persist(r)
            BY <5>2 DEF Persist, OpenTemporary, FillTemporary, Publish, CleanUp, NotPersisted,
                        Goes, Ends
          <5>3. CASE Die(r)
            BY <5>3 DEF Die, Goes
          <5> QED
            BY <3>5, <5>1, <5>2, <5>3
        <4> QED
          BY <3>1, <3>2, <3>3, <4>1, <4>2 DEF DeployTypeOK, BeforeSend
      <3> QED
        BY <1>3, <3>4, <3>5
    <2>2. \A q \in Runs : Passed(q)' => Passed(q)
      BY <2>1 DEF Passed, Alive, BeforeSend
    <2> QED
      BY <2>1, <2>2, RaceKept
  <1>4. CASE UNCHANGED deployVars
    <2>1. \A q \in Runs : Passed(q)' => Passed(q)
      BY <1>4 DEF deployVars, Passed, Alive, Mined
    <2> QED
      BY <1>4, <2>1, RaceKept DEF deployVars
  <1> QED
    BY <1>1, <1>2, <1>3, <1>4, RaceMine, RaceGate DEF DeployNext, Environment

LEMMA RaceInit == DeployInit => RaceInv
  <1> SUFFICES ASSUME DeployInit PROVE RaceInv
    OBVIOUS
  <1>1. Mined = {} /\ Alive = {}
    BY DEF DeployInit, Mined, Alive
  <1>2. \A q \in Runs : ~Passed(q)
    BY <1>1 DEF DeployInit, Passed
  <1> QED
    BY <1>1, <1>2 DEF RaceInv

\* Of two runs that both deployed, the gate of one had found the other
\* confirmed (the pending and latest nonces of runPreflightGate agreed).
THEOREM RacesAreSeen == DeploySpec => []RacesDeployOnce
  <1>1. ASSUME DeployInv, RaceInv, reorgs = 0, NEW r \in Runs, NEW q \in Runs, r # q,
               Deployed(r), Deployed(q)
        PROVE  r \in confirmedAtGate[q] \/ q \in confirmedAtGate[r]
    <2>1. DeployTypeOK /\ ChainInv
      BY <1>1 DEF DeployInv
    <2>2. ASSUME NEW x \in Runs, Deployed(x)
          PROVE  Tx(x) \in Mined /\ Passed(x) /\ nonce[x] \in Nat
      <3>1. PICK h \in 1..Len(chain) : chain[h].tx # None /\ chain[h].tx.by = x
        BY <2>2 DEF Deployed
      <3>2. chain[h].tx \in Mined /\ chain[h].tx \in Alive
        BY <3>1 DEF Mined, Alive
      <3>3. chain[h].tx = Tx(x)
        BY <2>1, <3>1, <3>2 DEF ChainInv
      <3> QED
        BY <2>1, <3>1, <3>2, <3>3, SendersFinite DEF Passed, DeployTypeOK, Nonces
    <2>3. /\ Tx(r) \in Mined /\ Tx(q) \in Mined /\ Passed(r) /\ Passed(q)
          /\ nonce[r] \in Nat /\ nonce[q] \in Nat
      BY <1>1, <2>2
    <2>4. Tx(r).nonce = nonce[r] /\ Tx(q).nonce = nonce[q] /\ Tx(r).by = r /\ Tx(q).by = q
      BY DEF Tx
    <2>5. nonce[r] # nonce[q]
      BY <1>1, <2>3, <2>4 DEF RaceInv
    <2>6. CASE nonce[r] < nonce[q]
      BY <1>1, <2>3, <2>4, <2>6 DEF RaceInv
    <2>7. CASE nonce[q] < nonce[r]
      BY <1>1, <2>3, <2>4, <2>7 DEF RaceInv
    <2> QED
      BY <2>3, <2>5, <2>6, <2>7
  <1>2. DeployInv /\ RaceInv => RacesDeployOnce
    <2>1. DeployInv => DOMAIN pc = Runs
      BY DEF DeployInv, DeployTypeOK
    <2> QED
      BY <1>1, <2>1 DEF RacesDeployOnce
  <1>3. DeploySpec => []RaceInv
    BY RaceInit, RaceStep, DeploymentSafe, PTL DEF DeploySpec
  <1> QED
    BY <1>2, <1>3, DeploymentSafe, PTL

\* What a manifest names lasts, of runs that overlap one deploys, and nothing
\* is written over a manifest (deployment-operator.ts, manifest-store.ts).
THEOREM DeploymentsEndure == DeploySpec => DeploymentsLast
  <1>1. DeploySpec => ManifestsAreAppendOnly
    BY ManifestsGrow, DeploymentSafe, PTL DEF ManifestsAreAppendOnly, DeploySpec
  <1> QED
    BY <1>1, ManifestsStay, RacesAreSeen, PTL DEF DeploymentsLast

=============================================================================
