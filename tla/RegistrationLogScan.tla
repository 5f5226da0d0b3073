------------------------- MODULE RegistrationLogScan -------------------------
(***************************************************************************)
(* The bounded search for the registration of a pending credential         *)
(* (services/api/src/blockchain/reconciliation-log-scan.ts).               *)
(*                                                                         *)
(* One scan: read the head, find the first block to look at by bisection   *)
(* over block timestamps (or by a conservative bound when a timestamp      *)
(* cannot be read), then ask for the logs of one window of blocks after    *)
(* another, halving the window whenever the provider rejects its size.     *)
(* Every step is one answer of the provider; the chain grows meanwhile.    *)
(*                                                                         *)
(* Time is in whole seconds.  A provider that answers a request for logs   *)
(* answers truly for the blocks up to the head it reported.                *)
(***************************************************************************)
EXTENDS Integers

CONSTANTS
  Floor,             \* the block the registry was deployed in
  Window,            \* RECONCILIATION_LOG_WINDOW_BLOCKS
  MaxRequests,       \* RECONCILIATION_MAX_LOG_REQUESTS
  Skew,              \* RECONCILIATION_CLOCK_SKEW_SECONDS
  Slack,             \* RECONCILIATION_CLOCK_SLACK_BLOCKS
  MaxLocateSteps,
  Drift,             \* how far the clocks of the server and of blocks disagree
  ClientDates,       \* whether a client chose the issuance date freely
  MaxBlock, MaxTime  \* bounds: highest block and latest timestamp

ASSUME ScanAssumption ==
  /\ Floor \in Nat /\ Window \in Nat \ {0} /\ MaxRequests \in Nat
  /\ Skew \in Nat /\ Slack \in Nat /\ MaxLocateSteps \in Nat
  /\ Drift \in Nat /\ 2 * Drift <= Skew /\ Skew <= Slack
  /\ ClientDates \in BOOLEAN
  /\ MaxBlock \in Nat /\ MaxTime \in Nat

Blocks == 0 .. MaxBlock

Nothing == -1           \* no date, no registration, not read yet
MinWindow == 1           \* RECONCILIATION_MIN_LOG_WINDOW_BLOCKS

VARIABLES
  \* --- the chain and the provider
  time,       \* timestamp of every block, past and future
  height,     \* the last block there is
  event,      \* the block that holds the registration, or Nothing
  limit,      \* most blocks a faithful provider answers for; 0: a flaky one
  \* --- the scan
  issuedAt,   \* Credential.issuedAt, or Nothing
  phase,
  age,        \* pendingElapsedSeconds, rounded up
  head, target, low, high, step,
  start, cursor, size, request

world   == <<time, event, limit, issuedAt>>
bisect  == <<target, low, high, step>>
windows == <<start, cursor, size, request>>
vars    == <<time, height, event, limit, issuedAt, phase, age, head,
             target, low, high, step, start, cursor, size, request>>

AtLeast(a, b) == IF a >= b THEN a ELSE b
AtMost(a, b)  == IF a <= b THEN a ELSE b

-----------------------------------------------------------------------------
(* The date of issue is the server's clock just before the registration is   *)
(* sent, unless the client of the issuance supplied one of its own.          *)

DateFits(d) ==
  ~ClientDates /\ d # Nothing /\ event # Nothing => d - Drift <= time[event]

\* No chain of this project has two blocks in one second.
Init ==
  /\ time \in {f \in [Blocks -> 0 .. MaxTime] :
                 \A m, n \in Blocks : m <= n => f[m] + (n - m) <= f[n]}
  /\ height \in Blocks
  /\ event \in {n \in Blocks : n >= Floor} \cup {Nothing}
  /\ limit \in 0 .. Window
  /\ issuedAt \in 0 .. MaxTime \cup {Nothing}
  /\ DateFits(issuedAt)
  /\ phase = "idle"
  /\ age = 0 /\ head = Nothing
  /\ target = 0 /\ low = 0 /\ high = 0 /\ step = 0
  /\ start = 0 /\ cursor = 0 /\ size = Window /\ request = 0

\* The windows go forward from the first block when the date of issue is known,
\* and back from the head when it is not.
Forward == issuedAt # Nothing

BeginWindows(first, from) ==
  /\ phase' = "scanning"
  /\ start' = first
  /\ cursor' = from
  /\ UNCHANGED <<size, request>>

\* The age and the head are read together: the seconds between the two reads
\* are part of the drift.
Begin ==
  /\ phase = "idle"
  /\ head' = height
  /\ IF issuedAt = Nothing THEN age' = age
     ELSE \E now \in time[height] - Drift .. time[height] + Drift : age' = now - issuedAt
  /\ \/ height < Floor /\ phase' = "failed" /\ UNCHANGED windows
     \/ height >= Floor /\ issuedAt = Nothing /\ BeginWindows(Floor, height)
     \/ height >= Floor /\ issuedAt # Nothing /\ phase' = "locating" /\ UNCHANGED windows
  /\ UNCHANGED <<world, height, bisect>>

-----------------------------------------------------------------------------
(* locateStartBlock                                                          *)

Elapsed == AtLeast(0, age)

ReadTarget ==
  /\ phase = "locating"
  /\ target' = time[head] - Elapsed - Skew
  /\ low' = Floor
  /\ high' = head
  /\ phase' = "bisecting"
  /\ UNCHANGED <<world, height, age, head, step, windows>>

Narrowing == step < MaxLocateSteps /\ low < high

\* Mutant of LateEnough: the comparison of the bisection turned around.
LateEnoughReversed(n) == time[n] < target

LateEnough(n) == time[n] >= target

Bisect ==
  LET middle == low + (high - low) \div 2 IN
    /\ phase = "bisecting"
    /\ Narrowing
    /\ IF LateEnough(middle) THEN high' = middle /\ low' = low
                             ELSE low' = middle + 1 /\ high' = high
    /\ step' = step + 1
    /\ UNCHANGED <<world, height, phase, age, head, target, windows>>

Located ==
  /\ phase = "bisecting"
  /\ ~Narrowing
  /\ BeginWindows(low, low)
  /\ UNCHANGED <<world, height, age, head, bisect>>

\* boundedSearchStart: seconds bound the blocks from above.
BoundedSearchStart == AtLeast(Floor, head - (Elapsed + Slack))

\* A timestamp could not be read.
LocateFailed ==
  /\ phase = "locating" \/ (phase = "bisecting" /\ Narrowing)
  /\ BeginWindows(BoundedSearchStart, BoundedSearchStart)
  /\ UNCHANGED <<world, height, age, head, bisect>>

-----------------------------------------------------------------------------
(* The windows of scanRegistrationLogs                                       *)

\* Mutant of FromBlock: the last window going back is not cut at the start.
FromBlockUncut == IF Forward THEN cursor ELSE cursor - size + 1

FromBlock == IF Forward THEN cursor ELSE AtLeast(start, cursor - size + 1)
ToBlock   == IF Forward THEN AtMost(head, cursor + size - 1) ELSE cursor
LastWindow == IF Forward THEN ToBlock >= head ELSE FromBlock <= start

NextCursor == IF Forward THEN ToBlock + 1 ELSE FromBlock - 1

\* Mutant of SizeAfterAnswer: every window is tried at the initial size again.
SizeForgotten == Window

\* A size the provider accepted is kept for the windows that follow.
SizeAfterAnswer == size

Asking == phase = "scanning" /\ request < MaxRequests

MayReject == limit = 0 \/ ToBlock - FromBlock + 1 > limit
MayAnswer == limit = 0 \/ ~MayReject

RangeRejected ==
  /\ Asking
  /\ MayReject
  /\ size > MinWindow
  /\ size' = AtLeast(MinWindow, size \div 2)
  /\ request' = request + 1
  /\ UNCHANGED <<world, height, phase, age, head, bisect, start, cursor>>

LogsFound ==
  /\ Asking
  /\ MayAnswer
  /\ event \in FromBlock .. ToBlock
  /\ phase' = "found"
  /\ request' = request + 1
  /\ UNCHANGED <<world, height, age, head, bisect, start, cursor, size>>

NoLogs ==
  /\ Asking
  /\ MayAnswer
  /\ event \notin FromBlock .. ToBlock
  /\ IF LastWindow THEN phase' = "empty" /\ cursor' = cursor
                   ELSE phase' = phase /\ cursor' = NextCursor
  /\ size' = SizeAfterAnswer
  /\ request' = request + 1
  /\ UNCHANGED <<world, height, age, head, bisect, start>>

\* Any other error of the provider, a rejection of a single block, or the
\* budget exhausted: the scan throws.
ScanThrows ==
  /\ phase = "scanning"
  /\ \/ request < MaxRequests /\ limit = 0
     \/ request < MaxRequests /\ MayReject /\ size = MinWindow
     \/ request = MaxRequests
  /\ phase' = "failed"
  /\ UNCHANGED <<world, height, age, head, bisect, windows>>

Grow ==
  /\ height < MaxBlock
  /\ height' = height + 1
  /\ UNCHANGED <<world, phase, age, head, bisect, windows>>

Next ==
  \/ Begin \/ ReadTarget \/ Bisect \/ Located \/ LocateFailed
  \/ RangeRejected \/ LogsFound \/ NoLogs \/ ScanThrows \/ Grow

Spec == Init /\ [][Next]_vars

-----------------------------------------------------------------------------
(* Properties.                                                               *)

\* "An error is not an absence": an empty answer, which the caller reports as
\* CHAIN_NOT_REGISTERED, means that no block from the deployment to the head
\* holds the registration, those the scan skipped included.
EmptyMeansAbsent == phase = "empty" => event \notin Floor .. head

\* Whatever mix of answers and rejections came before, the next window is not
\* empty, stays between the first block and the head, and the blocks it leaves
\* behind, which nobody asks for again, do not hold the registration.
WindowsAdvance ==
  phase = "scanning" =>
    /\ Floor <= start /\ start <= FromBlock /\ FromBlock <= ToBlock /\ ToBlock <= head
    /\ LET behind == IF Forward THEN start .. FromBlock - 1 ELSE ToBlock + 1 .. head IN
         event \notin behind

\* The scan learns the size a provider accepts: with one that answers every
\* range of at most "limit" blocks it gives up only if the budget is too small
\* for the rejections of one descent and one pass of windows over half the limit.
Halvings == CHOOSE k \in 0 .. Window :
              /\ Window \div 2^k <= limit
              /\ \A j \in 0 .. k - 1 : Window \div 2^j > limit
LearntSize == AtLeast(MinWindow, Window \div 2^Halvings)
BudgetSuffices ==
  Halvings + (head - Floor + LearntSize) \div LearntSize <= MaxRequests

LearnsTheWindow ==
  phase = "failed" /\ limit # 0 /\ head >= Floor => ~BudgetSuffices

\* "The transaction cannot be in a block before the issuance": the scan never
\* starts after the block of a registration that exists.  It holds only of a
\* date that the server's clock gave.
NothingBeforeStart == phase = "scanning" /\ event # Nothing => start <= event

=============================================================================
