----------------------------- MODULE WatchProofs -----------------------------
(***************************************************************************)
(* What holds of a MintChecker for any number of logs per block, blocks,   *)
(* lost connections and other users of the cache.                          *)
(***************************************************************************)
EXTENDS ChainWatch, TLAPS

(* Blocks and their logs: block b has the logs FirstLog(b) to b * LogsPerBlock. *)
LEMMA BlockBounds ==
    ASSUME NEW i \in Nat \ {0}
    PROVE  /\ BlockOf(i) \in Nat \ {0}
           /\ FirstLog(BlockOf(i)) <= i
           /\ i <= BlockOf(i) * LogsPerBlock
           /\ FirstLog(BlockOf(i)) \in Nat \ {0}
<1> DEFINE L == LogsPerBlock
           q == (i - 1) \div L
<1>1. L \in Nat \ {0} /\ i - 1 \in Nat
    BY WatchAssumption
<1>2. q \in Nat /\ q * L <= i - 1 /\ i - 1 < (q + 1) * L
    BY <1>1, SMTT(30)
<1>3. q * L \in Nat
    BY <1>1, <1>2
<1> HIDE DEF q
<1>4. BlockOf(i) = q + 1
    BY DEF BlockOf, q
<1>5. (q + 1) - 1 = q
    BY <1>2
<1> QED
    BY <1>1, <1>2, <1>3, <1>4, <1>5 DEF FirstLog

LEMMA BlocksOrdered ==
    ASSUME NEW a \in Nat \ {0}, NEW b \in Nat \ {0}, a < b
    PROVE  /\ a * LogsPerBlock \in Nat /\ FirstLog(b) \in Nat
           /\ a * LogsPerBlock < FirstLog(b)
<1>1. LogsPerBlock \in Nat \ {0}
    BY WatchAssumption
<1>2. a * LogsPerBlock <= (b - 1) * LogsPerBlock
    BY <1>1, SMTT(30)
<1>3. a * LogsPerBlock \in Nat /\ (b - 1) * LogsPerBlock \in Nat
    BY <1>1
<1> QED
    BY <1>2, <1>3 DEF FirstLog

LEMMA InBlock ==
    ASSUME NEW i \in Nat \ {0}, NEW b \in Nat \ {0},
           FirstLog(b) <= i, i <= b * LogsPerBlock
    PROVE  BlockOf(i) = b
<1> DEFINE a == BlockOf(i)
<1>1. a \in Nat \ {0} /\ FirstLog(a) <= i /\ i <= a * LogsPerBlock
    BY BlockBounds
<1> HIDE DEF a
<1>2. CASE a < b
  <2>1. a * LogsPerBlock \in Nat /\ FirstLog(b) \in Nat /\ a * LogsPerBlock < FirstLog(b)
      BY <1>1, <1>2, BlocksOrdered
  <2> QED
      BY <1>1, <2>1
<1>3. CASE b < a
  <2>1. b * LogsPerBlock \in Nat /\ FirstLog(a) \in Nat /\ b * LogsPerBlock < FirstLog(a)
      BY <1>1, <1>3, BlocksOrdered
  <2> QED
      BY <1>1, <2>1
<1>4. CASE a = b
    BY <1>4 DEF a
<1> QED
    BY <1>1, <1>2, <1>3, <1>4

(* The logs of the chain so far end where the next block's begin. *)
LEMMA ChainLogs ==
    ASSUME NEW n \in Nat
    PROVE  /\ n * LogsPerBlock \in Nat
           /\ FirstLog(n + 1) = n * LogsPerBlock + 1
           /\ Logs(n) = 1..(n * LogsPerBlock)
           /\ (n + 1) * LogsPerBlock \in Nat
           /\ n * LogsPerBlock <= (n + 1) * LogsPerBlock
<1>1. LogsPerBlock \in Nat \ {0}
    BY WatchAssumption
<1>2. (n + 1) - 1 = n
    OBVIOUS
<1>3. (n + 1) * LogsPerBlock = n * LogsPerBlock + LogsPerBlock
    BY <1>1, SMTT(30)
<1>4. n * LogsPerBlock \in Nat
    BY <1>1
<1> QED
    BY <1>1, <1>2, <1>3, <1>4 DEF FirstLog, Logs

(* A log of the chain is in one of its blocks. *)
LEMMA LogsBlock ==
    ASSUME NEW n \in Nat, NEW i \in Logs(n)
    PROVE  BlockOf(i) \in 1..n
<1>1. i \in Nat \ {0} /\ i <= n * LogsPerBlock
  <2>1. i \in 1..(n * LogsPerBlock) /\ n * LogsPerBlock \in Nat
      BY ChainLogs
  <2> QED
      BY <2>1
<1>2. BlockOf(i) \in Nat \ {0} /\ FirstLog(BlockOf(i)) <= i
    BY <1>1, BlockBounds
<1>3. CASE BlockOf(i) > n
  <2>1. FirstLog(n + 1) = n * LogsPerBlock + 1 /\ n * LogsPerBlock \in Nat
      BY ChainLogs
  <2>2. CASE BlockOf(i) = n + 1
      BY <1>1, <1>2, <2>1, <2>2
  <2>3. CASE n + 1 < BlockOf(i)
    <3>1. n + 1 \in Nat \ {0}
        OBVIOUS
    <3>2. (n + 1) * LogsPerBlock < FirstLog(BlockOf(i)) /\ FirstLog(BlockOf(i)) \in Nat
        BY <1>2, <2>3, <3>1, BlocksOrdered
    <3>3. (n + 1) * LogsPerBlock \in Nat /\ n * LogsPerBlock <= (n + 1) * LogsPerBlock
        BY ChainLogs
    <3> QED
        BY <1>1, <1>2, <2>1, <3>2, <3>3
  <2> QED
      BY <1>2, <1>3, <2>2, <2>3
<1> QED
    BY <1>2, <1>3

-----------------------------------------------------------------------------
(* Each step of the checker, its rivals, the cache and the chain. *)
LEMMA WatchType ==
    ASSUME TypeOK, [Next]_vars
    PROVE  TypeOK'
<1>1. blocks \in Nat /\ highest \in 0..blocks /\ highest \in Nat
    BY WatchAssumption DEF TypeOK
<1>2. CASE Connect \/ ConnectOpened \/ ConnectFails \/ SubscribeFails \/ Retry \/ StreamEnds
           \/ Evict \/ (\E c \in Conns : Disconnect(c))
           \/ (\E u \in Users : UserMisses(u) \/ UserOpened(u) \/ UserFails(u))
           \/ UNCHANGED vars
    BY <1>2, WatchAssumption
       DEF TypeOK, Connect, ConnectOpened, ConnectFails, SubscribeFails, Retry, StreamEnds,
           Evict, Disconnect, UserMisses, UserOpened, UserFails, Opened, world, vars
<1>3. CASE Subscribe
  <2>1. Start \in 1..FirstLog(blocks + 1)
    <3>1. FirstLog(blocks + 1) = blocks * LogsPerBlock + 1 /\ blocks * LogsPerBlock \in Nat
        BY <1>1, ChainLogs
    <3>2. CASE highest = 0
        BY <3>1, <3>2 DEF Start
    <3>3. CASE highest # 0
      <4>1. FirstLog(highest) <= FirstLog(blocks + 1) /\ FirstLog(highest) \in Nat \ {0}
        <5>1. LogsPerBlock \in Nat \ {0}
            BY WatchAssumption
        <5>2. (highest - 1) * LogsPerBlock <= blocks * LogsPerBlock
            BY <1>1, <3>3, <5>1, SMTT(30)
        <5>3. (highest - 1) * LogsPerBlock \in Nat
            BY <1>1, <3>3, <5>1
        <5> QED
            BY <3>1, <5>2, <5>3 DEF FirstLog
      <4> QED
          BY <3>1, <3>3, <4>1 DEF Start
    <3> QED
        BY <3>2, <3>3
  <2> QED
      BY <1>3, <2>1 DEF TypeOK, Subscribe, world
<1>4. CASE StreamLog
  <2>1. BlockOf(cursor) \in 1..blocks
      BY <1>1, <1>4, LogsBlock DEF StreamLog
  <2>2. cursor + 1 \in 1..FirstLog(blocks + 1)
    <3>1. FirstLog(blocks + 1) = blocks * LogsPerBlock + 1 /\ blocks * LogsPerBlock \in Nat
          /\ Logs(blocks) = 1..(blocks * LogsPerBlock)
        BY <1>1, ChainLogs
    <3>2. cursor \in 1..(blocks * LogsPerBlock)
        BY <1>4, <3>1 DEF StreamLog
    <3> QED
        BY <3>1, <3>2
  <2> QED
      BY <1>1, <1>4, <2>1, <2>2 DEF TypeOK, StreamLog, world
<1>5. CASE Mine
  <2>1. blocks' = blocks + 1 /\ blocks' \in 0..MaxBlocks
      BY <1>1, <1>5, WatchAssumption DEF Mine, TypeOK
  <2>2. /\ FirstLog(blocks + 1) = blocks * LogsPerBlock + 1
        /\ Logs(blocks) = 1..(blocks * LogsPerBlock) /\ blocks * LogsPerBlock \in Nat
      BY <1>1, ChainLogs
  <2>3. /\ FirstLog(blocks' + 1) = blocks' * LogsPerBlock + 1
        /\ Logs(blocks') = 1..(blocks' * LogsPerBlock) /\ blocks' * LogsPerBlock \in Nat
      BY <1>1, <2>1, ChainLogs
  <2>4. blocks * LogsPerBlock <= blocks' * LogsPerBlock
      BY <1>1, <2>1, ChainLogs
  <2>5. cursor \in 1..FirstLog(blocks' + 1) /\ handled \subseteq Logs(blocks')
      BY <2>2, <2>3, <2>4 DEF TypeOK
  <2>6. highest \in 0..blocks'
      BY <1>1, <2>1
  <2> QED
      BY <1>5, <2>1, <2>5, <2>6 DEF TypeOK, Mine
<1> QED
    BY <1>2, <1>3, <1>4, <1>5 DEF Next

LEMMA WatchInitType == Init => TypeOK
<1>1. 0 \in Nat /\ FirstLog(0 + 1) = 0 * LogsPerBlock + 1 /\ 0 * LogsPerBlock \in Nat
    BY ChainLogs
<1> QED
    BY <1>1, WatchAssumption DEF Init, TypeOK

(* A MintChecker's cursor stays within the logs of the chain, and what it   *)
(* has handled and where it starts over are of blocks that exist.           *)
THEOREM WatchTypeCorrect == Spec => []TypeOK
BY WatchInitType, WatchType, PTL DEF Spec

-----------------------------------------------------------------------------
(***************************************************************************)
(* Why no log is skipped.  The handled logs are an interval; it begins no  *)
(* later than highest's block, and ends in that block.  So a stream that   *)
(* starts over at highest's block cannot leave a gap, and until it passes  *)
(* the last handled log it does not leave the block either.                *)
(***************************************************************************)
Handled(f, l) ==
    /\ handled = f..l
    /\ f <= FirstLog(highest) /\ FirstLog(highest) <= l /\ l <= highest * LogsPerBlock
    /\ at = "stream" => FirstLog(highest) <= cursor /\ cursor <= l + 1

WatchInv ==
    /\ highest = 0 => /\ handled = {}
                      /\ at = "stream" => \E b \in Nat \ {0} : cursor = FirstLog(b)
    /\ highest # 0 => \E f, l \in Nat \ {0} : Handled(f, l)

(* The numbers the steps below compute with. *)
LEMMA Numbers ==
    ASSUME TypeOK
    PROVE  /\ blocks \in Nat /\ highest \in Nat /\ cursor \in Nat \ {0}
           /\ highest # 0 => /\ FirstLog(highest) \in Nat \ {0}
                             /\ highest * LogsPerBlock \in Nat
<1>1. blocks \in Nat /\ highest \in Nat
    BY WatchAssumption DEF TypeOK
<1>2. FirstLog(blocks + 1) \in Nat /\ highest * LogsPerBlock \in Nat
  <2>1. FirstLog(blocks + 1) = blocks * LogsPerBlock + 1 /\ blocks * LogsPerBlock \in Nat
      BY <1>1, ChainLogs
  <2>2. highest * LogsPerBlock \in Nat
      BY <1>1, ChainLogs
  <2> QED
      BY <2>1, <2>2
<1>3. cursor \in Nat \ {0}
    BY <1>2 DEF TypeOK
<1>4. ASSUME highest # 0 PROVE FirstLog(highest) \in Nat \ {0}
  <2>1. highest - 1 \in Nat
      BY <1>1, <1>4
  <2>2. FirstLog((highest - 1) + 1) = (highest - 1) * LogsPerBlock + 1
        /\ (highest - 1) * LogsPerBlock \in Nat
      BY <2>1, ChainLogs
  <2> QED
      BY <2>2 DEF FirstLog
<1> QED
    BY <1>1, <1>2, <1>3, <1>4

(* The first log of all: the stream began at the first log of a block. *)
LEMMA FirstHandled ==
    ASSUME TypeOK, WatchInv, StreamLog, highest = 0
    PROVE  WatchInv'
<1>1. handled = {} /\ at = "stream" /\ handled' = {cursor}
      /\ highest' = BlockOf(cursor) /\ cursor' = cursor + 1 /\ at' = at
    BY DEF WatchInv, StreamLog
<1>2. PICK b \in Nat \ {0} : cursor = FirstLog(b)
    BY <1>1 DEF WatchInv
<1>3. cursor \in Nat \ {0}
    BY Numbers
<1>4. /\ BlockOf(cursor) \in Nat \ {0}
      /\ FirstLog(BlockOf(cursor)) <= cursor
      /\ cursor <= BlockOf(cursor) * LogsPerBlock
      /\ FirstLog(BlockOf(cursor)) \in Nat \ {0}
    BY <1>3, BlockBounds
<1>5. cursor <= b * LogsPerBlock
  <2>1. LogsPerBlock \in Nat \ {0} /\ b - 1 \in Nat
      BY WatchAssumption
  <2>2. FirstLog(b) = (b - 1) * LogsPerBlock + 1 /\ (b - 1) * LogsPerBlock \in Nat
      BY <2>1 DEF FirstLog
  <2>3. b * LogsPerBlock = (b - 1) * LogsPerBlock + LogsPerBlock
      BY <2>1, SMTT(30)
  <2> QED
      BY <1>2, <2>1, <2>2, <2>3
<1>6. BlockOf(cursor) = b
    BY <1>2, <1>3, <1>5, InBlock
<1>7. highest' = b /\ FirstLog(highest') = cursor
    BY <1>1, <1>2, <1>6
<1>8. highest' * LogsPerBlock = b * LogsPerBlock
    BY <1>7
<1>9. handled' = cursor..cursor
    BY <1>1, <1>3
<1>10. cursor <= cursor /\ cursor <= cursor + 1 /\ cursor + 1 <= cursor + 1
    BY <1>3
<1>11. /\ handled' = cursor..cursor
       /\ cursor <= FirstLog(highest') /\ FirstLog(highest') <= cursor
       /\ cursor <= highest' * LogsPerBlock
       /\ FirstLog(highest') <= cursor' /\ cursor' <= cursor + 1
    BY <1>1, <1>5, <1>7, <1>8, <1>9, <1>10
<1>12. \E f, l \in Nat \ {0} :
          /\ handled' = f..l
          /\ f <= FirstLog(highest') /\ FirstLog(highest') <= l
          /\ l <= highest' * LogsPerBlock
          /\ at' = "stream" => FirstLog(highest') <= cursor' /\ cursor' <= l + 1
    BY <1>3, <1>11
<1>13. highest' # 0
    BY <1>7
<1> QED
    BY <1>12, <1>13 DEF WatchInv, Handled

(* A later log: one handled before, or the one after the last. *)
LEMMA NextHandled ==
    ASSUME TypeOK, WatchInv, StreamLog, highest # 0
    PROVE  WatchInv'
<1>1. at = "stream" /\ handled' = handled \cup {cursor}
      /\ highest' = BlockOf(cursor) /\ cursor' = cursor + 1 /\ at' = at
    BY DEF StreamLog
<1>2. PICK f \in Nat \ {0}, l \in Nat \ {0} : Handled(f, l)
    BY DEF WatchInv
<1> DEFINE h == highest
           b == BlockOf(cursor)
<1>3. /\ handled = f..l
      /\ f <= FirstLog(h) /\ FirstLog(h) <= l /\ l <= h * LogsPerBlock
      /\ FirstLog(h) <= cursor /\ cursor <= l + 1
    BY <1>1, <1>2 DEF Handled
<1>4. /\ h \in Nat \ {0} /\ cursor \in Nat \ {0}
      /\ FirstLog(h) \in Nat \ {0} /\ h * LogsPerBlock \in Nat
    BY Numbers
<1>5. /\ b \in Nat \ {0} /\ FirstLog(b) <= cursor /\ cursor <= b * LogsPerBlock
      /\ FirstLog(b) \in Nat \ {0}
    BY <1>4, BlockBounds
<1>6. \E m \in Nat \ {0} :
         /\ handled' = f..m
         /\ f <= FirstLog(b) /\ FirstLog(b) <= m /\ m <= b * LogsPerBlock
         /\ cursor <= m
  <2>1. CASE cursor <= l
    <3>1. cursor <= h * LogsPerBlock
        BY <1>3, <1>4, <2>1
    <3>2. b = h
        BY <1>3, <1>4, <3>1, InBlock
    <3>3. handled' = f..l
        BY <1>1, <1>3, <1>4, <2>1
    <3> QED
        BY <1>3, <2>1, <3>2, <3>3
  <2>2. CASE cursor = l + 1
    <3>1. handled' = f..cursor
        BY <1>1, <1>3, <1>4, <2>2
    <3>2. ~(b < h)
      <4>1. ASSUME b < h PROVE FALSE
        <5>1. b * LogsPerBlock \in Nat /\ b * LogsPerBlock < FirstLog(h)
            BY <1>4, <1>5, <4>1, BlocksOrdered
        <5> QED
            BY <1>3, <1>4, <1>5, <5>1
      <4> QED
          BY <4>1
    <3>3. f <= FirstLog(b)
      <4>1. CASE b = h
          BY <1>3, <4>1
      <4>2. CASE h < b
        <5>1. h * LogsPerBlock < FirstLog(b)
            BY <1>4, <1>5, <4>2, BlocksOrdered
        <5> QED
            BY <1>3, <1>4, <1>5, <5>1
      <4> QED
          BY <1>4, <1>5, <3>2, <4>1, <4>2
    <3> QED
        BY <1>4, <1>5, <3>1, <3>3
  <2> QED
      BY <1>3, <1>4, <2>1, <2>2
<1>7. PICK m \in Nat \ {0} :
         /\ handled' = f..m
         /\ f <= FirstLog(b) /\ FirstLog(b) <= m /\ m <= b * LogsPerBlock
         /\ cursor <= m
    BY <1>6
<1>8. FirstLog(b) <= cursor + 1 /\ cursor + 1 <= m + 1
    BY <1>4, <1>5, <1>7
<1>9. highest' = b /\ cursor' = cursor + 1 /\ highest' # 0
    BY <1>1, <1>5
<1> HIDE DEF b
<1>10. /\ handled' = f..m
       /\ f <= FirstLog(highest') /\ FirstLog(highest') <= m
       /\ m <= highest' * LogsPerBlock
       /\ FirstLog(highest') <= cursor' /\ cursor' <= m + 1
    BY <1>7, <1>8, <1>9
<1> QED
    BY <1>9, <1>10 DEF WatchInv, Handled

(* Starting over: from the first log of highest's block. *)
LEMMA SubscribeHandled ==
    ASSUME TypeOK, WatchInv, Subscribe
    PROVE  WatchInv'
<1>1. cursor' = Start /\ at' = "stream" /\ highest' = highest /\ handled' = handled
    BY DEF Subscribe
<1>2. CASE highest = 0
  <2>1. blocks + 1 \in Nat \ {0} /\ cursor' = FirstLog(blocks + 1)
      BY <1>1, <1>2, Numbers DEF Start
  <2>2. handled' = {} /\ highest' = 0
      BY <1>1, <1>2 DEF WatchInv
  <2> QED
      BY <2>1, <2>2 DEF WatchInv
<1>3. CASE highest # 0
  <2>1. PICK f \in Nat \ {0}, l \in Nat \ {0} : Handled(f, l)
      BY <1>3 DEF WatchInv
  <2>2. FirstLog(highest) \in Nat /\ cursor' = FirstLog(highest)
      BY <1>1, <1>3, Numbers DEF Start
  <2>3. FirstLog(highest) <= cursor' /\ cursor' <= l + 1
      BY <2>1, <2>2 DEF Handled
  <2>4. /\ handled' = f..l
        /\ f <= FirstLog(highest') /\ FirstLog(highest') <= l
        /\ l <= highest' * LogsPerBlock
        /\ FirstLog(highest') <= cursor' /\ cursor' <= l + 1
      BY <1>1, <2>1, <2>3 DEF Handled
  <2>5. highest' # 0
      BY <1>1, <1>3
  <2> QED
      BY <2>4, <2>5 DEF WatchInv, Handled
<1> QED
    BY <1>2, <1>3

LEMMA WatchStep ==
    ASSUME TypeOK, WatchInv, [Next]_vars
    PROVE  WatchInv'
<1>1. CASE StreamLog
    BY <1>1, FirstHandled, NextHandled
<1>2. CASE Subscribe
    BY <1>2, SubscribeHandled
<1>3. CASE /\ UNCHANGED <<highest, handled, cursor>>
           /\ at' = "stream" => at = "stream"
    BY <1>3 DEF WatchInv, Handled
<1>4. \/ StreamLog \/ Subscribe
      \/ /\ UNCHANGED <<highest, handled, cursor>>
         /\ at' = "stream" => at = "stream"
    BY DEF Next, vars, Connect, ConnectOpened, ConnectFails, SubscribeFails, Retry,
           StreamEnds, Evict, Disconnect, UserMisses, UserOpened, UserFails, Mine
<1> QED
    BY <1>1, <1>2, <1>3, <1>4

(* For any number of logs per block, blocks and lost connections: the logs  *)
(* a checker has handled are all those between the first and the last.      *)
(* (chain.rs, poll_for_new_mints.)                                          *)
THEOREM NoLogEverSkipped == Spec => []NoLogSkipped
<1>1. Init => WatchInv
    BY DEF Init, WatchInv
<1>2. TypeOK /\ WatchInv /\ [Next]_vars => WatchInv'
    BY WatchStep
<1>3. TypeOK /\ WatchInv => NoLogSkipped
  <2>1. SUFFICES ASSUME TypeOK, WatchInv, NEW i \in handled, NEW j \in handled
                 PROVE  i..j \subseteq handled
      BY DEF NoLogSkipped
  <2>2. highest # 0
      BY <2>1 DEF WatchInv
  <2>3. PICK f \in Nat \ {0}, l \in Nat \ {0} : handled = f..l
      BY <2>1, <2>2 DEF WatchInv, Handled
  <2> QED
      BY <2>1, <2>3
<1> QED
    BY <1>1, <1>2, <1>3, WatchTypeCorrect, PTL DEF Spec
=============================================================================
