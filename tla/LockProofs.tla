------------------------------ MODULE LockProofs ------------------------------
(***************************************************************************)
(* Theorems about CriticalSection and ReadWriteLock, for every number of   *)
(* threads: a section has one owner and hands over to one thread at a      *)
(* time, whatever waits are granted, given up or left behind.              *)
(***************************************************************************)
EXTENDS CriticalSection, ReadWriteLock, FiniteSetTheorems, SequenceTheorems, TLAPS

Labels == {"out", "start", "waiting", "granted", "refused", "failed", "signal"}

WaitType ==
    /\ pc \in [Threads -> Labels]
    /\ target \in [Threads -> Objects \cup {None}]
    /\ \A t \in Threads : pc[t] = "out" <=> target[t] = None
    /\ amount \in [Threads -> Nat]
    /\ tokens \in [Objects -> Nat]
    /\ queue \in [Objects -> Seq(Threads)]
    /\ handed \subseteq Threads /\ terminated \subseteq Threads
    /\ failures \in Nat

\* The queue of an object holds each wait once, and only waits for the object
\* that nobody has granted yet.
WaitersQueue ==
    /\ \A t \in handed : pc[t] = "waiting"
    /\ \A o \in Objects :
          /\ \A i, j \in 1..Len(queue[o]) : queue[o][i] = queue[o][j] => i = j
          /\ \A i \in 1..Len(queue[o]) :
                pc[queue[o][i]] = "waiting" /\ queue[o][i] \notin handed /\ target[queue[o][i]] = o

-----------------------------------------------------------------------------
LEMMA ThreadsAreFinite ==
  /\ IsFiniteSet(Threads) /\ None \notin Threads \cup Objects
  /\ \A S \in SUBSET Threads : IsFiniteSet(S) /\ Cardinality(S) \in Nat
  BY LockAssumption, FS_Subset, FS_CardinalityType DEF Objects

\* Where SubSeq and RemoveAt take their elements from.
LEMMA SubSeqElements ==
  ASSUME NEW S, NEW s \in Seq(S), NEW m \in 1..(Len(s) + 1), NEW n \in 0..Len(s), m <= n + 1
  PROVE  /\ SubSeq(s, m, n) \in Seq(S)
         /\ Len(SubSeq(s, m, n)) = n + 1 - m
         /\ \A i \in 1..(n + 1 - m) : SubSeq(s, m, n)[i] = s[i + m - 1]
  OBVIOUS

LEMMA RemoveAtElements ==
  ASSUME NEW S, NEW s \in Seq(S), NEW k \in 1..Len(s)
  PROVE  /\ RemoveAt(s, k) \in Seq(S) /\ Len(RemoveAt(s, k)) = Len(s) - 1
         /\ \A i \in 1..(Len(s) - 1) : RemoveAt(s, k)[i] = IF i < k THEN s[i] ELSE s[i + 1]
  <1> DEFINE a == SubSeq(s, 1, k - 1)
             b == SubSeq(s, k + 1, Len(s))
  <1>1. a \in Seq(S) /\ Len(a) = k - 1 /\ \A i \in 1..(k - 1) : a[i] = s[i]
    BY SubSeqElements
  <1>2. b \in Seq(S) /\ Len(b) = Len(s) - k /\ \A i \in 1..(Len(s) - k) : b[i] = s[i + k]
    BY SubSeqElements
  <1> HIDE DEF a, b
  <1>3. RemoveAt(s, k) = a \o b
    BY DEF RemoveAt, a, b
  <1>0. Len(s) \in Nat /\ k \in Int /\ 1 <= k /\ k <= Len(s)
    OBVIOUS
  <1>4. a \o b \in Seq(S) /\ Len(a \o b) = Len(s) - 1
    <2>1. a \o b \in Seq(S) /\ Len(a \o b) = Len(a) + Len(b)
      BY <1>1, <1>2, ConcatProperties
    <2> QED
      BY <1>0, <1>1, <1>2, <2>1
  <1>5. ASSUME NEW i \in 1..(Len(s) - 1) PROVE (a \o b)[i] = IF i < k THEN s[i] ELSE s[i + 1]
    <2>0. i \in Int /\ k \in Int
      BY <1>0
    <2>1. CASE i < k
      BY <1>1, <1>2, <2>1, ConcatProperties
    <2>2. CASE ~(i < k)
      <3>1. (a \o b)[i] = b[i - (k - 1)] /\ i - (k - 1) \in 1..(Len(s) - k)
        BY <1>0, <1>1, <1>2, <2>0, <2>2, ConcatProperties
      <3> QED
        BY <1>0, <1>2, <2>0, <2>2, <3>1
    <2> QED
      BY <2>1, <2>2
  <1> QED
    BY <1>3, <1>4, <1>5

\* A step of a lock that leaves the wait objects alone.
LEMMA CallKeepsQueue ==
  ASSUME WaitType, WaitersQueue, NEW t \in Threads, pc[t] # "waiting", NEW l, pc' = [pc EXCEPT ![t] = l],
         \A u \in Threads : u # t => target'[u] = target[u], UNCHANGED objectVars
  PROVE  WaitersQueue'
  <1>1. \A u \in Threads : pc[u] = "waiting" => pc'[u] = "waiting" /\ target'[u] = target[u]
    BY DEF WaitType
  <1>2. \A o \in Objects : \A i \in 1..Len(queue[o]) : queue[o][i] \in Threads
    BY DEF WaitType
  <1> QED
    BY <1>1, <1>2 DEF WaitersQueue, objectVars, WaitType

LEMMA WaitStepType ==
  ASSUME WaitType, NEW t \in Threads, WaitStep(t)
  PROVE  WaitType'
  <1> USE ThreadsAreFinite DEF WaitType, Labels, Label, Returns, objectVars
  <1>1. CASE Wait(t)
    <2>0. target[t] \in Objects
      BY <1>1 DEF Wait
    <2>1. CASE t \in terminated /\ Label(t, "refused") /\ UNCHANGED objectVars
      BY <1>1, <2>1 DEF Wait
    <2>2. CASE /\ t \notin terminated /\ tokens[target[t]] > 0
               /\ tokens' = [tokens EXCEPT ![target[t]] = @ - 1]
               /\ Label(t, "granted") /\ UNCHANGED <<queue, handed>>
      BY <1>1, <2>0, <2>2 DEF Wait
    <2>3. CASE /\ t \notin terminated /\ tokens[target[t]] = 0
               /\ queue' = [queue EXCEPT ![target[t]] = Append(@, t)]
               /\ Label(t, "waiting") /\ UNCHANGED <<tokens, handed>>
      BY <1>1, <2>0, <2>3 DEF Wait
    <2> QED
      BY <1>1, <2>1, <2>2, <2>3 DEF Wait
  <1>2. CASE Wake(t)
    BY <1>2 DEF Wake
  <1>3. CASE GiveUp(t)
    <2>0. target[t] \in Objects
      BY <1>3 DEF GiveUp
    <2>1. PICK i \in 1..Len(queue[target[t]]) : queue' = [queue EXCEPT ![target[t]] = RemoveAt(@, i)]
      BY <1>3 DEF GiveUp
    <2>2. RemoveAt(queue[target[t]], i) \in Seq(Threads)
      BY <2>0, RemoveAtElements
    <2> QED
      BY <1>3, <2>0, <2>1, <2>2 DEF GiveUp
  <1>4. CASE Unresolved(t)
    <2>1. CASE pc[t] = "start" /\ Label(t, "failed")
      BY <1>4, <2>1 DEF Unresolved
    <2>2. CASE pc[t] = "signal" /\ Returns(t)
      BY <1>4, <2>2 DEF Unresolved
    <2> QED
      BY <1>4, <2>1, <2>2 DEF Unresolved
  <1>5. CASE Signal(t)
    <2> DEFINE o == target[t]
               n == IF amount[t] < Len(queue[o]) THEN amount[t] ELSE Len(queue[o])
               left == tokens[o] + amount[t] - n
    <2>1. o \in Objects /\ queue[o] \in Seq(Threads)
      BY <1>5 DEF Signal
    <2>2. n \in 0..Len(queue[o]) /\ n <= amount[t]
      BY <2>1
    <2>3. left \in Nat
      BY <2>1, <2>2
    <2>4. SubSeq(queue[o], 1, n) \in Seq(Threads) /\ SubSeq(queue[o], n + 1, Len(queue[o])) \in Seq(Threads)
      BY <2>1, <2>2, SubSeqElements
    <2>5. /\ handed' = handed \cup ToSet(SubSeq(queue[o], 1, n))
          /\ queue' = [queue EXCEPT ![o] = SubSeq(@, n + 1, Len(@))]
          /\ tokens' = [tokens EXCEPT ![o] = IF o \in Events /\ left > 1 THEN 1 ELSE left]
          /\ Returns(t)
          /\ UNCHANGED <<terminated, failures>>
      BY <1>5 DEF Signal
    <2> HIDE DEF n, left
    <2>6. ToSet(SubSeq(queue[o], 1, n)) \subseteq Threads
      BY <2>4 DEF ToSet
    <2>7. tokens' \in [Objects -> Nat] /\ queue' \in [Objects -> Seq(Threads)]
      BY <2>1, <2>3, <2>4, <2>5
    <2> QED
      BY <2>5, <2>6, <2>7
  <1>6. CASE Terminate(t)
    BY <1>6 DEF Terminate
  <1> QED
    BY <1>1, <1>2, <1>3, <1>4, <1>5, <1>6 DEF WaitStep

LEMMA WaitStepQueue ==
  ASSUME WaitType, WaitersQueue, NEW t \in Threads, WaitStep(t)
  PROVE  WaitersQueue'
  <1>0. \A o \in Objects : \A i \in 1..Len(queue[o]) : queue[o][i] \in Threads
    BY DEF WaitType
  <1>1. CASE Wait(t)
    <2>0. target[t] \in Objects /\ pc[t] = "start"
      BY <1>1 DEF Wait, WaitType
    <2>1. CASE UNCHANGED objectVars /\ pc' = [pc EXCEPT ![t] = "refused"] /\ target' = target
      BY <2>0, <2>1, CallKeepsQueue
    <2>2. CASE /\ UNCHANGED <<queue, handed>> /\ pc' = [pc EXCEPT ![t] = "granted"] /\ target' = target
      BY <1>0, <2>0, <2>2 DEF WaitersQueue, WaitType
    <2>3. CASE /\ queue' = [queue EXCEPT ![target[t]] = Append(@, t)] /\ target' = target
               /\ pc' = [pc EXCEPT ![t] = "waiting"] /\ handed' = handed
      <3> DEFINE o == target[t]
      <3>1. /\ queue'[o] = Append(queue[o], t) /\ Len(queue'[o]) = Len(queue[o]) + 1
            /\ \A i \in 1..Len(queue[o]) : queue'[o][i] = queue[o][i]
            /\ queue'[o][Len(queue[o]) + 1] = t
        BY <2>0, <2>3 DEF WaitType
      <3>2. \A p \in Objects : p # o => queue'[p] = queue[p]
        BY <2>3 DEF WaitType
      <3>3. /\ \A p \in Objects : \A i \in 1..Len(queue[p]) : queue[p][i] # t
            /\ t \notin handed
        BY <2>0 DEF WaitersQueue
      <3>4. pc'[t] = "waiting" /\ \A u \in Threads : u # t => pc'[u] = pc[u]
        BY <2>3 DEF WaitType
      <3>5. Len(queue[o]) \in Nat
        BY <2>0 DEF WaitType
      <3> HIDE DEF o
      <3>6. ASSUME NEW p \in Objects, p # o
            PROVE  /\ \A i, j \in 1..Len(queue'[p]) : queue'[p][i] = queue'[p][j] => i = j
                   /\ \A i \in 1..Len(queue'[p]) :
                        pc'[queue'[p][i]] = "waiting" /\ queue'[p][i] \notin handed' /\ target'[queue'[p][i]] = p
        BY <1>0, <2>3, <3>2, <3>3, <3>4, <3>6 DEF WaitersQueue
      <3>7. /\ \A i, j \in 1..Len(queue'[o]) : queue'[o][i] = queue'[o][j] => i = j
            /\ \A i \in 1..Len(queue'[o]) :
                 pc'[queue'[o][i]] = "waiting" /\ queue'[o][i] \notin handed' /\ target'[queue'[o][i]] = o
        <4>1. o \in Objects /\ target[t] = o
          BY <2>0 DEF o
        <4> QED
          BY <1>0, <2>3, <3>1, <3>3, <3>4, <3>5, <4>1 DEF WaitersQueue
      <3> QED
        BY <2>0, <2>3, <3>3, <3>4, <3>6, <3>7 DEF WaitersQueue, WaitType, o
    <2> QED
      BY <1>1, <2>1, <2>2, <2>3 DEF Wait, Label
  <1>2. CASE Wake(t)
    BY <1>0, <1>2 DEF WaitersQueue, WaitType, Wake, Label
  <1>3. CASE GiveUp(t)
    <2> DEFINE o == target[t]
    <2>0. o \in Objects /\ pc[t] = "waiting" /\ t \notin handed /\ queue[o] \in Seq(Threads)
      BY <1>3 DEF GiveUp, WaitType
    <2>1. PICK k \in 1..Len(queue[o]) : queue[o][k] = t /\ queue' = [queue EXCEPT ![o] = RemoveAt(@, k)]
      BY <1>3 DEF GiveUp
    <2>2. /\ queue'[o] = RemoveAt(queue[o], k) /\ \A p \in Objects : p # o => queue'[p] = queue[p]
      BY <2>0, <2>1 DEF WaitType
    <2>3. /\ Len(queue'[o]) = Len(queue[o]) - 1
          /\ \A i \in 1..Len(queue'[o]) : queue'[o][i] = IF i < k THEN queue[o][i] ELSE queue[o][i + 1]
      <3>1. /\ Len(RemoveAt(queue[o], k)) = Len(queue[o]) - 1
            /\ \A i \in 1..(Len(queue[o]) - 1) :
                 RemoveAt(queue[o], k)[i] = IF i < k THEN queue[o][i] ELSE queue[o][i + 1]
        BY <2>0, <2>1, RemoveAtElements
      <3> QED
        BY <2>2, <3>1
    <2>4. /\ \A u \in Threads : u # t => pc'[u] = pc[u]
          /\ target' = target /\ handed' = handed
      BY <1>3 DEF GiveUp, Label, WaitType
    <2>5. Len(queue[o]) \in Nat /\ k \in 1..Len(queue[o])
      BY <2>0, <2>1
    <2> HIDE DEF o
    <2>6. \A p \in Objects : \A i \in 1..Len(queue[p]) : queue[p][i] = t => p = o /\ i = k
      BY <2>0, <2>1 DEF WaitersQueue, o
    <2>7. ASSUME NEW i \in 1..Len(queue'[o])
          PROVE  \E m \in 1..Len(queue[o]) : /\ queue'[o][i] = queue[o][m] /\ m # k
                                             /\ m = IF i < k THEN i ELSE i + 1
      BY <2>3, <2>5
    <2>8. /\ \A i, j \in 1..Len(queue'[o]) : queue'[o][i] = queue'[o][j] => i = j
          /\ \A i \in 1..Len(queue'[o]) :
               pc'[queue'[o][i]] = "waiting" /\ queue'[o][i] \notin handed' /\ target'[queue'[o][i]] = o
      <3>1. ASSUME NEW i \in 1..Len(queue'[o]), NEW j \in 1..Len(queue'[o]), queue'[o][i] = queue'[o][j]
            PROVE  i = j
        <4>1. PICK m \in 1..Len(queue[o]) : queue'[o][i] = queue[o][m] /\ m = IF i < k THEN i ELSE i + 1
          BY <2>7
        <4>2. PICK n \in 1..Len(queue[o]) : queue'[o][j] = queue[o][n] /\ n = IF j < k THEN j ELSE j + 1
          BY <2>7
        <4>3. \A x, y \in 1..Len(queue[o]) : queue[o][x] = queue[o][y] => x = y
          BY <2>0 DEF WaitersQueue
        <4>4. m = n
          BY <3>1, <4>1, <4>2, <4>3
        <4> QED
          BY <2>3, <2>5, <4>1, <4>2, <4>4
      <3>2. ASSUME NEW i \in 1..Len(queue'[o])
            PROVE  pc'[queue'[o][i]] = "waiting" /\ queue'[o][i] \notin handed' /\ target'[queue'[o][i]] = o
        <4>1. PICK m \in 1..Len(queue[o]) : queue'[o][i] = queue[o][m] /\ m # k
          BY <2>7
        <4> QED
          BY <1>0, <2>0, <2>4, <2>6, <4>1 DEF WaitersQueue
      <3> QED
        BY <3>1, <3>2
    <2>9. ASSUME NEW p \in Objects, p # o
          PROVE  /\ \A i, j \in 1..Len(queue'[p]) : queue'[p][i] = queue'[p][j] => i = j
                 /\ \A i \in 1..Len(queue'[p]) :
                      pc'[queue'[p][i]] = "waiting" /\ queue'[p][i] \notin handed' /\ target'[queue'[p][i]] = p
      BY <1>0, <2>2, <2>4, <2>6, <2>9 DEF WaitersQueue
    <2>10. \A u \in handed' : pc'[u] = "waiting"
      BY <2>0, <2>4 DEF WaitersQueue, WaitType
    <2> QED
      BY <2>8, <2>9, <2>10 DEF WaitersQueue
  <1>4. CASE Unresolved(t)
    <2>1. pc[t] # "waiting" /\ UNCHANGED objectVars
          /\ \E l : pc' = [pc EXCEPT ![t] = l] /\ \A u \in Threads : u # t => target'[u] = target[u]
      BY <1>4 DEF Unresolved, Label, Returns, WaitType
    <2> QED
      BY <2>1, CallKeepsQueue
  <1>5. CASE Signal(t)
    <2> DEFINE o == target[t]
               n == IF amount[t] < Len(queue[o]) THEN amount[t] ELSE Len(queue[o])
    <2>1. o \in Objects /\ queue[o] \in Seq(Threads) /\ Len(queue[o]) \in Nat
      BY <1>5 DEF Signal, WaitType
    <2>2. n \in 0..Len(queue[o])
      BY <2>1 DEF WaitType
    <2>3. /\ handed' = handed \cup ToSet(SubSeq(queue[o], 1, n))
          /\ queue' = [queue EXCEPT ![o] = SubSeq(@, n + 1, Len(@))]
          /\ pc[t] = "signal" /\ pc' = [pc EXCEPT ![t] = "out"] /\ target' = [target EXCEPT ![t] = None]
      BY <1>5 DEF Signal, Returns
    <2> HIDE DEF n
    <2>4. /\ Len(queue'[o]) = Len(queue[o]) - n
          /\ \A i \in 1..Len(queue'[o]) : queue'[o][i] = queue[o][i + n]
          /\ \A p \in Objects : p # o => queue'[p] = queue[p]
      <3>1. queue'[o] = SubSeq(queue[o], n + 1, Len(queue[o])) /\ \A p \in Objects : p # o => queue'[p] = queue[p]
        BY <2>1, <2>3 DEF WaitType
      <3>2. /\ Len(SubSeq(queue[o], n + 1, Len(queue[o]))) = Len(queue[o]) - n
            /\ \A i \in 1..(Len(queue[o]) - n) : SubSeq(queue[o], n + 1, Len(queue[o]))[i] = queue[o][i + n]
        BY <2>1, <2>2
      <3> QED
        BY <3>1, <3>2
    <2>5. ToSet(SubSeq(queue[o], 1, n)) = {queue[o][i] : i \in 1..n}
      <3>1. Len(SubSeq(queue[o], 1, n)) = n /\ \A i \in 1..n : SubSeq(queue[o], 1, n)[i] = queue[o][i]
        BY <2>1, <2>2, SubSeqElements
      <3>2. DOMAIN SubSeq(queue[o], 1, n) = 1..n
        BY <2>1, <2>2
      <3> QED
        BY <3>1, <3>2 DEF ToSet
    <2>6. \A u \in Threads : u # t => pc'[u] = pc[u] /\ target'[u] = target[u]
      BY <2>3 DEF WaitType
    <2>7. \A p \in Objects : \A i \in 1..Len(queue[p]) : queue[p][i] # t
      BY <2>3 DEF WaitersQueue
    <2> HIDE DEF o
    <2>8. \A u \in handed' : pc'[u] = "waiting"
      <3>1. \A i \in 1..n : i \in 1..Len(queue[o])
        BY <2>1, <2>2
      <3>2. \A u \in handed : u \in Threads /\ pc[u] = "waiting" /\ u # t
        BY <2>3 DEF WaitersQueue, WaitType
      <3>3. \A i \in 1..n : queue[o][i] \in Threads /\ pc[queue[o][i]] = "waiting" /\ queue[o][i] # t
        BY <1>0, <2>1, <2>3, <3>1 DEF WaitersQueue
      <3> QED
        BY <2>3, <2>5, <2>6, <3>2, <3>3
    <2>9. ASSUME NEW p \in Objects, p # o
          PROVE  /\ \A i, j \in 1..Len(queue'[p]) : queue'[p][i] = queue'[p][j] => i = j
                 /\ \A i \in 1..Len(queue'[p]) :
                      pc'[queue'[p][i]] = "waiting" /\ queue'[p][i] \notin handed' /\ target'[queue'[p][i]] = p
      <3>1. \A i \in 1..Len(queue[p]) : queue[p][i] \notin {queue[o][m] : m \in 1..n}
        <4>1. \A m \in 1..n : m \in 1..Len(queue[o])
          BY <2>1, <2>2
        <4> QED
          BY <2>1, <2>9, <4>1 DEF WaitersQueue
      <3> QED
        BY <1>0, <2>3, <2>4, <2>5, <2>6, <2>7, <2>9, <3>1 DEF WaitersQueue
    <2>10. /\ \A i, j \in 1..Len(queue'[o]) : queue'[o][i] = queue'[o][j] => i = j
           /\ \A i \in 1..Len(queue'[o]) :
                pc'[queue'[o][i]] = "waiting" /\ queue'[o][i] \notin handed' /\ target'[queue'[o][i]] = o
      <3>1. \A i \in 1..Len(queue'[o]) : i + n \in 1..Len(queue[o]) /\ i + n > n
        BY <2>1, <2>2, <2>4
      <3>2. \A i \in 1..Len(queue'[o]) : queue[o][i + n] \notin {queue[o][m] : m \in 1..n}
        <4>1. \A m \in 1..n : m \in 1..Len(queue[o]) /\ m <= n
          BY <2>1, <2>2
        <4> QED
          BY <2>1, <2>2, <3>1, <4>1 DEF WaitersQueue
      <3>3. ASSUME NEW i \in 1..Len(queue'[o]), NEW j \in 1..Len(queue'[o]), queue'[o][i] = queue'[o][j]
            PROVE  i = j
        <4>1. i + n = j + n
          BY <2>1, <2>4, <3>1, <3>3 DEF WaitersQueue
        <4> QED
          BY <2>2, <4>1
      <3>4. ASSUME NEW i \in 1..Len(queue'[o])
            PROVE  pc'[queue'[o][i]] = "waiting" /\ queue'[o][i] \notin handed' /\ target'[queue'[o][i]] = o
        <4>1. i + n \in 1..Len(queue[o]) /\ queue'[o][i] = queue[o][i + n]
          BY <2>4, <3>1
        <4>2. /\ queue[o][i + n] \in Threads /\ queue[o][i + n] # t /\ queue[o][i + n] \notin handed
              /\ pc[queue[o][i + n]] = "waiting" /\ target[queue[o][i + n]] = o
          BY <1>0, <2>1, <2>7, <4>1 DEF WaitersQueue
        <4>3. PICK u \in Threads : /\ u = queue'[o][i] /\ u # t /\ u \notin handed
                                  /\ pc[u] = "waiting" /\ target[u] = o
                                  /\ u \notin {queue[o][m] : m \in 1..n}
          BY <3>2, <4>1, <4>2
        <4>4. pc'[u] = "waiting" /\ target'[u] = o
          BY <2>6, <4>3
        <4>5. handed' = handed \cup {queue[o][m] : m \in 1..n}
          BY <2>3, <2>5
        <4>6. u \notin handed'
          BY <4>3, <4>5
        <4> QED
          BY <4>3, <4>4, <4>6
      <3> QED
        BY <3>3, <3>4
    <2> QED
      BY <2>8, <2>9, <2>10 DEF WaitersQueue
  <1>6. CASE Terminate(t)
    BY <1>6 DEF Terminate, WaitersQueue, objectVars
  <1> QED
    BY <1>1, <1>2, <1>3, <1>4, <1>5, <1>6 DEF WaitStep

-----------------------------------------------------------------------------
(* The critical section.                                                   *)

SectionType ==
    /\ WaitType /\ WaitersQueue
    /\ \A t \in Threads : pc[t] # "out" => target[t] = Header /\ amount[t] = 1
    /\ depth \in [Threads -> Nat] /\ recursion \in Nat
    /\ lockCount \in Int /\ owner \in Threads \cup {None}

\* What is on its way to a waiter: nothing, or one signal that is to be sent,
\* is on the event, or was granted.
NoBaton == tokens[Header] = 0 /\ Senders(Header) = {} /\ Receivers(Header) = {}
OneBaton ==
    \/ tokens[Header] = 1 /\ Senders(Header) = {} /\ Receivers(Header) = {}
    \/ tokens[Header] = 0 /\ Receivers(Header) = {} /\ \E t \in Threads : Senders(Header) = {t}
    \/ tokens[Header] = 0 /\ Senders(Header) = {} /\ \E t \in Threads : Receivers(Header) = {t}

\* The owner has entered as often as the recursion count says and nobody else
\* has entered at all.
OwnerIsInside ==
    /\ owner = None => recursion = 0
    /\ owner # None => recursion > 0 /\ depth[owner] = recursion
    /\ \A t \in Threads : t # owner => depth[t] = 0

CountIsEnough ==
    /\ lockCount + 1 >= recursion + Cardinality(Registered({Header}))
    /\ terminated = {} => lockCount + 1 = recursion + Cardinality(Registered({Header}))

SectionInv ==
    /\ SectionType
    /\ failures = 0 =>
          /\ \A t \in Threads : pc[t] # "failed"
          /\ OwnerIsInside
          /\ CountIsEnough
          /\ IF owner = None /\ lockCount >= 0 THEN OneBaton ELSE NoBaton

LEMMA RegisteredIsFinite ==
  ASSUME NEW o
  PROVE  IsFiniteSet(Registered({o})) /\ Cardinality(Registered({o})) \in Nat
  BY ThreadsAreFinite DEF Registered

LEMMA OneOfMany == \A m \in Nat : m > 0 => (IF 1 < m THEN 1 ELSE m) = 1
  OBVIOUS

\* A wait step moves the one signal on and never makes another.
LEMMA WaitStepBaton ==
  ASSUME SectionType, NEW t \in Threads, WaitStep(t), failures' = 0
  PROVE  (NoBaton => NoBaton') /\ (OneBaton => OneBaton')
  <1> USE DEF SectionType, WaitType
  <1>0. Header \in Objects /\ Header \in Events /\ Header # None
    BY SectionAssumption, ThreadsAreFinite DEF Objects
  <1>1. CASE Wait(t)
    <2>0. pc[t] = "start" /\ t \notin handed /\ target[t] = Header
      BY <1>1 DEF Wait, WaitersQueue
    <2>1. CASE (Label(t, "refused") \/ Label(t, "waiting")) /\ UNCHANGED <<tokens, handed>>
      <3>1. Senders(Header)' = Senders(Header) /\ Receivers(Header)' = Receivers(Header)
        BY <2>0, <2>1 DEF Label, Senders, Receivers
      <3> QED
        BY <2>1, <3>1 DEF NoBaton, OneBaton
    <2>2. CASE /\ tokens[target[t]] > 0 /\ tokens' = [tokens EXCEPT ![target[t]] = @ - 1]
               /\ Label(t, "granted") /\ UNCHANGED <<queue, handed>>
      <3>1. Senders(Header)' = Senders(Header) /\ Receivers(Header)' = Receivers(Header) \cup {t}
        BY <2>0, <2>2 DEF Label, Senders, Receivers
      <3>2. tokens[Header] > 0 /\ tokens'[Header] = tokens[Header] - 1
        BY <1>0, <2>0, <2>2
      <3>3. ~NoBaton
        BY <3>2 DEF NoBaton
      <3>4. OneBaton => tokens[Header] = 1 /\ Senders(Header) = {} /\ Receivers(Header) = {}
        BY <3>2 DEF OneBaton
      <3>5. OneBaton => tokens'[Header] = 0 /\ Senders(Header)' = {} /\ Receivers(Header)' = {t}
        BY <3>1, <3>2, <3>4
      <3> QED
        BY <3>3, <3>5 DEF OneBaton
    <2> QED
      BY <1>1, <2>1, <2>2 DEF Wait, objectVars
  <1>2. CASE Wake(t)
    <2>1. Senders(Header)' = Senders(Header) /\ Receivers(Header)' = Receivers(Header)
      BY <1>2 DEF Wake, Label, Senders, Receivers
    <2> QED
      BY <1>2, <2>1 DEF Wake, NoBaton, OneBaton
  <1>3. CASE GiveUp(t)
    <2>1. Senders(Header)' = Senders(Header) /\ Receivers(Header)' = Receivers(Header)
      BY <1>3 DEF GiveUp, Label, Senders, Receivers
    <2> QED
      BY <1>3, <2>1 DEF GiveUp, NoBaton, OneBaton
  <1>4. CASE Unresolved(t)
    BY <1>4 DEF Unresolved
  <1>5. CASE Signal(t)
    <2>1. /\ pc[t] = "signal" /\ target[t] = Header /\ amount[t] = 1 /\ t \in Senders(Header)
          /\ queue[Header] \in Seq(Threads) /\ Len(queue[Header]) \in Nat
      BY <1>0, <1>5 DEF Signal, Senders
    <2> SUFFICES ASSUME OneBaton PROVE OneBaton'
      BY <2>1 DEF NoBaton
    <2>2. tokens[Header] = 0 /\ Receivers(Header) = {} /\ Senders(Header) = {t}
      BY <2>1 DEF OneBaton
    <2>3. Senders(Header)' = {}
      BY <1>5, <2>2 DEF Signal, Returns, Senders
    <2>4. CASE Len(queue[Header]) = 0
      <3>1. handed' = handed \cup ToSet(SubSeq(queue[Header], 1, 0)) /\ tokens'[Header] = 1
        BY <1>0, <1>5, <2>1, <2>2, <2>4 DEF Signal
      <3>2. ToSet(SubSeq(queue[Header], 1, 0)) = {}
        BY <2>1 DEF ToSet
      <3>3. Receivers(Header)' = {}
        BY <1>0, <1>5, <2>1, <2>2, <3>1, <3>2 DEF Signal, Returns, Receivers
      <3> QED
        BY <2>3, <3>1, <3>3 DEF OneBaton
    <2>5. CASE Len(queue[Header]) > 0
      <3> DEFINE u == queue[Header][1]
      <3>1. handed' = handed \cup ToSet(SubSeq(queue[Header], 1, 1)) /\ tokens'[Header] = 0
        <4> DEFINE n == IF amount[t] < Len(queue[target[t]]) THEN amount[t] ELSE Len(queue[target[t]])
                   left == tokens[target[t]] + amount[t] - n
        <4>1. /\ handed' = handed \cup ToSet(SubSeq(queue[target[t]], 1, n))
              /\ tokens' = [tokens EXCEPT ![target[t]] = IF target[t] \in Events /\ left > 1 THEN 1 ELSE left]
          BY <1>5 DEF Signal
        <4>2. n = 1
          <5>1. PICK m \in Nat : m = Len(queue[target[t]]) /\ m > 0
            BY <2>1, <2>5
          <5>2. (IF 1 < m THEN 1 ELSE m) = 1
            BY <5>1, OneOfMany
          <5> QED
            BY <2>1, <5>1, <5>2
        <4>3. left = 0
          BY <2>1, <2>2, <4>2
        <4> HIDE DEF n, left
        <4> QED
          BY <1>0, <2>1, <4>1, <4>2, <4>3
      <3>2. ToSet(SubSeq(queue[Header], 1, 1)) = {u}
        BY <2>1, <2>5 DEF ToSet
      <3>3. u \in Threads /\ pc[u] = "waiting" /\ target[u] = Header
        BY <1>0, <2>1, <2>5 DEF WaitersQueue
      <3> HIDE DEF u
      <3>4. Receivers(Header)' = {u}
        <4>1. \A v \in Threads : target[v] = Header => v \notin handed /\ pc[v] # "granted"
          BY <2>2 DEF Receivers
        <4>2. pc' = [pc EXCEPT ![t] = "out"] /\ target' = [target EXCEPT ![t] = None]
          BY <1>5 DEF Signal, Returns
        <4>3. u # t /\ handed' = handed \cup {u}
          BY <2>1, <3>1, <3>2, <3>3
        <4>4. \A v \in Threads : v \in Receivers(Header)' <=> v = u
          BY <1>0, <3>3, <4>1, <4>2, <4>3 DEF Receivers
        <4> QED
          BY <3>3, <4>4 DEF Receivers
      <3> QED
        BY <2>3, <3>1, <3>3, <3>4 DEF OneBaton
    <2> QED
      BY <2>1, <2>4, <2>5
  <1>6. CASE Terminate(t)
    <2>1. Senders(Header)' = Senders(Header) /\ Receivers(Header)' = Receivers(Header)
      BY <1>6 DEF Terminate, objectVars, Senders, Receivers
    <2> QED
      BY <1>6, <2>1 DEF Terminate, objectVars, NoBaton, OneBaton
  <1> QED
    BY <1>1, <1>2, <1>3, <1>4, <1>5, <1>6 DEF WaitStep

\* A wait step keeps the registrations but of a waiter that was terminated.
LEMMA WaitStepRegistered ==
  ASSUME WaitType, WaitersQueue, NEW t \in Threads, WaitStep(t), failures' = 0, NEW S
  PROVE  /\ terminated \subseteq terminated'
         /\ \/ Registered(S)' = Registered(S)
            \/ Registered(S)' = Registered(S) \ {t} /\ t \in terminated
  <1> USE DEF WaitType, Registered
  <1>1. CASE Wait(t)
    BY <1>1 DEF Wait, Label
  <1>2. CASE Wake(t)
    BY <1>2 DEF Wake, Label
  <1>3. CASE GiveUp(t)
    BY <1>3 DEF GiveUp, Label
  <1>4. CASE Unresolved(t)
    BY <1>4 DEF Unresolved
  <1>5. CASE Signal(t)
    BY <1>5 DEF Signal, Returns
  <1>6. CASE Terminate(t)
    BY <1>6 DEF Terminate
  <1> QED
    BY <1>1, <1>2, <1>3, <1>4, <1>5, <1>6 DEF WaitStep

LEMMA WaitStepSection ==
  ASSUME SectionInv, NEW t \in Threads, WaitStep(t), UNCHANGED sectionVars
  PROVE  SectionInv'
  <1> USE DEF SectionInv, sectionVars
  <1>1. WaitType' /\ WaitersQueue'
    BY WaitStepType, WaitStepQueue DEF SectionType
  <1>2. \A u \in Threads : pc'[u] # "out" => target'[u] = Header /\ amount'[u] = 1
    <2>1. CASE Signal(t)
      BY <2>1 DEF SectionType, WaitType, Signal, Returns
    <2>2. CASE Wait(t) \/ Wake(t) \/ GiveUp(t)
      BY <2>2 DEF SectionType, WaitType, Wait, Wake, GiveUp, Label
    <2>3. CASE Unresolved(t)
      BY <2>3 DEF SectionType, WaitType, Unresolved, Label, Returns
    <2>4. CASE Terminate(t)
      BY <2>4 DEF SectionType, Terminate
    <2> QED
      BY <2>1, <2>2, <2>3, <2>4 DEF WaitStep
  <1>3. SectionType'
    BY <1>1, <1>2 DEF SectionType
  <1> SUFFICES ASSUME failures' = 0
               PROVE  /\ \A u \in Threads : pc'[u] # "failed"
                      /\ OwnerIsInside' /\ CountIsEnough'
                      /\ IF owner' = None /\ lockCount' >= 0 THEN OneBaton' ELSE NoBaton'
    BY <1>3
  <1>4. failures = 0
    BY DEF WaitStep, Wait, Wake, GiveUp, Unresolved, Signal, Terminate, SectionType, WaitType
  <1>5. \A u \in Threads : pc'[u] # "failed"
    <2>1. CASE Unresolved(t)
      BY <1>4, <2>1 DEF Unresolved
    <2>2. CASE Signal(t)
      BY <1>4, <2>2 DEF SectionType, WaitType, Signal, Returns
    <2>3. CASE Wait(t) \/ Wake(t) \/ GiveUp(t) \/ Terminate(t)
      BY <1>4, <2>3 DEF SectionType, WaitType, Wait, Wake, GiveUp, Label, Terminate
    <2> QED
      BY <2>1, <2>2, <2>3 DEF WaitStep
  <1>6. OwnerIsInside'
    BY <1>4 DEF OwnerIsInside
  <1>7. CountIsEnough'
    <2> DEFINE R == Registered({Header})
    <2>1. IsFiniteSet(R) /\ Cardinality(R) \in Nat
      BY RegisteredIsFinite
    <2>2. lockCount \in Int /\ recursion \in Nat /\ lockCount' = lockCount /\ recursion' = recursion
      BY DEF SectionType
    <2>3. /\ terminated \subseteq terminated'
          /\ R' = R \/ (R' = R \ {t} /\ t \in terminated)
      BY WaitStepRegistered DEF SectionType
    <2>4. /\ lockCount + 1 >= recursion + Cardinality(R)
          /\ terminated = {} => lockCount + 1 = recursion + Cardinality(R)
      BY <1>4 DEF CountIsEnough
    <2> HIDE DEF R
    <2>5. CASE R' = R
      <3>1. /\ lockCount' + 1 >= recursion' + Cardinality(R')
            /\ terminated' = {} => lockCount' + 1 = recursion' + Cardinality(R')
        BY <2>2, <2>3, <2>4, <2>5
      <3> QED
        BY <3>1 DEF CountIsEnough, R
    <2>6. CASE R' = R \ {t} /\ t \in terminated
      <3>1. Cardinality(R \ {t}) \in Nat /\ Cardinality(R \ {t}) <= Cardinality(R)
        BY <2>1, FS_Subset, FS_CardinalityType
      <3>2. /\ lockCount' + 1 >= recursion' + Cardinality(R')
            /\ terminated' # {}
        BY <2>1, <2>2, <2>3, <2>4, <2>6, <3>1
      <3> QED
        BY <3>2 DEF CountIsEnough, R
    <2> QED
      BY <2>3, <2>5, <2>6
  <1>8. IF owner' = None /\ lockCount' >= 0 THEN OneBaton' ELSE NoBaton'
    BY <1>4, WaitStepBaton
  <1> QED
    BY <1>5, <1>6, <1>7, <1>8

\* A call of the section that neither starts a wait nor a signal.
LEMMA SectionStepType ==
  ASSUME SectionType, NEW t \in Threads, Enter(t) \/ TryEnter(t) \/ Leave(t) \/ SectionCall(t)
  PROVE  SectionType'
  <1> USE SectionAssumption, ThreadsAreFinite DEF SectionType, WaitType, Labels, Objects, Entered, Own, Calls,
       waitVars, objectVars
  <1>0. pc[t] # "waiting"
    BY DEF Enter, TryEnter, Leave, SectionCall, TakeOver, Refused, EnterUnsynchronized
  <1>1. WaitersQueue'
    <2>1. UNCHANGED objectVars /\ \E l : pc' = [pc EXCEPT ![t] = l] /\ \A u \in Threads : u # t => target'[u] = target[u]
      <3>1. CASE Enter(t)
        BY <3>1 DEF Enter, Reenter, GoesOn
      <3>2. CASE TryEnter(t)
        BY <3>2 DEF TryEnter, Reenter
      <3>3. CASE Leave(t)
        BY <3>3 DEF Leave, GoesOn
      <3>4. CASE SectionCall(t)
        BY <3>4 DEF SectionCall, TakeOver, Refused, EnterUnsynchronized, Returns
      <3> QED
        BY <3>1, <3>2, <3>3, <3>4
    <2> HIDE DEF WaitType
    <2> QED
      BY <1>0, <2>1, CallKeepsQueue
  <1>2. CASE Enter(t)
    <2>1. CASE Reenter(t)
      BY <1>1, <2>1 DEF Reenter
    <2>2. CASE owner # t /\ lockCount = -1 /\ lockCount' = 0 /\ Own(t) /\ UNCHANGED waitVars
      BY <1>1, <2>2
    <2>3. CASE /\ lockCount' = lockCount + 1 /\ GoesOn(t, "start", Header, 1)
               /\ UNCHANGED <<recursion, owner, depth, objectVars, terminated, failures>>
      BY <1>1, <2>3 DEF GoesOn
    <2> QED
      BY <1>2, <2>1, <2>2, <2>3 DEF Enter
  <1>3. CASE TryEnter(t)
    <2>1. CASE Reenter(t)
      BY <1>1, <2>1 DEF Reenter
    <2>2. CASE lockCount' = 0 /\ Own(t) /\ UNCHANGED waitVars
      BY <1>1, <2>2
    <2> QED
      BY <1>3, <2>1, <2>2 DEF TryEnter
  <1>4. CASE Leave(t)
    <2>0. depth' \in [Threads -> Nat]
      BY <1>4 DEF Leave
    <2>1. CASE recursion = 0 /\ UNCHANGED <<lockCount, recursion, owner, waitVars>>
      BY <1>1, <2>0, <2>1
    <2>2. CASE /\ recursion > 1 /\ recursion' = recursion - 1 /\ lockCount' = lockCount - 1
               /\ UNCHANGED <<owner, waitVars>>
      BY <1>1, <2>0, <2>2
    <2>3. CASE /\ recursion' = 0 /\ owner' = None /\ lockCount' = lockCount - 1
               /\ GoesOn(t, "signal", Header, 1)
               /\ UNCHANGED <<objectVars, terminated, failures>>
      BY <1>1, <2>0, <2>3 DEF GoesOn
    <2>4. CASE /\ recursion' = 0 /\ owner' = None /\ lockCount' = lockCount - 1
               /\ UNCHANGED <<pc, target, amount>>
               /\ UNCHANGED <<objectVars, terminated, failures>>
      BY <1>1, <2>0, <2>4
    <2> QED
      BY <1>4, <2>1, <2>2, <2>3, <2>4 DEF Leave
  <1>5. CASE TakeOver(t)
    BY <1>1, <1>5 DEF TakeOver, Returns
  <1>6. CASE Refused(t)
    <2>1. CASE t \in RunsOn
      <3>1. depth' = [depth EXCEPT ![t] = depth[t] + 1] /\ depth[t] + 1 \in Nat
        BY <1>6, <2>1 DEF Refused
      <3>2. depth' \in [Threads -> Nat]
        BY <3>1
      <3>3. Returns(t) /\ UNCHANGED <<lockCount, recursion, owner, objectVars, terminated, failures>>
        BY <1>6 DEF Refused
      <3> QED
        BY <1>1, <3>2, <3>3 DEF Returns
    <2>2. CASE t \notin RunsOn
      BY <1>1, <1>6, <2>2 DEF Refused, Returns
    <2> QED
      BY <2>1, <2>2
  <1>7. CASE EnterUnsynchronized(t)
    BY <1>1, <1>7 DEF EnterUnsynchronized, Returns
  <1> QED
    BY <1>2, <1>3, <1>4, <1>5, <1>6, <1>7 DEF SectionCall

\* What a step says of a section whose waits have all been resolved.
SectionGood ==
    /\ \A t \in Threads : pc[t] # "failed"
    /\ OwnerIsInside
    /\ CountIsEnough
    /\ IF owner = None /\ lockCount >= 0 THEN OneBaton ELSE NoBaton

\* Nothing but the counters moves, and with them the depth.
LEMMA StandStill ==
  ASSUME UNCHANGED waitVars
  PROVE  /\ OneBaton' = OneBaton /\ NoBaton' = NoBaton
         /\ Registered({Header})' = Registered({Header})
  BY DEF waitVars, OneBaton, NoBaton, Registered, Senders, Receivers

LEMMA EnterGood ==
  ASSUME SectionType, SectionGood, NEW t \in Threads, Enter(t) \/ TryEnter(t)
  PROVE  SectionGood'
  <1> DEFINE R == Registered({Header})
  <1> USE DEF SectionType
  <1>0. IsFiniteSet(R) /\ Cardinality(R) \in Nat
    BY RegisteredIsFinite
  <1>1. /\ lockCount + 1 >= recursion + Cardinality(R)
        /\ terminated = {} => lockCount + 1 = recursion + Cardinality(R)
    BY DEF SectionGood, CountIsEnough
  <1> HIDE DEF R
  <1>2. CASE Reenter(t)
    <2>1. UNCHANGED waitVars /\ R' = R /\ OneBaton' = OneBaton /\ NoBaton' = NoBaton
      BY <1>2, StandStill DEF Reenter, R
    <2>2. owner = t /\ owner' = owner /\ lockCount' = lockCount + 1 /\ recursion' = recursion + 1
          /\ depth' = [depth EXCEPT ![t] = @ + 1]
      BY <1>2 DEF Reenter, Entered
    <2>3. OwnerIsInside'
      BY <2>2, ThreadsAreFinite DEF SectionGood, OwnerIsInside
    <2>4. CountIsEnough'
      <3>1. /\ lockCount' + 1 >= recursion' + Cardinality(R')
            /\ terminated' = {} => lockCount' + 1 = recursion' + Cardinality(R')
        BY <1>0, <1>1, <2>1, <2>2 DEF waitVars
      <3> QED
        BY <3>1 DEF CountIsEnough, R
    <2>5. NoBaton' /\ owner' # None
      BY <2>1, <2>2, ThreadsAreFinite DEF SectionGood
    <2> QED
      BY <2>1, <2>3, <2>4, <2>5 DEF SectionGood, waitVars
  <1>3. CASE lockCount = -1 /\ lockCount' = 0 /\ Own(t) /\ UNCHANGED waitVars
    <2>1. R' = R /\ OneBaton' = OneBaton /\ NoBaton' = NoBaton
      BY <1>3, StandStill DEF R
    <2>2. recursion = 0 /\ Cardinality(R) = 0
      BY <1>0, <1>1, <1>3
    <2>3. owner = None /\ NoBaton
      BY <1>3, <2>2 DEF SectionGood, OwnerIsInside
    <2>4. owner' = t /\ recursion' = 1 /\ depth' = [depth EXCEPT ![t] = @ + 1]
      BY <1>3 DEF Own, Entered
    <2>5. OwnerIsInside'
      BY <2>3, <2>4, ThreadsAreFinite DEF SectionGood, OwnerIsInside
    <2>6. CountIsEnough'
      <3>1. lockCount' + 1 = recursion' + Cardinality(R')
        BY <1>3, <2>1, <2>2, <2>4
      <3>2. lockCount' + 1 >= recursion' + Cardinality(R')
        BY <1>3, <2>1, <2>2, <2>4
      <3> QED
        BY <3>1, <3>2 DEF CountIsEnough, R
    <2> QED
      BY <1>3, <2>1, <2>3, <2>4, <2>5, <2>6, ThreadsAreFinite DEF SectionGood, waitVars
  <1>4. CASE /\ Calls(t) /\ owner # t /\ lockCount # -1 /\ lockCount' = lockCount + 1
             /\ GoesOn(t, "start", Header, 1)
             /\ UNCHANGED <<recursion, owner, depth, objectVars, terminated, failures>>
    <2>1. /\ pc[t] = "out" /\ target[t] = None /\ t \notin handed
          /\ pc' = [pc EXCEPT ![t] = "start"] /\ target' = [target EXCEPT ![t] = Header]
      BY <1>4 DEF Calls, GoesOn, WaitType, WaitersQueue
    <2>2. R' = R \cup {t} /\ t \notin R
      BY <2>1 DEF R, Registered, WaitType
    <2>3. Senders(Header)' = Senders(Header) /\ Receivers(Header)' = Receivers(Header)
      BY <1>4, <2>1, ThreadsAreFinite, SectionAssumption DEF Senders, Receivers, WaitType, objectVars, Objects
    <2>4. OneBaton' = OneBaton /\ NoBaton' = NoBaton
      BY <1>4, <2>3 DEF OneBaton, NoBaton, objectVars
    <2>5. OwnerIsInside'
      BY <1>4 DEF SectionGood, OwnerIsInside
    <2>6. CountIsEnough'
      <3>1. Cardinality(R') = Cardinality(R) + 1
        BY <1>0, <2>2, FS_AddElement
      <3>2. /\ lockCount' + 1 >= recursion' + Cardinality(R')
            /\ terminated' = {} => lockCount' + 1 = recursion' + Cardinality(R')
        BY <1>0, <1>1, <1>4, <3>1
      <3> QED
        BY <3>2 DEF CountIsEnough, R
    <2>7. lockCount >= 0 /\ lockCount' >= 0
      BY <1>0, <1>1, <1>4
    <2>8. \A u \in Threads : pc'[u] # "failed"
      BY <2>1 DEF SectionGood, WaitType
    <2> QED
      BY <1>4, <2>4, <2>5, <2>6, <2>7, <2>8 DEF SectionGood
  <1> QED
    BY <1>2, <1>3, <1>4 DEF Enter, TryEnter

LEMMA LeaveGood ==
  ASSUME SectionType, SectionGood, NEW t \in Threads, Leave(t)
  PROVE  SectionGood'
  <1> DEFINE R == Registered({Header})
  <1> USE DEF SectionType
  <1>0. IsFiniteSet(R) /\ Cardinality(R) \in Nat
    BY RegisteredIsFinite
  <1>1. /\ lockCount + 1 >= recursion + Cardinality(R)
        /\ terminated = {} => lockCount + 1 = recursion + Cardinality(R)
    BY DEF SectionGood, CountIsEnough
  <1>2. /\ depth[t] > 0 /\ depth' = [depth EXCEPT ![t] = @ - 1] /\ owner = t /\ recursion = depth[t]
        /\ pc[t] = "out" /\ NoBaton /\ owner # None
    <2>1. depth[t] > 0 /\ depth' = [depth EXCEPT ![t] = @ - 1] /\ pc[t] = "out"
      BY DEF Leave, Calls
    <2>2. owner = t
      BY <2>1 DEF SectionGood, OwnerIsInside
    <2> QED
      BY <2>1, <2>2, ThreadsAreFinite DEF SectionGood, OwnerIsInside
  <1> HIDE DEF R
  <1>3. CASE recursion > 1
    <2>1. recursion' = recursion - 1 /\ lockCount' = lockCount - 1 /\ owner' = owner /\ UNCHANGED waitVars
      BY <1>3 DEF Leave
    <2>2. R' = R /\ NoBaton'
      BY <1>2, <2>1, StandStill DEF R
    <2>3. OwnerIsInside'
      BY <1>2, <1>3, <2>1, ThreadsAreFinite DEF SectionGood, OwnerIsInside
    <2>4. CountIsEnough'
      <3>1. /\ lockCount' + 1 >= recursion' + Cardinality(R')
            /\ terminated' = {} => lockCount' + 1 = recursion' + Cardinality(R')
        BY <1>0, <1>1, <2>1, <2>2 DEF waitVars
      <3> QED
        BY <3>1 DEF CountIsEnough, R
    <2> QED
      BY <1>2, <2>1, <2>2, <2>3, <2>4 DEF SectionGood, waitVars
  <1>4. CASE recursion = 1
    <2>1. /\ recursion' = 0 /\ owner' = None /\ lockCount' = lockCount - 1
          /\ IF lockCount' # -1 THEN GoesOn(t, "signal", Header, 1) ELSE UNCHANGED <<pc, target, amount>>
          /\ UNCHANGED <<objectVars, terminated, failures>>
      BY <1>4 DEF Leave
    <2>2. R' = R
      BY <1>2, <2>1 DEF R, Registered, GoesOn, WaitType
    <2>3. OwnerIsInside'
      BY <1>2, <1>4, <2>1 DEF SectionGood, OwnerIsInside
    <2>4. lockCount' >= -1 /\ CountIsEnough'
      <3>1. /\ lockCount' + 1 >= recursion' + Cardinality(R') /\ lockCount' >= -1
            /\ terminated' = {} => lockCount' + 1 = recursion' + Cardinality(R')
        BY <1>0, <1>1, <1>4, <2>1, <2>2
      <3> QED
        BY <3>1 DEF CountIsEnough, R
    <2>5. \A u \in Threads : pc'[u] # "failed"
      BY <2>1 DEF SectionGood, GoesOn, WaitType
    <2>6. CASE lockCount' = -1
      <3>1. UNCHANGED <<pc, target, amount, objectVars, terminated, failures>>
        BY <2>1, <2>6
      <3>2. NoBaton'
        BY <1>2, <3>1 DEF NoBaton, Senders, Receivers, objectVars
      <3> QED
        BY <2>3, <2>4, <2>5, <2>6, <3>2 DEF SectionGood
    <2>7. CASE lockCount' # -1
      <3>1. /\ pc' = [pc EXCEPT ![t] = "signal"] /\ target' = [target EXCEPT ![t] = Header]
            /\ UNCHANGED objectVars
        BY <2>1, <2>7 DEF GoesOn
      <3>2. t \notin handed
        BY <1>2 DEF WaitersQueue
      <3>3. Senders(Header)' = {t} /\ Receivers(Header)' = {}
        BY <1>2, <3>1, <3>2 DEF NoBaton, Senders, Receivers, WaitType, objectVars
      <3>4. OneBaton'
        BY <1>2, <3>1, <3>3 DEF NoBaton, OneBaton, objectVars
      <3>5. lockCount' >= 0
        BY <2>1, <2>4, <2>7
      <3> QED
        BY <2>1, <2>3, <2>4, <2>5, <3>4, <3>5 DEF SectionGood
    <2> QED
      BY <2>6, <2>7
  <1> QED
    BY <1>2, <1>3, <1>4 DEF SectionGood, OwnerIsInside

LEMMA TakeOverGood ==
  ASSUME SectionType, SectionGood, NEW t \in Threads, TakeOver(t)
  PROVE  SectionGood'
  <1> DEFINE R == Registered({Header})
  <1> USE DEF SectionType
  <1>0. IsFiniteSet(R) /\ Cardinality(R) \in Nat
    BY RegisteredIsFinite
  <1>1. /\ pc[t] = "granted" /\ target[t] = Header /\ t \in Receivers(Header) /\ t \in R /\ t \notin handed
    BY DEF TakeOver, Receivers, R, Registered, WaitersQueue
  <1>2. /\ owner = None /\ lockCount >= 0
        /\ tokens[Header] = 0 /\ Senders(Header) = {} /\ Receivers(Header) = {t}
    BY <1>1 DEF SectionGood, NoBaton, OneBaton
  <1>3. /\ owner' = t /\ recursion' = 1 /\ depth' = [depth EXCEPT ![t] = @ + 1]
        /\ pc' = [pc EXCEPT ![t] = "out"] /\ target' = [target EXCEPT ![t] = None]
        /\ UNCHANGED <<lockCount, objectVars, terminated, failures>>
    BY DEF TakeOver, Own, Entered, Returns
  <1>4. NoBaton'
    <2>1. Senders(Header)' = {} /\ Receivers(Header)' = {}
      BY <1>1, <1>2, <1>3 DEF Senders, Receivers, WaitType, objectVars
    <2> QED
      BY <1>2, <1>3, <2>1 DEF NoBaton, objectVars
  <1>5. R' = R \ {t}
    BY <1>3 DEF R, Registered, WaitType
  <1>6. OwnerIsInside'
    BY <1>2, <1>3, ThreadsAreFinite DEF SectionGood, OwnerIsInside
  <1>7. CountIsEnough'
    <2>1. /\ lockCount + 1 >= recursion + Cardinality(R) /\ recursion = 0
          /\ terminated = {} => lockCount + 1 = recursion + Cardinality(R)
      BY <1>2 DEF SectionGood, CountIsEnough, OwnerIsInside
    <2> HIDE DEF R
    <2>2. Cardinality(R \ {t}) = Cardinality(R) - 1
      BY <1>0, <1>1, FS_RemoveElement
    <2>3. /\ lockCount' + 1 >= recursion' + Cardinality(R')
          /\ terminated' = {} => lockCount' + 1 = recursion' + Cardinality(R')
      BY <1>0, <1>3, <1>5, <2>1, <2>2
    <2> QED
      BY <2>3 DEF CountIsEnough, R
  <1>8. \A u \in Threads : pc'[u] # "failed"
    BY <1>3 DEF SectionGood, WaitType
  <1> QED
    BY <1>3, <1>4, <1>6, <1>7, <1>8, ThreadsAreFinite DEF SectionGood

LEMMA RefusedGood ==
  ASSUME SectionType, SectionGood, NEW t \in Threads, Refused(t), RunsOn = {}
  PROVE  SectionGood'
  <1> USE DEF SectionType
  <1>1. /\ pc[t] = "refused" /\ t \notin handed
        /\ pc' = [pc EXCEPT ![t] = "out"] /\ target' = [target EXCEPT ![t] = None]
        /\ UNCHANGED <<depth, lockCount, recursion, owner, objectVars, terminated, failures>>
    BY DEF Refused, Returns, WaitersQueue
  <1>2. /\ Senders(Header)' = Senders(Header) /\ Receivers(Header)' = Receivers(Header)
        /\ Registered({Header})' = Registered({Header})
    BY <1>1 DEF Senders, Receivers, Registered, WaitType, objectVars
  <1>3. OneBaton' = OneBaton /\ NoBaton' = NoBaton
    BY <1>1, <1>2 DEF OneBaton, NoBaton, objectVars
  <1>4. OwnerIsInside' /\ CountIsEnough'
    BY <1>1, <1>2 DEF SectionGood, OwnerIsInside, CountIsEnough
  <1>5. \A u \in Threads : pc'[u] # "failed"
    BY <1>1 DEF SectionGood, WaitType
  <1> QED
    BY <1>1, <1>3, <1>4, <1>5 DEF SectionGood

LEMMA SectionIsInductive ==
  ASSUME RunsOn = {}, SectionInv, [SectionNext]_<<waitVars, sectionVars>>
  PROVE  SectionInv'
  <1>1. ASSUME NEW t \in Threads, Enter(t) \/ TryEnter(t) \/ Leave(t) \/ TakeOver(t) \/ Refused(t)
        PROVE  SectionInv'
    <2>1. SectionType'
      BY <1>1, SectionStepType DEF SectionInv, SectionCall
    <2>2. failures' = failures
      BY <1>1 DEF Enter, TryEnter, Leave, TakeOver, Refused, Reenter, waitVars
    <2>3. failures = 0 => SectionGood'
      BY <1>1, EnterGood, LeaveGood, TakeOverGood, RefusedGood DEF SectionInv, SectionGood
    <2> QED
      BY <2>1, <2>2, <2>3 DEF SectionInv, SectionGood
  <1>2. ASSUME NEW t \in Threads, EnterUnsynchronized(t)
        PROVE  SectionInv'
    <2>1. SectionType'
      BY <1>2, SectionStepType DEF SectionInv, SectionCall
    <2>2. failures' = failures /\ pc[t] = "failed"
      BY <1>2 DEF EnterUnsynchronized
    <2> QED
      BY <2>1, <2>2 DEF SectionInv
  <1>3. ASSUME NEW t \in Threads, WaitStep(t), UNCHANGED sectionVars PROVE SectionInv'
    BY <1>3, WaitStepSection
  <1>4. CASE UNCHANGED <<waitVars, sectionVars>>
    <2>1. SectionType'
      BY <1>4 DEF waitVars, sectionVars, SectionInv, SectionType, WaitType, WaitersQueue
    <2>2. /\ OneBaton' = OneBaton /\ NoBaton' = NoBaton
          /\ Registered({Header})' = Registered({Header})
      BY <1>4, StandStill
    <2>3. OwnerIsInside' = OwnerIsInside /\ CountIsEnough' = CountIsEnough
      BY <1>4, <2>2 DEF waitVars, sectionVars, OwnerIsInside, CountIsEnough
    <2> QED
      BY <1>4, <2>1, <2>2, <2>3 DEF SectionInv, waitVars, sectionVars
  <1> QED
    BY <1>1, <1>2, <1>3, <1>4 DEF SectionNext, SectionCall

LEMMA SectionStarts == WaitInit /\ SectionInit => SectionInv
  <1> SUFFICES ASSUME WaitInit, SectionInit PROVE SectionInv
    OBVIOUS
  <1>1. SectionType
    BY SectionAssumption, ThreadsAreFinite DEF WaitInit, SectionInit, SectionType, WaitType, WaitersQueue, Labels
  <1>2. Registered({Header}) = {} /\ Senders(Header) = {} /\ Receivers(Header) = {}
    BY DEF WaitInit, Registered, Senders, Receivers
  <1>3. Cardinality({}) = 0
    BY FS_EmptySet
  <1>4. CountIsEnough
    <2>1. lockCount + 1 = recursion + Cardinality(Registered({Header})) /\ lockCount = -1 /\ recursion = 0
      BY <1>2, <1>3 DEF SectionInit
    <2> QED
      BY <2>1 DEF CountIsEnough
  <1>5. NoBaton /\ OwnerIsInside
    BY <1>2, SectionAssumption DEF NoBaton, OwnerIsInside, WaitInit, SectionInit, Objects
  <1> QED
    BY <1>1, <1>4, <1>5 DEF SectionInv, WaitInit, SectionInit

\* A thread inside the section is its owner, as often as it has entered,
\* whatever waits were granted, given up or left behind by terminated threads,
\* as long as a terminated thread stops before it goes on and every wait object
\* resolves (rtl_enter_critical_section, rtl_leave_critical_section).
THEOREM SectionIsExclusive ==
  ASSUME RunsOn = {}
  PROVE  SectionSpec => []SectionExclusive
  <1>1. SectionInv => SectionExclusive
    <2> SUFFICES ASSUME SectionInv, failures = 0, NEW t \in Threads, depth[t] > 0
                 PROVE  owner = t /\ recursion = depth[t]
      BY DEF SectionExclusive
    <2>1. owner = t
      BY DEF SectionInv, OwnerIsInside
    <2> QED
      BY <2>1, ThreadsAreFinite DEF SectionInv, OwnerIsInside
  <1>2. SectionInv /\ [SectionNext]_<<waitVars, sectionVars>> => SectionInv'
    BY SectionIsInductive
  <1> QED
    BY <1>1, <1>2, SectionStarts, PTL DEF SectionSpec

\* A section that is wanted and not owned is on its way to exactly one thread,
\* and LockCount counts the owner's entries and the waiters, so that no leaving
\* owner forgets a waiter and none hands over twice
\* (rtl_leave_critical_section and the waiter's take-over).
THEOREM SectionIsHandedOver ==
  ASSUME RunsOn = {}
  PROVE  SectionSpec => []SectionHandOver
  <1>1. SectionInv => SectionHandOver
    <2> SUFFICES ASSUME SectionInv, failures = 0 PROVE SectionHandOver
      BY DEF SectionHandOver
    <2>1. Cardinality({}) = 0 /\ \A x : Cardinality({x}) = 1
      BY FS_EmptySet, FS_Singleton
    <2>2. NoBaton => InTransit(Header) = 0
      <3> HAVE NoBaton
      <3>1. Unsent(Header) = {}
        BY DEF NoBaton, Unsent
      <3> QED
        BY <2>1, <3>1 DEF NoBaton, InTransit
    <2>3. OneBaton => InTransit(Header) = 1
      <3>1. CASE tokens[Header] = 1 /\ Senders(Header) = {} /\ Receivers(Header) = {}
        <4>1. Unsent(Header) = {}
          BY <3>1 DEF Unsent
        <4> QED
          BY <2>1, <3>1, <4>1 DEF InTransit
      <3>2. ASSUME tokens[Header] = 0, Receivers(Header) = {}, NEW t \in Threads, Senders(Header) = {t}
            PROVE  InTransit(Header) = 1
        <4>1. amount[t] = 1
          BY <3>2 DEF Senders, SectionInv, SectionType
        <4>2. Unsent(Header) = {<<t, 1>>}
          BY <3>2, <4>1 DEF Unsent
        <4>3. Cardinality(Unsent(Header)) = 1 /\ Cardinality(Receivers(Header)) = 0
          BY <2>1, <3>2, <4>2
        <4> QED
          BY <3>2, <4>3 DEF InTransit
      <3>3. ASSUME tokens[Header] = 0, Senders(Header) = {}, NEW t \in Threads, Receivers(Header) = {t}
            PROVE  InTransit(Header) = 1
        <4>1. Unsent(Header) = {}
          BY <3>3 DEF Unsent
        <4>2. Cardinality(Unsent(Header)) = 0 /\ Cardinality(Receivers(Header)) = 1
          BY <2>1, <3>3, <4>1
        <4> QED
          BY <3>3, <4>2 DEF InTransit
      <3> QED
        BY <3>1, <3>2, <3>3 DEF OneBaton
    <2> QED
      BY <2>2, <2>3 DEF SectionInv, CountIsEnough, SectionHandOver
  <1>2. SectionInv /\ [SectionNext]_<<waitVars, sectionVars>> => SectionInv'
    BY SectionIsInductive
  <1> QED
    BY <1>1, <1>2, SectionStarts, PTL DEF SectionSpec

-----------------------------------------------------------------------------
(* Counting the signals in transit.                                        *)

LEMMA PairsAreMany ==
  ASSUME NEW t, NEW n \in Nat
  PROVE  IsFiniteSet({t} \X (1..n)) /\ Cardinality({t} \X (1..n)) = n
  <1>1. IsFiniteSet({t}) /\ Cardinality({t}) = 1
    BY FS_Singleton
  <1>2. IsFiniteSet(1..n) /\ Cardinality(1..n) = n
    BY FS_Interval
  <1>3. IsFiniteSet({t} \X (1..n)) /\ Cardinality({t} \X (1..n)) = Cardinality({t}) * Cardinality(1..n)
    BY <1>1, <1>2, FS_Product
  <1>4. 1 * n = n
    OBVIOUS
  <1> QED
    BY <1>1, <1>2, <1>3, <1>4

LEMMA TransitIsFinite ==
  ASSUME WaitType, NEW o \in Objects
  PROVE  /\ IsFiniteSet(Receivers(o)) /\ Cardinality(Receivers(o)) \in Nat
         /\ IsFiniteSet(Unsent(o)) /\ Cardinality(Unsent(o)) \in Nat
         /\ tokens[o] \in Nat /\ InTransit(o) \in Nat
  <1> DEFINE S == Senders(o)
             T == {{t} \X (1..amount[t]) : t \in S}
             f == [t \in S |-> {t} \X (1..amount[t])]
  <1>1. IsFiniteSet(S) /\ S \subseteq Threads
    BY ThreadsAreFinite DEF Senders
  <1>2. f \in Surjection(S, T)
    <2>1. f \in [S -> T]
      BY Zenon
    <2>2. \A x \in T : \E u \in S : f[u] = x
      BY Zenon
    <2> QED
      BY <2>1, <2>2, Zenon DEF Surjection
  <1> HIDE DEF f
  <1>3. IsFiniteSet(T)
    BY <1>1, <1>2, FS_Surjection
  <1>4. ASSUME NEW x \in T PROVE IsFiniteSet(x)
    <2>1. PICK u \in S : x = {u} \X (1..amount[u])
      OBVIOUS
    <2>2. amount[u] \in Nat
      BY <1>1 DEF WaitType
    <2> QED
      BY <2>1, <2>2, PairsAreMany
  <1>5. IsFiniteSet(UNION T)
    BY <1>3, <1>4, FS_UNION
  <1>6. IsFiniteSet(Unsent(o)) /\ Cardinality(Unsent(o)) \in Nat
    BY <1>5, FS_CardinalityType DEF Unsent
  <1>7. IsFiniteSet(Receivers(o)) /\ Cardinality(Receivers(o)) \in Nat
    BY ThreadsAreFinite DEF Receivers
  <1>8. tokens[o] \in Nat
    BY DEF WaitType
  <1> QED
    BY <1>6, <1>7, <1>8 DEF InTransit

LEMMA UnsentOf ==
  ASSUME NEW o
  PROVE  \A x : x \in Unsent(o) <=> \E u \in Senders(o) : x \in {u} \X (1..amount[u])
  BY DEF Unsent

\* What leaves the senders, the receivers and the object alone keeps the count.
LEMMA TransitStands ==
  ASSUME NEW o, tokens'[o] = tokens[o], Receivers(o)' = Receivers(o),
         Senders(o)' = Senders(o), \A u \in Senders(o) : amount'[u] = amount[u]
  PROVE  InTransit(o)' = InTransit(o)
  <1>1. Unsent(o)' = Unsent(o)
    BY DEF Unsent
  <1> QED
    BY <1>1 DEF InTransit

\* A caller that goes on to a signal for n waits adds n.
LEMMA SendAdds ==
  ASSUME WaitType, WaitersQueue, NEW t \in Threads, pc[t] = "out", NEW o \in Objects, NEW n \in Nat,
         GoesOn(t, "signal", o, n), UNCHANGED objectVars
  PROVE  /\ InTransit(o)' = InTransit(o) + n
         /\ \A p \in Objects : p # o => InTransit(p)' = InTransit(p)
  <1>0. t \notin handed /\ target[t] = None /\ None \notin Objects
    BY ThreadsAreFinite DEF WaitersQueue, WaitType
  <1>1. /\ pc' = [pc EXCEPT ![t] = "signal"] /\ target' = [target EXCEPT ![t] = o]
        /\ amount' = [amount EXCEPT ![t] = n] /\ tokens' = tokens /\ handed' = handed
    BY DEF GoesOn, objectVars
  <1>2. ASSUME NEW p \in Objects PROVE Receivers(p)' = Receivers(p)
    BY <1>0, <1>1, <1>2 DEF Receivers, WaitType
  <1>3. ASSUME NEW p \in Objects, p # o PROVE InTransit(p)' = InTransit(p)
    <2>1. Senders(p)' = Senders(p)
      BY <1>0, <1>1, <1>3 DEF Senders, WaitType
    <2>2. \A u \in Senders(p) : amount'[u] = amount[u]
      BY <1>0, <1>1, <1>3 DEF Senders, WaitType
    <2> QED
      BY <1>1, <1>2, <1>3, <2>1, <2>2, TransitStands
  <1>4. Senders(o)' = Senders(o) \cup {t} /\ t \notin Senders(o)
    BY <1>0, <1>1 DEF Senders, WaitType
  <1>5. Unsent(o)' = Unsent(o) \cup ({t} \X (1..n))
    <2>1. amount'[t] = n /\ \A u \in Senders(o) : amount'[u] = amount[u]
      BY <1>1, <1>4 DEF WaitType, Senders
    <2>2. Unsent(o)' = UNION {{u} \X (1..amount'[u]) : u \in Senders(o) \cup {t}}
      BY <1>4 DEF Unsent
    <2>3. \A x : x \in Unsent(o)' <=> (\E u \in Senders(o) \cup {t} : x \in {u} \X (1..amount'[u]))
      BY <2>2
    <2>4. \A x : x \in Unsent(o)' <=> x \in Unsent(o) \/ x \in {t} \X (1..n)
      BY <2>1, <2>3, UnsentOf
    <2> QED
      BY <2>4
  <1>6. Unsent(o) \cap ({t} \X (1..n)) = {}
    BY <1>4 DEF Unsent
  <1>7. /\ IsFiniteSet(Unsent(o)) /\ Cardinality(Unsent(o)) \in Nat
        /\ Cardinality(Receivers(o)) \in Nat /\ tokens[o] \in Nat
    BY TransitIsFinite
  <1>8. Cardinality(Unsent(o)') = Cardinality(Unsent(o)) + n
    <2>1. IsFiniteSet({t} \X (1..n)) /\ Cardinality({t} \X (1..n)) = n
      BY PairsAreMany
    <2>2. Cardinality({}) = 0
      BY FS_EmptySet
    <2>3. Cardinality(Unsent(o) \cup ({t} \X (1..n)))
            = Cardinality(Unsent(o)) + n - Cardinality(Unsent(o) \cap ({t} \X (1..n)))
      BY <1>7, <2>1, FS_Union
    <2>4. Cardinality(Unsent(o) \cap ({t} \X (1..n))) = 0
      BY <1>6, <2>2
    <2>5. Cardinality(Unsent(o)') = Cardinality(Unsent(o) \cup ({t} \X (1..n)))
      BY <1>5
    <2> QED
      BY <1>7, <2>3, <2>4, <2>5
  <1>9. Cardinality(Receivers(o)') = Cardinality(Receivers(o)) /\ tokens'[o] = tokens[o]
    BY <1>1, <1>2
  <1>10. InTransit(o)' = InTransit(o) + n
    BY <1>7, <1>8, <1>9 DEF InTransit
  <1> QED
    BY <1>3, <1>10

LEMMA PrefixIsMany ==
  ASSUME NEW S, NEW s \in Seq(S), \A i, j \in 1..Len(s) : s[i] = s[j] => i = j, NEW n \in 0..Len(s),
         NEW N, \A x : x \in N <=> \E i \in 1..n : x = s[i]
  PROVE  IsFiniteSet(N) /\ Cardinality(N) = n
  <1> DEFINE f == [i \in 1..n |-> s[i]]
  <1>1. n \in Nat /\ IsFiniteSet(1..n) /\ Cardinality(1..n) = n
    BY FS_Interval
  <1>2. \A i \in 1..n : i \in 1..Len(s)
    OBVIOUS
  <1>3. f \in Bijection(1..n, N)
    BY <1>2 DEF Bijection, Injection, Surjection, IsInjective
  <1>4. ExistsBijection(1..n, N)
    BY <1>3, Zenon DEF ExistsBijection
  <1> QED
    BY <1>1, <1>4, FS_Bijection

\* A signal goes to the waits it reaches and to the object, and nowhere else.
LEMMA SignalTransit ==
  ASSUME WaitType, WaitersQueue, NEW t \in Threads, Signal(t), NEW p \in Objects,
         p \in Events => InTransit(p) <= 1
  PROVE  InTransit(p)' = InTransit(p)
  <1> DEFINE o == target[t]
             q == queue[o]
             n == IF amount[t] < Len(q) THEN amount[t] ELSE Len(q)
             left == tokens[o] + amount[t] - n
             N == {q[i] : i \in 1..n}
             A == {t} \X (1..amount[t])
  <1>1. /\ o \in Objects /\ q \in Seq(Threads) /\ Len(q) \in Nat /\ amount[t] \in Nat
        /\ tokens[o] \in Nat /\ pc[t] = "signal" /\ None \notin Objects
    BY ThreadsAreFinite DEF Signal, WaitType
  <1>2. n \in 0..Len(q) /\ n <= amount[t] /\ n \in Nat
    BY <1>1
  <1>3. /\ handed' = handed \cup ToSet(SubSeq(q, 1, n))
        /\ tokens' = [tokens EXCEPT ![o] = IF o \in Events /\ left > 1 THEN 1 ELSE left]
        /\ pc' = [pc EXCEPT ![t] = "out"] /\ target' = [target EXCEPT ![t] = None]
        /\ amount' = [amount EXCEPT ![t] = 0]
    BY DEF Signal, Returns
  <1> HIDE DEF n, left
  <1>4. ToSet(SubSeq(q, 1, n)) = N
    <2>1. Len(SubSeq(q, 1, n)) = n /\ \A i \in 1..n : SubSeq(q, 1, n)[i] = q[i]
      BY <1>1, <1>2, SubSeqElements
    <2>2. DOMAIN SubSeq(q, 1, n) = 1..n
      BY <1>1, <1>2
    <2> QED
      BY <2>1, <2>2 DEF ToSet
  <1>5. /\ \A i \in 1..n : i \in 1..Len(q)
        /\ \A i \in 1..Len(q) : q[i] \in Threads /\ pc[q[i]] = "waiting" /\ q[i] \notin handed /\ target[q[i]] = o
        /\ \A i, j \in 1..Len(q) : q[i] = q[j] => i = j
    BY <1>1, <1>2 DEF WaitersQueue
  <1>6. /\ \A u \in N : u \in Threads /\ u # t /\ pc[u] = "waiting" /\ u \notin handed /\ target[u] = o
        /\ t \notin handed
    BY <1>1, <1>5 DEF WaitersQueue
  <1>7. IsFiniteSet(N) /\ Cardinality(N) = n
    <2>1. \A i, j \in 1..Len(q) : q[i] = q[j] => i = j
      BY <1>5
    <2>2. q \in Seq(Threads) /\ n \in 0..Len(q)
      BY <1>1, <1>2
    <2> HIDE DEF q
    <2>3. \A x : x \in N <=> \E i \in 1..n : x = q[i]
      BY DEF N
    <2> HIDE DEF N
    <2> QED
      BY ONLY <2>1, <2>2, <2>3, PrefixIsMany
  <1>8. handed' = handed \cup N
    BY <1>3, <1>4
  <1> HIDE DEF q, N
  <1>9. CASE p # o
    <2>1. Receivers(p)' = Receivers(p)
      BY <1>1, <1>3, <1>6, <1>8, <1>9 DEF Receivers, WaitType
    <2>2. Senders(p)' = Senders(p)
      BY <1>1, <1>3, <1>9 DEF Senders, WaitType
    <2>3. \A u \in Senders(p) : amount'[u] = amount[u]
      BY <1>1, <1>3, <1>9 DEF Senders, WaitType
    <2>4. tokens'[p] = tokens[p]
      BY <1>1, <1>3, <1>9 DEF WaitType
    <2> QED
      BY <2>1, <2>2, <2>3, <2>4, TransitStands
  <1>10. CASE p = o
    <2>0. target[t] = p
      BY <1>10 DEF o
    <2>1. /\ IsFiniteSet(Receivers(p)) /\ Cardinality(Receivers(p)) \in Nat
          /\ IsFiniteSet(Unsent(p)) /\ Cardinality(Unsent(p)) \in Nat
      BY TransitIsFinite
    <2>2. Receivers(p)' = Receivers(p) \cup N /\ Receivers(p) \cap N = {}
      <3>1. \A u \in Threads : u # t => pc'[u] = pc[u] /\ target'[u] = target[u]
        BY <1>3 DEF WaitType
      <3>2. target'[t] = None /\ t \notin Receivers(p) /\ t \notin Receivers(p)'
        BY <1>1, <1>3, <1>6, <1>10 DEF WaitType, Receivers
      <3>3. ASSUME NEW u \in Threads, u # t PROVE u \in Receivers(p)' <=> u \in Receivers(p) \cup N
        BY <1>6, <1>8, <1>10, <3>1, <3>3 DEF Receivers
      <3>4. Receivers(p)' \subseteq Threads /\ Receivers(p) \subseteq Threads /\ N \subseteq Threads /\ t \notin N
        BY <1>6 DEF Receivers
      <3>5. Receivers(p) \cap N = {}
        BY <1>6 DEF Receivers
      <3> QED
        BY <3>2, <3>3, <3>4, <3>5
    <2>3. Cardinality(Receivers(p)') = Cardinality(Receivers(p)) + n
      <3>1. Cardinality(Receivers(p) \cup N) = Cardinality(Receivers(p)) + Cardinality(N) - Cardinality(Receivers(p) \cap N)
        BY <1>7, <2>1, FS_Union
      <3>2. Cardinality(Receivers(p) \cap N) = 0
        BY <2>2, FS_EmptySet
      <3>3. Cardinality(Receivers(p)') = Cardinality(Receivers(p) \cup N)
        BY <2>2
      <3> QED
        BY <1>2, <1>7, <2>1, <3>1, <3>2, <3>3
    <2>4. Unsent(p)' = Unsent(p) \ A /\ A \subseteq Unsent(p)
      <3>1. Senders(p)' = Senders(p) \ {t} /\ t \in Senders(p)
        BY <1>1, <1>3, <2>0 DEF Senders, WaitType
      <3>2. \A u \in Senders(p) \ {t} : amount'[u] = amount[u]
        BY <1>3 DEF WaitType, Senders
      <3>3. \A x : x \in Unsent(p)' <=> \E u \in Senders(p) \ {t} : x \in {u} \X (1..amount'[u])
        BY <3>1 DEF Unsent
      <3>4. \A x : x \in Unsent(p)' <=> \E u \in Senders(p) \ {t} : x \in {u} \X (1..amount[u])
        BY <3>2, <3>3
      <3>5. \A x : x \in Unsent(p) <=> \E u \in Senders(p) : x \in {u} \X (1..amount[u])
        BY UnsentOf
      <3>6. A \subseteq Unsent(p)
        BY <3>1, <3>5
      <3>7. ASSUME NEW x PROVE x \in Unsent(p)' <=> x \in Unsent(p) \ A
        <4>1. \A u \in Senders(p) \ {t} : x \in {u} \X (1..amount[u]) => x \notin A
          OBVIOUS
        <4> QED
          BY <3>1, <3>4, <3>5, <4>1
      <3> QED
        BY <3>6, <3>7
    <2>5. IsFiniteSet(A) /\ Cardinality(A) = amount[t]
      BY <1>1, PairsAreMany
    <2> HIDE DEF A
    <2>6. Cardinality(Unsent(p)') = Cardinality(Unsent(p)) - amount[t] /\ amount[t] <= Cardinality(Unsent(p))
      <3>1. Unsent(p) \cap A = A
        BY <2>4
      <3>2. Cardinality(Unsent(p) \ A) = Cardinality(Unsent(p)) - Cardinality(Unsent(p) \cap A)
        BY <2>1, FS_Difference
      <3>3. Cardinality(A) <= Cardinality(Unsent(p))
        BY <2>1, <2>4, FS_Subset
      <3> QED
        BY <2>4, <2>5, <3>1, <3>2, <3>3
    <2>7. InTransit(p) = tokens[p] + Cardinality(Receivers(p)) + Cardinality(Unsent(p))
      BY DEF InTransit
    <2>8. left = tokens[p] + amount[t] - n
      BY <1>10 DEF left
    <2>9. tokens'[p] = left
      <3>1. tokens'[p] = IF p \in Events /\ left > 1 THEN 1 ELSE left
        BY <1>1, <1>3, <1>10 DEF WaitType
      <3>2. p \in Events => tokens[p] + amount[t] <= 1
        BY <1>1, <1>10, <2>1, <2>6, <2>7
      <3>3. p \in Events => ~(left > 1)
        BY <1>1, <1>2, <1>10, <2>8, <3>2
      <3> QED
        BY <3>1, <3>3
    <2>10. InTransit(p)' = tokens'[p] + Cardinality(Receivers(p)') + Cardinality(Unsent(p)')
      BY DEF InTransit
    <2> HIDE DEF left
    <2>11. tokens'[p] + Cardinality(Receivers(p)') + Cardinality(Unsent(p)') = InTransit(p)
      BY <1>1, <1>2, <1>10, <2>1, <2>3, <2>6, <2>7, <2>8, <2>9, SMTT(30)
    <2> QED
      BY <2>10, <2>11
  <1> QED
    BY <1>9, <1>10

\* A wait step loses no signal and makes none.
LEMMA WaitStepTransit ==
  ASSUME WaitType, WaitersQueue, NEW t \in Threads, WaitStep(t), failures' = 0, NEW p \in Objects,
         p \in Events => InTransit(p) <= 1
  PROVE  InTransit(p)' = InTransit(p)
  <1>1. CASE Wait(t)
    <2>0. pc[t] = "start" /\ t \notin handed /\ target[t] \in Objects
      BY <1>1 DEF Wait, WaitersQueue, WaitType
    <2>1. CASE (Label(t, "refused") \/ Label(t, "waiting")) /\ UNCHANGED <<tokens, handed>>
      <3>1. Senders(p)' = Senders(p) /\ Receivers(p)' = Receivers(p)
        BY <2>0, <2>1 DEF Label, Senders, Receivers, WaitType
      <3> QED
        BY <2>1, <3>1, TransitStands DEF Label
    <2>2. CASE /\ tokens[target[t]] > 0 /\ tokens' = [tokens EXCEPT ![target[t]] = @ - 1]
               /\ Label(t, "granted") /\ UNCHANGED <<queue, handed>>
      <3>0. Senders(p)' = Senders(p) /\ amount' = amount
        BY <2>0, <2>2 DEF Label, Senders, WaitType
      <3>1. CASE p # target[t]
        <4>1. Receivers(p)' = Receivers(p) /\ tokens'[p] = tokens[p]
          BY <2>0, <2>2, <3>1 DEF Label, Receivers, WaitType
        <4> QED
          BY <3>0, <4>1, TransitStands
      <3>2. CASE p = target[t]
        <4>1. Receivers(p)' = Receivers(p) \cup {t} /\ t \notin Receivers(p)
          BY <2>0, <2>2, <3>2 DEF Label, Receivers, WaitType
        <4>2. tokens'[p] = tokens[p] - 1
          BY <2>0, <2>2, <3>2 DEF WaitType
        <4>3. Unsent(p)' = Unsent(p)
          BY <3>0 DEF Unsent
        <4>4. /\ IsFiniteSet(Receivers(p)) /\ Cardinality(Receivers(p)) \in Nat
              /\ Cardinality(Unsent(p)) \in Nat /\ tokens[p] \in Nat
          BY TransitIsFinite
        <4>5. Cardinality(Receivers(p)') = Cardinality(Receivers(p)) + 1
          BY <4>1, <4>4, FS_AddElement
        <4> QED
          BY <4>2, <4>3, <4>4, <4>5 DEF InTransit
      <3> QED
        BY <3>1, <3>2
    <2> QED
      BY <1>1, <2>1, <2>2 DEF Wait, objectVars
  <1>2. CASE Wake(t)
    <2>1. Senders(p)' = Senders(p) /\ Receivers(p)' = Receivers(p)
      BY <1>2 DEF Wake, Label, Senders, Receivers, WaitType
    <2> QED
      BY <1>2, <2>1, TransitStands DEF Wake, Label
  <1>3. CASE GiveUp(t)
    <2>1. Senders(p)' = Senders(p) /\ Receivers(p)' = Receivers(p)
      BY <1>3 DEF GiveUp, Label, Senders, Receivers, WaitType
    <2> QED
      BY <1>3, <2>1, TransitStands DEF GiveUp, Label
  <1>4. CASE Unresolved(t)
    BY <1>4 DEF Unresolved, WaitType
  <1>5. CASE Signal(t)
    BY <1>5, SignalTransit
  <1>6. CASE Terminate(t)
    <2>1. Senders(p)' = Senders(p) /\ Receivers(p)' = Receivers(p)
      BY <1>6 DEF Terminate, Senders, Receivers, objectVars
    <2> QED
      BY <1>6, <2>1, TransitStands DEF Terminate, objectVars
  <1> QED
    BY <1>1, <1>2, <1>3, <1>4, <1>5, <1>6 DEF WaitStep

\* A caller that registers its wait changes nothing of what is in transit.
LEMMA StartKeeps ==
  ASSUME WaitType, WaitersQueue, NEW t \in Threads, pc[t] = "out", NEW o, NEW n,
         GoesOn(t, "start", o, n), UNCHANGED objectVars, NEW p \in Objects
  PROVE  InTransit(p)' = InTransit(p)
  <1>1. t \notin handed /\ target[t] = None /\ None # p
    BY ThreadsAreFinite DEF WaitersQueue, WaitType
  <1>2. Senders(p)' = Senders(p) /\ Receivers(p)' = Receivers(p) /\ tokens' = tokens
    BY <1>1 DEF GoesOn, Senders, Receivers, WaitType, objectVars
  <1>3. \A u \in Senders(p) : amount'[u] = amount[u]
    BY <1>1 DEF GoesOn, Senders, WaitType
  <1> QED
    BY <1>2, <1>3, TransitStands

\* A waiter that goes on takes the signal it was granted with it.
LEMMA GoingOnTakes ==
  ASSUME WaitType, WaitersQueue, NEW t \in Threads, pc[t] \in {"granted", "refused"},
         Returns(t), UNCHANGED objectVars, NEW p \in Objects
  PROVE  InTransit(p)' = IF pc[t] = "granted" /\ p = target[t] THEN InTransit(p) - 1 ELSE InTransit(p)
  <1>1. t \notin handed /\ target[t] # None /\ None # p
    BY ThreadsAreFinite DEF WaitersQueue, WaitType
  <1>2. Senders(p)' = Senders(p) /\ tokens' = tokens
    BY <1>1 DEF Returns, Senders, WaitType, objectVars
  <1>3. \A u \in Senders(p) : amount'[u] = amount[u]
    BY <1>1 DEF Returns, Senders, WaitType
  <1>4. CASE ~(pc[t] = "granted" /\ p = target[t])
    <2>1. Receivers(p)' = Receivers(p)
      BY <1>1, <1>4 DEF Returns, Receivers, WaitType, objectVars
    <2> QED
      BY <1>2, <1>3, <1>4, <2>1, TransitStands
  <1>5. CASE pc[t] = "granted" /\ p = target[t]
    <2>1. Receivers(p)' = Receivers(p) \ {t} /\ t \in Receivers(p)
      BY <1>1, <1>5 DEF Returns, Receivers, WaitType, objectVars
    <2>2. Unsent(p)' = Unsent(p)
      BY <1>2, <1>3 DEF Unsent
    <2>3. /\ IsFiniteSet(Receivers(p)) /\ Cardinality(Receivers(p)) \in Nat
          /\ Cardinality(Unsent(p)) \in Nat /\ tokens[p] \in Nat
      BY TransitIsFinite
    <2>4. Cardinality(Receivers(p)') = Cardinality(Receivers(p)) - 1
      BY <2>1, <2>3, FS_RemoveElement
    <2>5. InTransit(p)' = InTransit(p) - 1
      BY <1>2, <2>2, <2>3, <2>4 DEF InTransit
    <2> QED
      BY <1>5, <2>5
  <1> QED
    BY <1>4, <1>5

-----------------------------------------------------------------------------
(* The read/write lock.                                                    *)

RwType ==
    /\ WaitType /\ WaitersQueue
    /\ \A t \in Threads : pc[t] # "out" => target[t] \in {WriterEvent, ReaderSemaphore} /\ holds[t] = "none"
    /\ \A t \in Threads : pc[t] = "refused" => t \in terminated
    /\ holds \in [Threads -> {"none", "read", "write"}]
    /\ rwCount \in Int
    /\ readersEntry \in Nat /\ readersWaiting \in Nat /\ writersWaiting \in Nat

\* Those that lock_count may count: whoever holds the lock or waits for it, and
\* the terminated, who stay counted wherever they stopped.
Counted ==
    {t \in Threads : holds[t] # "none" \/ pc[t] \in {"start", "waiting", "granted", "refused"}}
        \cup terminated

\* How many writers and readers are inside or on their way in, and what the
\* words of the lock say of them.
WriterIsAlone ==
    Cardinality(Writers) + InTransit(WriterEvent)
        = IF rwCount >= 0 /\ readersEntry = 0 THEN 1 ELSE 0
ReadersAreCounted ==
    readersEntry = Cardinality(Readers) + InTransit(ReaderSemaphore)
WordsAreBalanced ==
    /\ rwCount + 1 = readersEntry + readersWaiting + writersWaiting
                       + Cardinality(Writers) + InTransit(WriterEvent)
    /\ readersEntry > 0 /\ readersWaiting > 0 => writersWaiting > 0
CountIsOfThreads ==
    /\ rwCount + 1 <= Cardinality(Counted)
    /\ terminated = {} => rwCount + 1 = Cardinality(Counted)

RwGood ==
    /\ \A t \in Threads : pc[t] # "failed"
    /\ WriterIsAlone /\ ReadersAreCounted /\ WordsAreBalanced /\ CountIsOfThreads

RwInv == RwType /\ (failures = 0 => RwGood)

LEMMA RwObjects == /\ WriterEvent \in Objects /\ ReaderSemaphore \in Objects
                   /\ WriterEvent \in Events /\ ReaderSemaphore \notin Events
                   /\ WriterEvent # ReaderSemaphore
                   /\ None \notin Objects
  BY RwAssumption, LockAssumption DEF Objects

LEMMA LessIsNat == \A n \in Nat : Less(n) \in Nat /\ (n > 0 /\ n <= Word => Less(n) = n - 1)
  <1> SUFFICES ASSUME NEW n \in Nat
               PROVE  Less(n) \in Nat /\ (n > 0 /\ n <= Word => Less(n) = n - 1)
    OBVIOUS
  <1>1. Word \in Nat /\ Word > 0
    BY RwAssumption
  <1>2. Less(n) \in Nat
    BY <1>1 DEF Less
  <1>3. ASSUME n > 0, n <= Word PROVE Less(n) = n - 1
    <2>1. n + Word - 1 = 1 * Word + (n - 1) /\ 0 <= n - 1 /\ n - 1 < Word
      BY <1>1, <1>3
    <2> QED
      BY <1>1, <2>1 DEF Less
  <1> QED
    BY <1>2, <1>3

LEMMA RwNumbers ==
  ASSUME RwType
  PROVE  /\ IsFiniteSet(Writers) /\ Cardinality(Writers) \in Nat
         /\ IsFiniteSet(Readers) /\ Cardinality(Readers) \in Nat
         /\ IsFiniteSet(Counted) /\ Cardinality(Counted) \in Nat
         /\ Cardinality(Counted) <= Word
         /\ InTransit(WriterEvent) \in Nat /\ InTransit(ReaderSemaphore) \in Nat
  <1>1. Writers \subseteq Threads /\ Readers \subseteq Threads /\ Counted \subseteq Threads
    BY DEF Writers, Readers, Counted, RwType, WaitType
  <1>2. Cardinality(Counted) <= Cardinality(Threads)
    BY <1>1, ThreadsAreFinite, FS_Subset
  <1>3. Cardinality(Counted) \in Nat /\ Cardinality(Threads) \in Nat
    BY <1>1, ThreadsAreFinite
  <1>4. Cardinality(Counted) <= Word
    BY <1>2, <1>3, RwAssumption
  <1> QED
    BY <1>1, <1>3, <1>4, ThreadsAreFinite, TransitIsFinite, RwObjects DEF RwType

\* A thread that holds the lock in another way than before.
LEMMA HoldsCounts ==
  ASSUME RwType, NEW t \in Threads, NEW how \in {"none", "read", "write"}, Holds(t, how)
  PROVE  /\ Cardinality(Writers)' = (IF how = "write" THEN 1 ELSE 0)
              + (IF holds[t] = "write" THEN Cardinality(Writers) - 1 ELSE Cardinality(Writers))
         /\ Cardinality(Readers)' = (IF how = "read" THEN 1 ELSE 0)
              + (IF holds[t] = "read" THEN Cardinality(Readers) - 1 ELSE Cardinality(Readers))
  <1>0. /\ IsFiniteSet(Writers) /\ Cardinality(Writers) \in Nat
        /\ IsFiniteSet(Readers) /\ Cardinality(Readers) \in Nat
    BY RwNumbers
  <1>1. /\ Writers' = (Writers \ {t}) \cup (IF how = "write" THEN {t} ELSE {})
        /\ Readers' = (Readers \ {t}) \cup (IF how = "read" THEN {t} ELSE {})
    BY DEF RwType, Holds, Writers, Readers
  <1>2. (t \in Writers <=> holds[t] = "write") /\ (t \in Readers <=> holds[t] = "read")
    BY DEF Writers, Readers
  <1> DEFINE W == Writers \ {t}
             R == Readers \ {t}
  <1>3. /\ IsFiniteSet(W) /\ Cardinality(W) = (IF holds[t] = "write" THEN Cardinality(Writers) - 1 ELSE Cardinality(Writers))
        /\ IsFiniteSet(R) /\ Cardinality(R) = (IF holds[t] = "read" THEN Cardinality(Readers) - 1 ELSE Cardinality(Readers))
    BY <1>0, <1>2, FS_RemoveElement
  <1>4. t \notin W /\ t \notin R
    OBVIOUS
  <1>5. /\ Writers' = W \cup (IF how = "write" THEN {t} ELSE {})
        /\ Readers' = R \cup (IF how = "read" THEN {t} ELSE {})
    BY <1>1
  <1>6. Cardinality(W) \in Nat /\ Cardinality(R) \in Nat
    BY <1>3, FS_CardinalityType
  <1> HIDE DEF W, R
  <1>7. Cardinality(W \cup {t}) = 1 + Cardinality(W) /\ Cardinality(R \cup {t}) = 1 + Cardinality(R)
    <2>1. Cardinality(W \cup {t}) = Cardinality(W) + 1
      BY <1>3, <1>4, FS_AddElement
    <2>2. Cardinality(R \cup {t}) = Cardinality(R) + 1
      BY <1>3, <1>4, FS_AddElement
    <2> QED
      BY <1>6, <2>1, <2>2
  <1>8. /\ Cardinality(Writers') = (IF how = "write" THEN 1 ELSE 0) + Cardinality(W)
        /\ Cardinality(Readers') = (IF how = "read" THEN 1 ELSE 0) + Cardinality(R)
    <2>1. CASE how = "write"
      BY <1>5, <1>6, <1>7, <2>1
    <2>2. CASE how = "read"
      BY <1>5, <1>6, <1>7, <2>2
    <2>3. CASE how = "none"
      BY <1>5, <1>6, <1>7, <2>3
    <2> QED
      BY <2>1, <2>2, <2>3, Zenon
  <1>9. /\ Cardinality(Writers)' = (IF how = "write" THEN 1 ELSE 0) + Cardinality(W)
        /\ Cardinality(Readers)' = (IF how = "read" THEN 1 ELSE 0) + Cardinality(R)
    BY <1>8
  <1> QED
    BY <1>3, <1>9, Zenon

LEMMA CountedChanges ==
  ASSUME RwType, NEW t \in Threads
  PROVE  /\ Counted' = Counted \cup {t} /\ t \notin Counted => Cardinality(Counted)' = Cardinality(Counted) + 1
         /\ Counted' = Counted \ {t} /\ t \in Counted => Cardinality(Counted)' = Cardinality(Counted) - 1
  <1>1. IsFiniteSet(Counted)
    BY RwNumbers
  <1>2. t \notin Counted => Cardinality(Counted \cup {t}) = Cardinality(Counted) + 1
    BY <1>1, FS_AddElement
  <1>3. t \in Counted => Cardinality(Counted \ {t}) = Cardinality(Counted) - 1
    BY <1>1, FS_RemoveElement
  <1> QED
    BY <1>2, <1>3

LEMMA RwWaitStepType ==
  ASSUME RwType, NEW t \in Threads, WaitStep(t), UNCHANGED rwVars
  PROVE  RwType'
  <1>1. WaitType' /\ WaitersQueue'
    BY WaitStepType, WaitStepQueue DEF RwType
  <1>2. /\ \A u \in Threads : u # t => pc'[u] = pc[u] /\ target'[u] = target[u]
        /\ pc'[t] # "out" => pc[t] # "out" /\ target'[t] = target[t]
        /\ pc'[t] = "refused" => t \in terminated \/ pc[t] = "refused"
        /\ terminated \subseteq terminated'
    <2> USE DEF RwType, WaitType
    <2>1. CASE Wait(t)
      BY <2>1 DEF Wait, Label
    <2>2. CASE Wake(t)
      BY <2>2 DEF Wake, Label
    <2>3. CASE GiveUp(t)
      BY <2>3 DEF GiveUp, Label
    <2>4. CASE Unresolved(t)
      BY <2>4 DEF Unresolved, Label, Returns
    <2>5. CASE Signal(t)
      BY <2>5 DEF Signal, Returns
    <2>6. CASE Terminate(t)
      BY <2>6 DEF Terminate
    <2> QED
      BY <2>1, <2>2, <2>3, <2>4, <2>5, <2>6 DEF WaitStep
  <1>3. \A u \in Threads : pc'[u] # "out" => target'[u] \in {WriterEvent, ReaderSemaphore} /\ holds'[u] = "none"
    BY <1>2 DEF RwType, rwVars
  <1>4. \A u \in Threads : pc'[u] = "refused" => u \in terminated'
    BY <1>2 DEF RwType
  <1> QED
    BY <1>1, <1>3, <1>4 DEF RwType, rwVars

\* A step of the lock changes the place of its caller in the call and nothing
\* else of the waits.
LEMMA RwCallKeepsWaits ==
  ASSUME RwType, NEW t \in Threads, pc[t] # "waiting", UNCHANGED <<objectVars, terminated, failures>>,
         \/ UNCHANGED <<pc, target, amount>>
         \/ Returns(t)
         \/ \E l \in {"start", "signal"}, o \in {WriterEvent, ReaderSemaphore}, n \in Nat : GoesOn(t, l, o, n)
  PROVE  /\ WaitType' /\ WaitersQueue'
         /\ \A u \in Threads : u # t => pc'[u] = pc[u] /\ target'[u] = target[u]
         /\ \/ pc'[t] = pc[t] /\ target'[t] = target[t]
            \/ pc'[t] = "out"
            \/ pc'[t] \in {"start", "signal"} /\ target'[t] \in {WriterEvent, ReaderSemaphore}
  <1>0. /\ tokens' = tokens /\ queue' = queue /\ handed' = handed /\ terminated' = terminated /\ failures' = failures
        /\ tokens \in [Objects -> Nat] /\ queue \in [Objects -> Seq(Threads)]
        /\ handed \subseteq Threads /\ terminated \subseteq Threads /\ failures \in Nat
    BY DEF objectVars, RwType, WaitType
  <1>1. CASE UNCHANGED <<pc, target, amount>>
    BY <1>0, <1>1 DEF RwType, WaitType, WaitersQueue
  <1>2. CASE Returns(t)
    <2>1. WaitersQueue'
      BY <1>2, CallKeepsQueue DEF Returns, RwType, WaitType
    <2>2. pc' = [pc EXCEPT ![t] = "out"] /\ target' = [target EXCEPT ![t] = None] /\ amount' = [amount EXCEPT ![t] = 0]
      BY <1>2 DEF Returns
    <2>3. /\ pc' \in [Threads -> Labels] /\ target' \in [Threads -> Objects \cup {None}] /\ amount' \in [Threads -> Nat]
      BY <2>2 DEF RwType, WaitType, Labels
    <2>4. /\ pc'[t] = "out" /\ target'[t] = None
          /\ \A u \in Threads : u # t => pc'[u] = pc[u] /\ target'[u] = target[u]
      BY <2>2 DEF RwType, WaitType
    <2>5. \A u \in Threads : pc'[u] = "out" <=> target'[u] = None
      BY <2>4 DEF RwType, WaitType
    <2>6. WaitType'
      BY <1>0, <2>3, <2>5 DEF WaitType
    <2> QED
      BY <2>1, <2>4, <2>6
  <1>3. ASSUME NEW l \in {"start", "signal"}, NEW o \in {WriterEvent, ReaderSemaphore}, NEW n \in Nat, GoesOn(t, l, o, n)
        PROVE  /\ WaitType' /\ WaitersQueue'
               /\ \A u \in Threads : u # t => pc'[u] = pc[u] /\ target'[u] = target[u]
               /\ pc'[t] \in {"start", "signal"} /\ target'[t] \in {WriterEvent, ReaderSemaphore}
    <2>1. WaitersQueue'
      BY <1>3, CallKeepsQueue DEF GoesOn, RwType, WaitType
    <2>2. pc' = [pc EXCEPT ![t] = l] /\ target' = [target EXCEPT ![t] = o] /\ amount' = [amount EXCEPT ![t] = n]
      BY <1>3 DEF GoesOn
    <2>3. /\ pc' \in [Threads -> Labels] /\ target' \in [Threads -> Objects \cup {None}] /\ amount' \in [Threads -> Nat]
      BY <2>2, RwObjects DEF RwType, WaitType, Labels
    <2>4. /\ pc'[t] = l /\ target'[t] = o
          /\ \A u \in Threads : u # t => pc'[u] = pc[u] /\ target'[u] = target[u]
      BY <2>2 DEF RwType, WaitType
    <2>5. \A u \in Threads : pc'[u] = "out" <=> target'[u] = None
      <3>1. l # "out" /\ o # None
        BY RwObjects, ThreadsAreFinite
      <3>2. \A u \in Threads : pc[u] = "out" <=> target[u] = None
        BY DEF RwType, WaitType
      <3> QED
        BY <2>4, <3>1, <3>2
    <2>6. WaitType'
      BY <1>0, <2>3, <2>5 DEF WaitType
    <2> QED
      BY <2>1, <2>4, <2>6
  <1> QED
    BY <1>1, <1>2, <1>3

LEMMA RwCallType ==
  ASSUME RwType, NEW t \in Threads,
         \/ AcquireExclusive(t) \/ AcquireShared(t) \/ Acquired(t)
         \/ TryExclusive(t) \/ TryShared(t) \/ Release(t)
  PROVE  RwType'
  <1>0. pc[t] # "waiting" /\ UNCHANGED <<objectVars, terminated, failures>>
    BY DEF AcquireExclusive, AcquireShared, Acquired, TryExclusive, TryShared, Release, Calls, waitVars, objectVars
  <1>1. \/ UNCHANGED <<pc, target, amount>>
        \/ Returns(t)
        \/ \E l \in {"start", "signal"}, o \in {WriterEvent, ReaderSemaphore}, n \in Nat : GoesOn(t, l, o, n)
    <2>1. CASE AcquireExclusive(t)
      BY <2>1 DEF AcquireExclusive, waitVars
    <2>2. CASE AcquireShared(t)
      BY <2>2 DEF AcquireShared, waitVars
    <2>3. CASE Acquired(t)
      BY <2>3 DEF Acquired
    <2>4. CASE TryExclusive(t) \/ TryShared(t)
      BY <2>4 DEF TryExclusive, TryShared, waitVars
    <2>5. CASE Release(t)
      BY <2>5 DEF Release, HandOver, WakeWriter, WakeReaders, RwType
    <2> QED
      BY <2>1, <2>2, <2>3, <2>4, <2>5
  <1>2. /\ WaitType' /\ WaitersQueue'
        /\ \A u \in Threads : u # t => pc'[u] = pc[u] /\ target'[u] = target[u]
        /\ \/ pc'[t] = pc[t] /\ target'[t] = target[t]
           \/ pc'[t] = "out"
           \/ pc'[t] \in {"start", "signal"} /\ target'[t] \in {WriterEvent, ReaderSemaphore}
    BY <1>0, <1>1, RwCallKeepsWaits
  <1>3. /\ holds' \in [Threads -> {"none", "read", "write"}]
        /\ \A u \in Threads : u # t => holds'[u] = holds[u]
        /\ pc'[t] # "out" => holds'[t] = "none"
    <2> USE DEF RwType, WaitType, Holds, Labels
    <2>1. CASE AcquireExclusive(t)
      BY <2>1 DEF AcquireExclusive, Calls, waitVars
    <2>2. CASE AcquireShared(t)
      BY <2>2 DEF AcquireShared, Calls, waitVars
    <2>3. CASE Acquired(t)
      BY <2>3 DEF Acquired, Returns
    <2>4. CASE TryExclusive(t)
      BY <2>4 DEF TryExclusive, Calls, waitVars
    <2>5. CASE TryShared(t)
      BY <2>5 DEF TryShared, Calls, waitVars
    <2>6. CASE Release(t)
      BY <2>6 DEF Release
    <2> QED
      BY <2>1, <2>2, <2>3, <2>4, <2>5, <2>6
  <1>4. rwCount' \in Int /\ readersEntry' \in Nat /\ readersWaiting' \in Nat /\ writersWaiting' \in Nat
    <2> USE DEF RwType
    <2>1. CASE AcquireExclusive(t)
      BY <2>1 DEF AcquireExclusive
    <2>2. CASE AcquireShared(t)
      BY <2>2 DEF AcquireShared
    <2>3. CASE Acquired(t)
      BY <2>3 DEF Acquired
    <2>4. CASE TryExclusive(t) \/ TryShared(t)
      BY <2>4 DEF TryExclusive, TryShared
    <2>5. CASE Release(t)
      BY <2>5, LessIsNat DEF Release, HandOver, WakeWriter, WakeReaders
    <2> QED
      BY <2>1, <2>2, <2>3, <2>4, <2>5
  <1>5. \A u \in Threads : pc'[u] # "out" => target'[u] \in {WriterEvent, ReaderSemaphore} /\ holds'[u] = "none"
    BY <1>2, <1>3 DEF RwType
  <1>6. \A u \in Threads : pc'[u] = "refused" => u \in terminated'
    BY <1>0, <1>2 DEF RwType
  <1> QED
    BY <1>2, <1>3, <1>4, <1>5, <1>6 DEF RwType

LEMMA RwWaitStepGood ==
  ASSUME RwType, RwGood, NEW t \in Threads, WaitStep(t), UNCHANGED rwVars, failures' = 0
  PROVE  RwGood'
  <1>0. /\ InTransit(WriterEvent) \in Nat /\ Cardinality(Writers) \in Nat
        /\ IsFiniteSet(Counted) /\ Cardinality(Counted) \in Nat /\ rwCount \in Int
        /\ WaitType /\ WaitersQueue /\ failures \in Nat
    BY RwNumbers DEF RwType, WaitType
  <1>1. InTransit(WriterEvent) <= 1
    BY <1>0 DEF RwGood, WriterIsAlone
  <1>2. /\ InTransit(WriterEvent)' = InTransit(WriterEvent)
        /\ InTransit(ReaderSemaphore)' = InTransit(ReaderSemaphore)
    BY <1>0, <1>1, RwObjects, WaitStepTransit
  <1>3. /\ rwCount' = rwCount /\ readersEntry' = readersEntry /\ readersWaiting' = readersWaiting
        /\ writersWaiting' = writersWaiting /\ holds' = holds
        /\ Writers' = Writers /\ Readers' = Readers
    BY DEF rwVars, Writers, Readers
  <1>4. WriterIsAlone' /\ ReadersAreCounted' /\ WordsAreBalanced'
    BY <1>2, <1>3 DEF RwGood, WriterIsAlone, ReadersAreCounted, WordsAreBalanced
  <1>5. /\ \A u \in Threads : u # t => pc'[u] = pc[u]
        /\ pc'[t] # "failed"
        /\ pc[t] \in {"start", "waiting", "granted", "refused"} => pc'[t] \in {"start", "waiting", "granted", "refused"}
        /\ pc'[t] \in {"start", "waiting", "granted", "refused"} => pc[t] \in {"start", "waiting", "granted", "refused"}
        /\ terminated' = terminated \/ (terminated' = terminated \cup {t} /\ UNCHANGED pc)
    <2> USE DEF RwType, WaitType, RwGood
    <2>1. CASE Wait(t)
      BY <2>1 DEF Wait, Label
    <2>2. CASE Wake(t)
      BY <2>2 DEF Wake, Label
    <2>3. CASE GiveUp(t)
      BY <2>3 DEF GiveUp, Label
    <2>4. CASE Unresolved(t)
      BY <1>0, <2>4 DEF Unresolved
    <2>5. CASE Signal(t)
      BY <2>5 DEF Signal, Returns
    <2>6. CASE Terminate(t)
      BY <2>6 DEF Terminate
    <2> QED
      BY <2>1, <2>2, <2>3, <2>4, <2>5, <2>6 DEF WaitStep
  <1>6. CASE terminated' = terminated
    <2>1. Counted' = Counted
      BY <1>3, <1>5, <1>6 DEF Counted
    <2>2. CountIsOfThreads'
      BY <1>3, <1>6, <2>1 DEF RwGood, CountIsOfThreads
    <2> QED
      BY <1>4, <1>5, <2>2 DEF RwGood
  <1>7. CASE terminated' = terminated \cup {t} /\ UNCHANGED pc
    <2>1. Counted' = Counted \cup {t}
      BY <1>3, <1>7 DEF Counted
    <2>2. Cardinality(Counted)' >= Cardinality(Counted)
      BY <1>0, <2>1, FS_AddElement
    <2>3. Cardinality(Counted)' \in Nat
      <3>1. IsFiniteSet(Counted \cup {t})
        BY <1>0, FS_AddElement
      <3> QED
        BY <2>1, <3>1, FS_CardinalityType
    <2>4. rwCount + 1 <= Cardinality(Counted)
      BY DEF RwGood, CountIsOfThreads
    <2>5. rwCount' + 1 <= Cardinality(Counted)'
      BY <1>0, <1>3, <2>2, <2>3, <2>4
    <2>6. CountIsOfThreads'
      BY <1>7, <2>5 DEF CountIsOfThreads
    <2> QED
      BY <1>4, <1>5, <2>6 DEF RwGood
  <1> QED
    BY <1>5, <1>6, <1>7

\* The words of the lock after a step, from what the step does to them.
LEMMA RwGoodFollows ==
  ASSUME RwType, RwType', RwGood, \A u \in Threads : pc'[u] # "failed", UNCHANGED terminated,
         WriterIsAlone', ReadersAreCounted', WordsAreBalanced',
         rwCount' - rwCount = Cardinality(Counted)' - Cardinality(Counted)
  PROVE  RwGood'
  <1>1. rwCount \in Int /\ rwCount' \in Int /\ Cardinality(Counted) \in Nat
    BY RwNumbers DEF RwType
  <1>2. Cardinality(Counted)' \in Nat
    <2>1. Counted' \subseteq Threads
      BY DEF RwType, WaitType, Counted
    <2> QED
      BY <2>1, ThreadsAreFinite
  <1>3. /\ rwCount + 1 <= Cardinality(Counted) /\ (terminated = {} => rwCount + 1 = Cardinality(Counted))
    BY DEF RwGood, CountIsOfThreads
  <1>4. /\ rwCount' + 1 <= Cardinality(Counted)' /\ (terminated' = {} => rwCount' + 1 = Cardinality(Counted)')
    BY <1>1, <1>2, <1>3
  <1> QED
    BY <1>4 DEF RwGood, CountIsOfThreads

LEMMA AcquireExclusiveGood ==
  ASSUME RwType, RwType', RwGood, NEW t \in Threads, RunsOn = {}, AcquireExclusive(t)
  PROVE  RwGood'
  <1>0. /\ InTransit(WriterEvent) \in Nat /\ InTransit(ReaderSemaphore) \in Nat
        /\ Cardinality(Writers) \in Nat /\ Cardinality(Readers) \in Nat /\ Cardinality(Counted) \in Nat
        /\ rwCount \in Int /\ readersEntry \in Nat /\ readersWaiting \in Nat /\ writersWaiting \in Nat
    BY RwNumbers DEF RwType
  <1>1. /\ WriterIsAlone /\ ReadersAreCounted /\ WordsAreBalanced
        /\ \A u \in Threads : pc[u] # "failed"
    BY DEF RwGood
  <1>2. /\ pc[t] = "out" /\ holds[t] = "none" /\ t \notin terminated /\ t \notin Counted
        /\ rwCount' = rwCount + 1 /\ UNCHANGED <<readersWaiting, readersEntry>>
    BY DEF AcquireExclusive, Calls, Counted
  <1>3. CASE rwCount' = 0 /\ Holds(t, "write") /\ UNCHANGED <<writersWaiting, waitVars>>
    <2>1. Cardinality(Writers)' = 1 + Cardinality(Writers) /\ Cardinality(Readers)' = Cardinality(Readers)
      BY <1>0, <1>2, <1>3, HoldsCounts
    <2>2. /\ InTransit(WriterEvent)' = InTransit(WriterEvent)
          /\ InTransit(ReaderSemaphore)' = InTransit(ReaderSemaphore)
      BY <1>3 DEF InTransit, Receivers, Unsent, Senders, waitVars
    <2>3. Counted' = Counted \cup {t} /\ UNCHANGED terminated
      BY <1>3 DEF Counted, Holds, waitVars, RwType
    <2>4. Cardinality(Counted)' = Cardinality(Counted) + 1
      BY <1>2, <2>3, CountedChanges
    <2>5. WriterIsAlone' /\ ReadersAreCounted' /\ WordsAreBalanced'
      <3>1. /\ readersEntry = 0 /\ readersWaiting = 0 /\ writersWaiting = 0
            /\ Cardinality(Writers) = 0 /\ InTransit(WriterEvent) = 0
            /\ Cardinality(Readers) = 0 /\ InTransit(ReaderSemaphore) = 0
        <4>1. readersEntry + readersWaiting + writersWaiting + Cardinality(Writers) + InTransit(WriterEvent) = 0
          BY <1>1, <1>2, <1>3 DEF WordsAreBalanced
        <4>2. /\ readersEntry = 0 /\ readersWaiting = 0 /\ writersWaiting = 0
              /\ Cardinality(Writers) = 0 /\ InTransit(WriterEvent) = 0
          <5>1. PICK x \in Nat : x = Cardinality(Writers)
            BY <1>0
          <5>2. PICK y \in Nat : y = InTransit(WriterEvent)
            BY <1>0
          <5>3. readersEntry + readersWaiting + writersWaiting + x + y = 0
            BY <4>1, <5>1, <5>2
          <5>4. readersEntry = 0 /\ readersWaiting = 0 /\ writersWaiting = 0 /\ x = 0 /\ y = 0
            BY <1>0, <5>3
          <5> QED
            BY <5>1, <5>2, <5>4
        <4> QED
          BY <1>0, <1>1, <4>2 DEF ReadersAreCounted
      <3>2. /\ readersEntry' = 0 /\ readersWaiting' = 0 /\ writersWaiting' = 0 /\ rwCount' = 0
            /\ Cardinality(Writers)' = 1 /\ InTransit(WriterEvent)' = 0
            /\ Cardinality(Readers)' = 0 /\ InTransit(ReaderSemaphore)' = 0
        BY <1>2, <1>3, <2>1, <2>2, <3>1
      <3> QED
        BY <3>2 DEF WriterIsAlone, ReadersAreCounted, WordsAreBalanced
    <2>6. \A u \in Threads : pc'[u] # "failed"
      BY <1>1, <1>3 DEF waitVars
    <2> QED
      BY <1>0, <1>2, <2>3, <2>4, <2>5, <2>6, RwGoodFollows
  <1>4. CASE /\ rwCount' # 0 /\ writersWaiting' = writersWaiting + 1 /\ GoesOn(t, "start", WriterEvent, 1)
             /\ UNCHANGED <<holds, objectVars, terminated, failures>>
    <2>1. Cardinality(Writers)' = Cardinality(Writers) /\ Cardinality(Readers)' = Cardinality(Readers)
      BY <1>4 DEF Writers, Readers
    <2>2. /\ InTransit(WriterEvent)' = InTransit(WriterEvent)
          /\ InTransit(ReaderSemaphore)' = InTransit(ReaderSemaphore)
      BY <1>2, <1>4, RwObjects, StartKeeps DEF RwType
    <2>3. Counted' = Counted \cup {t} /\ UNCHANGED terminated
      BY <1>4 DEF Counted, GoesOn, RwType, WaitType
    <2>4. Cardinality(Counted)' = Cardinality(Counted) + 1
      BY <1>2, <2>3, CountedChanges
    <2>5. WriterIsAlone' /\ ReadersAreCounted' /\ WordsAreBalanced'
      BY <1>0, <1>1, <1>2, <1>4, <2>1, <2>2 DEF WriterIsAlone, ReadersAreCounted, WordsAreBalanced
    <2>6. \A u \in Threads : pc'[u] # "failed"
      BY <1>1, <1>4 DEF GoesOn, RwType, WaitType
    <2> QED
      BY <1>0, <1>2, <2>3, <2>4, <2>5, <2>6, RwGoodFollows
  <1> QED
    BY <1>3, <1>4 DEF AcquireExclusive

LEMMA AcquireSharedGood ==
  ASSUME RwType, RwType', RwGood, NEW t \in Threads, RunsOn = {}, AcquireShared(t)
  PROVE  RwGood'
  <1>0. /\ InTransit(WriterEvent) \in Nat /\ InTransit(ReaderSemaphore) \in Nat
        /\ Cardinality(Writers) \in Nat /\ Cardinality(Readers) \in Nat /\ Cardinality(Counted) \in Nat
        /\ rwCount \in Int /\ readersEntry \in Nat /\ readersWaiting \in Nat /\ writersWaiting \in Nat
    BY RwNumbers DEF RwType
  <1>1. /\ WriterIsAlone /\ ReadersAreCounted /\ WordsAreBalanced
        /\ \A u \in Threads : pc[u] # "failed"
    BY DEF RwGood
  <1>2. /\ pc[t] = "out" /\ holds[t] = "none" /\ t \notin terminated /\ t \notin Counted
        /\ rwCount' = rwCount + 1 /\ writersWaiting' = writersWaiting
    BY DEF AcquireShared, Calls, Counted
  <1>3. CASE /\ rwCount' = 0 \/ Shareable
             /\ readersEntry' = readersEntry + 1 /\ Holds(t, "read") /\ UNCHANGED <<readersWaiting, waitVars>>
    <2>1. Cardinality(Writers)' = Cardinality(Writers) /\ Cardinality(Readers)' = 1 + Cardinality(Readers)
      BY <1>0, <1>2, <1>3, HoldsCounts
    <2>2. /\ InTransit(WriterEvent)' = InTransit(WriterEvent)
          /\ InTransit(ReaderSemaphore)' = InTransit(ReaderSemaphore)
      BY <1>3 DEF InTransit, Receivers, Unsent, Senders, waitVars
    <2>3. Counted' = Counted \cup {t} /\ UNCHANGED terminated
      BY <1>3 DEF Counted, Holds, waitVars, RwType
    <2>4. Cardinality(Counted)' = Cardinality(Counted) + 1
      BY <1>2, <2>3, CountedChanges
    <2>5. /\ Cardinality(Writers) = 0 /\ InTransit(WriterEvent) = 0
          /\ readersWaiting > 0 => writersWaiting > 0
      <3>1. CASE rwCount' = 0
        BY <1>0, <1>1, <1>2, <3>1 DEF WordsAreBalanced
      <3>2. CASE Shareable
        BY <1>0, <1>1, <3>2 DEF Shareable, WordsAreBalanced, WriterIsAlone
      <3> QED
        BY <1>3, <3>1, <3>2
    <2>6. WriterIsAlone'
      BY <1>0, <1>3, <2>1, <2>2, <2>5 DEF WriterIsAlone
    <2>7. ReadersAreCounted'
      BY <1>0, <1>1, <1>3, <2>1, <2>2 DEF ReadersAreCounted
    <2>8. WordsAreBalanced'
      BY <1>0, <1>1, <1>2, <1>3, <2>1, <2>2, <2>5 DEF WordsAreBalanced
    <2>9. \A u \in Threads : pc'[u] # "failed"
      BY <1>1, <1>3 DEF waitVars
    <2> QED
      BY <1>0, <1>2, <2>3, <2>4, <2>6, <2>7, <2>8, <2>9, RwGoodFollows
  <1>4. CASE /\ rwCount' # 0 /\ ~Shareable
             /\ readersWaiting' = readersWaiting + 1 /\ GoesOn(t, "start", ReaderSemaphore, 1)
             /\ UNCHANGED <<readersEntry, holds, objectVars, terminated, failures>>
    <2>1. Cardinality(Writers)' = Cardinality(Writers) /\ Cardinality(Readers)' = Cardinality(Readers)
      BY <1>4 DEF Writers, Readers
    <2>2. /\ InTransit(WriterEvent)' = InTransit(WriterEvent)
          /\ InTransit(ReaderSemaphore)' = InTransit(ReaderSemaphore)
      BY <1>2, <1>4, RwObjects, StartKeeps DEF RwType
    <2>3. Counted' = Counted \cup {t} /\ UNCHANGED terminated
      BY <1>4 DEF Counted, GoesOn, RwType, WaitType
    <2>4. Cardinality(Counted)' = Cardinality(Counted) + 1
      BY <1>2, <2>3, CountedChanges
    <2>5. WriterIsAlone' /\ ReadersAreCounted'
      BY <1>0, <1>1, <1>2, <1>4, <2>1, <2>2 DEF WriterIsAlone, ReadersAreCounted
    <2>6. WordsAreBalanced'
      BY <1>0, <1>1, <1>2, <1>4, <2>1, <2>2 DEF WordsAreBalanced, Shareable
    <2>7. \A u \in Threads : pc'[u] # "failed"
      BY <1>1, <1>4 DEF GoesOn, RwType, WaitType
    <2> QED
      BY <1>0, <1>2, <2>3, <2>4, <2>5, <2>6, <2>7, RwGoodFollows
  <1> QED
    BY <1>3, <1>4 DEF AcquireShared

\* A try that succeeds takes the lock the way an acquire without a wait does.
LEMMA TryGood ==
  ASSUME RwType, RwType', RwGood, NEW t \in Threads, RunsOn = {}, TryExclusive(t) \/ TryShared(t)
  PROVE  RwGood'
  <1>0. /\ InTransit(WriterEvent) \in Nat /\ Cardinality(Writers) \in Nat /\ rwCount \in Int
        /\ readersEntry \in Nat /\ readersWaiting \in Nat /\ writersWaiting \in Nat
    BY RwNumbers DEF RwType
  <1>1. rwCount < 0 => rwCount = -1
    <2>1. WordsAreBalanced
      BY DEF RwGood
    <2> QED
      BY <1>0, <2>1 DEF WordsAreBalanced
  <1>2. CASE TryExclusive(t)
    <2>1. AcquireExclusive(t)
      BY <1>0, <1>1, <1>2 DEF TryExclusive, AcquireExclusive
    <2> QED
      BY <2>1, AcquireExclusiveGood
  <1>3. CASE TryShared(t)
    <2>1. AcquireShared(t)
      BY <1>0, <1>1, <1>3 DEF TryShared, AcquireShared
    <2> QED
      BY <2>1, AcquireSharedGood
  <1> QED
    BY <1>2, <1>3

LEMMA AcquiredGood ==
  ASSUME RwType, RwType', RwGood, NEW t \in Threads, RunsOn = {}, Acquired(t)
  PROVE  RwGood'
  <1>0. /\ InTransit(WriterEvent) \in Nat /\ InTransit(ReaderSemaphore) \in Nat
        /\ Cardinality(Writers) \in Nat /\ Cardinality(Readers) \in Nat /\ Cardinality(Counted) \in Nat
        /\ rwCount \in Int /\ readersEntry \in Nat /\ readersWaiting \in Nat /\ writersWaiting \in Nat
    BY RwNumbers DEF RwType
  <1>1. /\ WriterIsAlone /\ ReadersAreCounted /\ WordsAreBalanced
        /\ \A u \in Threads : pc[u] # "failed"
    BY DEF RwGood
  <1>2. /\ pc[t] \in {"granted", "refused"} /\ holds[t] = "none" /\ target[t] \in {WriterEvent, ReaderSemaphore}
        /\ Returns(t) /\ UNCHANGED <<rwCount, writersWaiting, readersWaiting, readersEntry>>
        /\ UNCHANGED <<objectVars, terminated, failures>>
    BY <1>1 DEF Acquired, RwType
  <1>3. \A u \in Threads : pc'[u] # "failed"
    BY <1>1, <1>2 DEF Returns, RwType, WaitType
  <1>4. /\ InTransit(WriterEvent)' = IF pc[t] = "granted" /\ WriterEvent = target[t]
                                       THEN InTransit(WriterEvent) - 1 ELSE InTransit(WriterEvent)
        /\ InTransit(ReaderSemaphore)' = IF pc[t] = "granted" /\ ReaderSemaphore = target[t]
                                           THEN InTransit(ReaderSemaphore) - 1 ELSE InTransit(ReaderSemaphore)
    BY <1>2, RwObjects, GoingOnTakes DEF RwType
  <1>5. CASE pc[t] = "refused"
    <2>1. holds' = holds
      BY <1>5 DEF Acquired
    <2>2. Writers' = Writers /\ Readers' = Readers
      BY <2>1 DEF Writers, Readers
    <2>3. t \in terminated
      BY <1>5 DEF RwType
    <2>4. Counted' = Counted
      BY <1>2, <2>1, <2>3 DEF Counted, Returns, RwType, WaitType
    <2>5. /\ InTransit(WriterEvent)' = InTransit(WriterEvent)
          /\ InTransit(ReaderSemaphore)' = InTransit(ReaderSemaphore)
      BY <1>4, <1>5
    <2>6. WriterIsAlone' /\ ReadersAreCounted' /\ WordsAreBalanced'
      BY <1>1, <1>2, <2>2, <2>5 DEF WriterIsAlone, ReadersAreCounted, WordsAreBalanced
    <2> QED
      BY <1>0, <1>2, <1>3, <2>4, <2>6, RwGoodFollows
  <1>6. CASE pc[t] = "granted"
    <2>1. Holds(t, IF target[t] = WriterEvent THEN "write" ELSE "read")
      BY <1>6 DEF Acquired
    <2>2. Counted' = Counted
      BY <1>2, <1>6, <2>1 DEF Counted, Returns, Holds, RwType, WaitType
    <2>3. CASE target[t] = WriterEvent
      <3>1. Cardinality(Writers)' = 1 + Cardinality(Writers) /\ Cardinality(Readers)' = Cardinality(Readers)
        BY <1>0, <1>2, <2>1, <2>3, HoldsCounts
      <3>2. /\ InTransit(WriterEvent)' = InTransit(WriterEvent) - 1
            /\ InTransit(ReaderSemaphore)' = InTransit(ReaderSemaphore)
        BY <1>4, <1>6, <2>3, RwObjects
      <3>3. WriterIsAlone' /\ ReadersAreCounted' /\ WordsAreBalanced'
        BY <1>0, <1>1, <1>2, <3>1, <3>2 DEF WriterIsAlone, ReadersAreCounted, WordsAreBalanced
      <3> QED
        BY <1>0, <1>2, <1>3, <2>2, <3>3, RwGoodFollows
    <2>4. CASE target[t] = ReaderSemaphore
      <3>1. Cardinality(Writers)' = Cardinality(Writers) /\ Cardinality(Readers)' = 1 + Cardinality(Readers)
        BY <1>0, <1>2, <2>1, <2>4, RwObjects, HoldsCounts
      <3>2. /\ InTransit(WriterEvent)' = InTransit(WriterEvent)
            /\ InTransit(ReaderSemaphore)' = InTransit(ReaderSemaphore) - 1
        BY <1>4, <1>6, <2>4, RwObjects
      <3>3. WriterIsAlone' /\ ReadersAreCounted' /\ WordsAreBalanced'
        BY <1>0, <1>1, <1>2, <3>1, <3>2 DEF WriterIsAlone, ReadersAreCounted, WordsAreBalanced
      <3> QED
        BY <1>0, <1>2, <1>3, <2>2, <3>3, RwGoodFollows
    <2> QED
      BY <1>2, <2>3, <2>4
  <1> QED
    BY <1>2, <1>5, <1>6

LEMMA ReleaseGood ==
  ASSUME RwType, RwType', RwGood, NEW t \in Threads, RunsOn = {}, Release(t)
  PROVE  RwGood'
  <1>0. /\ InTransit(WriterEvent) \in Nat /\ InTransit(ReaderSemaphore) \in Nat
        /\ Cardinality(Writers) \in Nat /\ Cardinality(Readers) \in Nat /\ Cardinality(Counted) \in Nat
        /\ rwCount \in Int /\ readersEntry \in Nat /\ readersWaiting \in Nat /\ writersWaiting \in Nat
    BY RwNumbers DEF RwType
  <1>1. /\ WriterIsAlone /\ ReadersAreCounted /\ WordsAreBalanced
        /\ \A u \in Threads : pc[u] # "failed"
    BY DEF RwGood
  <1>2. /\ pc[t] = "out" /\ holds[t] # "none" /\ t \notin terminated /\ t \in Counted
        /\ rwCount' = rwCount - 1 /\ Holds(t, "none")
        /\ UNCHANGED <<objectVars, terminated, failures>>
    BY DEF Release, Calls, Counted
  <1>3. /\ Cardinality(Writers)' = IF holds[t] = "write" THEN Cardinality(Writers) - 1 ELSE Cardinality(Writers)
        /\ Cardinality(Readers)' = IF holds[t] = "read" THEN Cardinality(Readers) - 1 ELSE Cardinality(Readers)
    BY <1>0, <1>2, HoldsCounts
  <1>4. /\ holds[t] = "write" => Cardinality(Writers) > 0
        /\ holds[t] = "read" => Cardinality(Readers) > 0
        /\ holds[t] = "write" \/ holds[t] = "read"
    <2>1. IsFiniteSet(Writers) /\ IsFiniteSet(Readers)
      BY RwNumbers
    <2>2. holds[t] = "write" => Writers # {}
      BY DEF Writers
    <2>3. holds[t] = "read" => Readers # {}
      BY DEF Readers
    <2>4. (Writers # {} => Cardinality(Writers) # 0) /\ (Readers # {} => Cardinality(Readers) # 0)
      BY <2>1, FS_EmptySet
    <2>5. holds[t] \in {"none", "read", "write"}
      BY DEF RwType
    <2> QED
      BY <1>0, <1>2, <2>2, <2>3, <2>4, <2>5
  <1>5. rwCount >= 0
    BY <1>0, <1>1, <1>4 DEF WordsAreBalanced, ReadersAreCounted
  <1>6. /\ holds[t] = "write" => Cardinality(Writers) = 1 /\ InTransit(WriterEvent) = 0 /\ readersEntry = 0
                                   /\ Cardinality(Readers) = 0 /\ InTransit(ReaderSemaphore) = 0
        /\ holds[t] = "read" => readersEntry > 0 /\ Cardinality(Writers) = 0 /\ InTransit(WriterEvent) = 0
    BY <1>0, <1>1, <1>4 DEF WriterIsAlone, ReadersAreCounted
  <1>7. ASSUME \A u \in Threads : u # t => pc'[u] = pc[u], pc'[t] \in {"out", "signal"},
               WriterIsAlone', ReadersAreCounted', WordsAreBalanced'
        PROVE  RwGood'
    <2>1. Counted' = Counted \ {t}
      BY <1>2, <1>7 DEF Counted, Holds, RwType
    <2>2. Cardinality(Counted)' = Cardinality(Counted) - 1
      BY <1>2, <2>1, CountedChanges
    <2>3. \A u \in Threads : pc'[u] # "failed"
      BY <1>1, <1>7
    <2> QED
      BY <1>0, <1>2, <1>7, <2>2, <2>3, RwGoodFollows
  <1>8. CASE rwCount' < 0
    <2>1. /\ readersEntry' = 0 /\ UNCHANGED <<writersWaiting, readersWaiting, pc, target, amount>>
          /\ UNCHANGED objectVars
      BY <1>8 DEF Release
    <2>2. /\ InTransit(WriterEvent)' = InTransit(WriterEvent)
          /\ InTransit(ReaderSemaphore)' = InTransit(ReaderSemaphore)
      BY <2>1 DEF InTransit, Receivers, Unsent, Senders, objectVars
    <2>3. rwCount = 0 /\ rwCount' = -1
      BY <1>0, <1>2, <1>5, <1>8
    <2>4. /\ readersWaiting = 0 /\ writersWaiting = 0
          /\ readersEntry + Cardinality(Writers) + InTransit(WriterEvent) = 1
      BY <1>0, <1>1, <1>4, <1>6, <2>3 DEF WordsAreBalanced
    <2>5. /\ Cardinality(Writers)' = 0 /\ InTransit(WriterEvent)' = 0
          /\ Cardinality(Readers)' = 0 /\ InTransit(ReaderSemaphore)' = 0
      <3>1. CASE holds[t] = "write"
        BY <1>0, <1>3, <1>6, <2>2, <3>1
      <3>2. CASE holds[t] = "read"
        <4>1. readersEntry = 1
          BY <1>0, <1>6, <2>4, <3>2
        <4>2. Cardinality(Readers) = 1 /\ InTransit(ReaderSemaphore) = 0
          BY <1>0, <1>1, <1>4, <3>2, <4>1 DEF ReadersAreCounted
        <4> QED
          BY <1>0, <1>3, <1>6, <2>2, <3>2, <4>2
      <3> QED
        BY <1>4, <3>1, <3>2
    <2>6. WriterIsAlone' /\ ReadersAreCounted' /\ WordsAreBalanced'
      BY <2>1, <2>3, <2>4, <2>5 DEF WriterIsAlone, ReadersAreCounted, WordsAreBalanced
    <2> QED
      BY <1>2, <1>7, <2>1, <2>6
  <1>9. CASE ~(rwCount' < 0) /\ readersEntry = 0 /\ readersWaiting # 0 /\ WakeReaders(t)
    <2>1. holds[t] = "write"
      BY <1>0, <1>4, <1>6, <1>9
    <2>2. /\ readersWaiting' = 0 /\ readersEntry' = readersWaiting /\ writersWaiting' = writersWaiting
          /\ GoesOn(t, "signal", ReaderSemaphore, readersWaiting)
      BY <1>9 DEF WakeReaders
    <2>3. /\ InTransit(ReaderSemaphore)' = InTransit(ReaderSemaphore) + readersWaiting
          /\ InTransit(WriterEvent)' = InTransit(WriterEvent)
      BY <1>0, <1>2, <2>2, RwObjects, SendAdds DEF RwType
    <2>4. /\ Cardinality(Writers)' = 0 /\ InTransit(WriterEvent)' = 0 /\ Cardinality(Readers)' = 0
          /\ InTransit(ReaderSemaphore)' = readersWaiting
      BY <1>0, <1>3, <1>6, <2>1, <2>3
    <2>5. rwCount = readersWaiting + writersWaiting /\ readersWaiting > 0
      BY <1>0, <1>1, <1>6, <1>9, <2>1 DEF WordsAreBalanced
    <2>6. WriterIsAlone' /\ ReadersAreCounted' /\ WordsAreBalanced'
      BY <1>0, <1>2, <2>2, <2>4, <2>5 DEF WriterIsAlone, ReadersAreCounted, WordsAreBalanced
    <2> QED
      BY <1>2, <1>7, <2>2, <2>6 DEF GoesOn, RwType, WaitType
  <1>10. ASSUME ~(rwCount' < 0), WakeWriter(t), readersEntry' = 0, readersEntry = 0 \/ readersEntry = 1,
                readersEntry = 0 => readersWaiting = 0 /\ holds[t] = "write",
                readersEntry = 1 => holds[t] = "read"
         PROVE  RwGood'
    <2>1. writersWaiting > 0 /\ writersWaiting <= Word
      <3>1. writersWaiting > 0
        BY <1>0, <1>1, <1>2, <1>6, <1>10 DEF WordsAreBalanced
      <3>2. writersWaiting <= rwCount + 1
        BY <1>0, <1>1 DEF WordsAreBalanced
      <3>3. rwCount + 1 <= Cardinality(Counted) /\ Cardinality(Counted) <= Word
        BY RwNumbers DEF RwGood, CountIsOfThreads
      <3>4. Word \in Nat
        BY RwAssumption
      <3> QED
        BY <1>0, <3>1, <3>2, <3>3, <3>4
    <2>2. /\ writersWaiting' = writersWaiting - 1 /\ readersWaiting' = readersWaiting
          /\ GoesOn(t, "signal", WriterEvent, 1)
      BY <1>0, <1>10, <2>1, LessIsNat DEF WakeWriter
    <2>3. /\ InTransit(WriterEvent)' = InTransit(WriterEvent) + 1
          /\ InTransit(ReaderSemaphore)' = InTransit(ReaderSemaphore)
      BY <1>2, <2>2, RwObjects, SendAdds DEF RwType
    <2>4. /\ Cardinality(Writers)' = 0 /\ InTransit(WriterEvent)' = 1
          /\ Cardinality(Readers)' = 0 /\ InTransit(ReaderSemaphore)' = 0
      <3>1. CASE readersEntry = 0
        BY <1>0, <1>3, <1>6, <1>10, <2>3, <3>1
      <3>2. CASE readersEntry = 1
        <4>2. Cardinality(Readers) = 1 /\ InTransit(ReaderSemaphore) = 0
          BY <1>0, <1>1, <1>4, <1>10, <3>2 DEF ReadersAreCounted
        <4> QED
          BY <1>0, <1>3, <1>6, <1>10, <2>3, <3>2, <4>2
      <3> QED
        BY <1>10, <3>1, <3>2
    <2>5. rwCount = readersWaiting + writersWaiting
      BY <1>0, <1>1, <1>6, <1>10 DEF WordsAreBalanced
    <2>6. WriterIsAlone' /\ ReadersAreCounted' /\ WordsAreBalanced'
      BY <1>0, <1>2, <1>10, <2>1, <2>2, <2>4, <2>5 DEF WriterIsAlone, ReadersAreCounted, WordsAreBalanced
    <2> QED
      BY <1>2, <1>7, <2>2, <2>6 DEF GoesOn, RwType, WaitType
  <1>11. CASE ~(rwCount' < 0) /\ readersEntry > 1 /\ readersEntry' = readersEntry - 1
              /\ UNCHANGED <<writersWaiting, readersWaiting, pc, target, amount>>
    <2>1. holds[t] = "read"
      BY <1>0, <1>4, <1>6, <1>11
    <2>2. /\ InTransit(WriterEvent)' = InTransit(WriterEvent)
          /\ InTransit(ReaderSemaphore)' = InTransit(ReaderSemaphore)
      BY <1>2, <1>11 DEF InTransit, Receivers, Unsent, Senders, objectVars
    <2>3. Cardinality(Writers)' = Cardinality(Writers) /\ Cardinality(Readers)' = Cardinality(Readers) - 1
      BY <1>3, <2>1
    <2>4. WriterIsAlone' /\ ReadersAreCounted' /\ WordsAreBalanced'
      BY <1>0, <1>1, <1>2, <1>6, <1>11, <2>1, <2>2, <2>3 DEF WriterIsAlone, ReadersAreCounted, WordsAreBalanced
    <2> QED
      BY <1>2, <1>7, <1>11, <2>4
  <1>12. CASE ~(rwCount' < 0)
    <2>1. HandOver(t)
      BY <1>12 DEF Release
    <2>2. CASE readersEntry = 0 /\ readersWaiting = 0 /\ WakeWriter(t) /\ UNCHANGED readersEntry
      BY <1>0, <1>4, <1>6, <1>10, <1>12, <2>2
    <2>3. CASE readersEntry > 0 /\ readersEntry' = readersEntry - 1 /\ readersEntry' = 0 /\ WakeWriter(t)
      BY <1>0, <1>4, <1>6, <1>10, <1>12, <2>3
    <2>4. CASE /\ readersEntry > 0 /\ readersEntry' = readersEntry - 1 /\ readersEntry' # 0
               /\ UNCHANGED <<writersWaiting, readersWaiting, pc, target, amount>>
      BY <1>0, <1>11, <1>12, <2>4
    <2> QED
      BY <1>9, <1>12, <2>1, <2>2, <2>3, <2>4 DEF HandOver
  <1> QED
    BY <1>8, <1>12

LEMMA RwIsInductive ==
  ASSUME RunsOn = {}, RwInv, [RwNext]_<<waitVars, rwVars>>
  PROVE  RwInv'
  <1>0. RwType /\ (failures = 0 => RwGood) /\ failures \in Nat
    BY DEF RwInv, RwType, WaitType
  <1>1. ASSUME NEW t \in Threads, \/ AcquireExclusive(t) \/ AcquireShared(t) \/ Acquired(t)
                                  \/ TryExclusive(t) \/ TryShared(t) \/ Release(t)
        PROVE  RwInv'
    <2>1. RwType'
      BY <1>0, <1>1, RwCallType
    <2>2. failures' = failures
      BY <1>1 DEF AcquireExclusive, AcquireShared, Acquired, TryExclusive, TryShared, Release, waitVars
    <2>3. failures = 0 => RwGood'
      BY <1>0, <1>1, <2>1, AcquireExclusiveGood, AcquireSharedGood, AcquiredGood, TryGood, ReleaseGood
    <2> QED
      BY <2>1, <2>2, <2>3 DEF RwInv
  <1>2. ASSUME NEW t \in Threads, WaitStep(t), UNCHANGED rwVars
        PROVE  RwInv'
    <2>1. RwType'
      BY <1>0, <1>2, RwWaitStepType
    <2>2. failures' = 0 => failures = 0
      BY <1>0, <1>2 DEF WaitStep, Wait, Wake, GiveUp, Unresolved, Signal, Terminate
    <2>3. failures' = 0 => RwGood'
      BY <1>0, <1>2, <2>2, RwWaitStepGood
    <2> QED
      BY <2>1, <2>3 DEF RwInv
  <1>3. CASE UNCHANGED <<waitVars, rwVars>>
    BY <1>3 DEF RwInv, RwType, WaitType, WaitersQueue, RwGood, WriterIsAlone, ReadersAreCounted,
                WordsAreBalanced, CountIsOfThreads, Counted, Writers, Readers, InTransit, Receivers,
                Unsent, Senders, waitVars, rwVars
  <1> QED
    BY <1>1, <1>2, <1>3 DEF RwNext

LEMMA RwStarts == WaitInit /\ RwInit => RwInv
  <1> SUFFICES ASSUME WaitInit, RwInit PROVE RwInv
    OBVIOUS
  <1>1. RwType
    BY RwObjects DEF WaitInit, RwInit, RwType, WaitType, WaitersQueue, Labels
  <1>2. /\ Writers = {} /\ Readers = {} /\ Counted = {}
        /\ \A o : Receivers(o) = {} /\ Senders(o) = {}
    BY DEF WaitInit, RwInit, Writers, Readers, Counted, Receivers, Senders
  <1>3. Cardinality({}) = 0
    BY FS_EmptySet
  <1>4. \A o \in Objects : InTransit(o) = 0
    <2>1. \A o \in Objects : Unsent(o) = {} /\ tokens[o] = 0
      BY <1>2 DEF Unsent, WaitInit
    <2> QED
      BY <1>2, <1>3, <2>1 DEF InTransit
  <1>5. /\ rwCount = -1 /\ readersEntry = 0 /\ readersWaiting = 0 /\ writersWaiting = 0
        /\ Cardinality(Writers) = 0 /\ Cardinality(Readers) = 0 /\ Cardinality(Counted) = 0
        /\ InTransit(WriterEvent) = 0 /\ InTransit(ReaderSemaphore) = 0
    BY <1>2, <1>3, <1>4, RwObjects DEF RwInit
  <1>6. WriterIsAlone /\ ReadersAreCounted /\ WordsAreBalanced /\ CountIsOfThreads
    BY <1>5 DEF WriterIsAlone, ReadersAreCounted, WordsAreBalanced, CountIsOfThreads
  <1> QED
    BY <1>1, <1>6 DEF RwInv, RwGood, WaitInit

\* A writer holds the lock alone across every hand-over, readers_entry counts
\* the readers inside and on their way in, a writer is inside or on its way in
\* exactly while there are none and the lock is wanted, and lock_count counts
\* holders and waiters, for every number of readers and writers and any number
\* of them terminated in their waits (ExAcquireReadWriteLock*,
\* ExTryToAcquireReadWriteLock*, ExReleaseReadWriteLock).
THEOREM LockIsHandedOver ==
  ASSUME RunsOn = {}
  PROVE  RwSpec => []RwHandOver
  <1>1. RwInv => RwHandOver
    <2> SUFFICES ASSUME RwInv, failures = 0 PROVE RwHandOver
      BY DEF RwHandOver
    <2>0. RwType /\ RwGood
      BY DEF RwInv
    <2>1. /\ InTransit(WriterEvent) \in Nat /\ InTransit(ReaderSemaphore) \in Nat
          /\ IsFiniteSet(Writers) /\ Cardinality(Writers) \in Nat
          /\ IsFiniteSet(Readers) /\ Cardinality(Readers) \in Nat
      BY <2>0, RwNumbers
    <2>2. Writers # {} => Cardinality(Writers) = 1 /\ Readers = {}
      <3>1. (Cardinality(Writers) = 0 <=> Writers = {}) /\ (Cardinality(Readers) = 0 <=> Readers = {})
        BY <2>1, FS_EmptySet
      <3>2. Cardinality(Writers) # 0 => Cardinality(Writers) = 1 /\ readersEntry = 0
        BY <2>0, <2>1 DEF RwGood, WriterIsAlone
      <3>3. readersEntry = 0 => Cardinality(Readers) = 0
        BY <2>0, <2>1 DEF RwGood, ReadersAreCounted
      <3> QED
        BY <3>1, <3>2, <3>3
    <2>3. ASSUME terminated = {}
          PROVE  rwCount + 1 = Cardinality(Readers \cup Writers)
                                 + Cardinality(Registered({WriterEvent, ReaderSemaphore}))
      <3> DEFINE H == Readers \cup Writers
                 G == Registered({WriterEvent, ReaderSemaphore})
      <3>1. Counted = H \cup G /\ H \cap G = {}
        BY <2>0, <2>3 DEF Counted, Readers, Writers, Registered, RwType
      <3>2. H \subseteq Threads /\ G \subseteq Threads
        BY DEF Readers, Writers, Registered
      <3> HIDE DEF H, G
      <3>3. IsFiniteSet(H) /\ IsFiniteSet(G) /\ Cardinality(H) \in Nat /\ Cardinality(G) \in Nat
        BY <3>2, ThreadsAreFinite
      <3>4. Cardinality(H \cup G) = Cardinality(H) + Cardinality(G) - Cardinality(H \cap G)
        BY <3>3, FS_Union
      <3>5. Cardinality(H \cap G) = 0
        BY <3>1, FS_EmptySet
      <3>6. rwCount + 1 = Cardinality(Counted)
        BY <2>0, <2>3 DEF RwGood, CountIsOfThreads
      <3>7. Cardinality(Counted) = Cardinality(H) + Cardinality(G)
        BY <3>1, <3>3, <3>4, <3>5
      <3> QED
        BY <3>6, <3>7 DEF H, G
    <2> QED
      BY <2>0, <2>2, <2>3 DEF RwHandOver, RwGood, WriterIsAlone, ReadersAreCounted
  <1>2. RwInv /\ [RwNext]_<<waitVars, rwVars>> => RwInv'
    BY RwIsInductive
  <1> QED
    BY <1>1, <1>2, RwStarts, PTL DEF RwSpec
=============================================================================
