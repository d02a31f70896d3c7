-------------------------------- MODULE PartsProofs ---------------------------
(***************************************************************************)
(* The small parts: the linked lists for any memory and any values, the    *)
(* waits of LockQueue for any threads and any bound, the plug-in registry  *)
(* for any libraries, names and offers, and the HTTP client for any texts  *)
(* and number of launches.                                                 *)
(***************************************************************************)
EXTENDS LinkedList, LockQueue, PlugFactory, HttpClient, SequenceTheorems, FiniteSetTheorems,
        WellFoundedInduction, TLAPS

-----------------------------------------------------------------------------
\* The nodes form one ring: path lists them from the head (0) to the head
\* (size + 1), each once.  Inverse pointers alone would admit a second ring, whose
\* last node is its own successor.
IsPath(size, path) ==
  /\ path \in [0..(size + 1) -> Nodes \union {HeadNode}]
  /\ path[0] = HeadNode /\ path[size + 1] = HeadNode
  /\ \A i \in 1..size : path[i] \in Live
  /\ \A m \in Live : \E i \in 1..size : path[i] = m
  /\ \A i, j \in 1..size : path[i] = path[j] => i = j
  /\ \A i \in 0..size : next[path[i]] = path[i + 1] /\ prev[path[i + 1]] = path[i]

Types ==
  /\ data \in [Nodes -> Values \union {Null}]
  /\ DOMAIN next = Nodes \union {HeadNode} /\ DOMAIN prev = Nodes \union {HeadNode}

OneRing == \E size \in Nat : \E path : IsPath(size, path)

\* Where the loop variable may be: only a loop of the list moves it, and the
\* destructor is always at the first node.
LoopPlace ==
  /\ iter \in Ring
  /\ iter # HeadNode => kind = "list" /\ pc # "idle"
  /\ pc \in {"first", "all"} => kind = "list"
  /\ pc = "destroy" /\ kind = "list" => iter = next[HeadNode]

LinkInv == Types /\ OneRing /\ LoopPlace /\ AllFreed

\* One ring has inverse pointers, and only an empty one has a head that is its own
\* neighbour.
LEMMA RingLinks ==
  ASSUME Types, OneRing
  PROVE  /\ \A m \in Ring : /\ next[m] \in Ring /\ prev[m] \in Ring
                            /\ prev[next[m]] = m /\ next[prev[m]] = m
         /\ \A m \in Live : next[m] # m /\ prev[m] # m
         /\ next[HeadNode] = HeadNode \/ prev[HeadNode] = HeadNode => Live = {}
<1>0. PICK size \in Nat : \E path : IsPath(size, path)
  BY DEF OneRing
<1>1. PICK path : IsPath(size, path)
  BY <1>0
<1>2. \A i \in 0..(size + 1) : path[i] \in Ring
  BY <1>1 DEF IsPath, Ring
<1>3. HeadNode \notin Live
  BY HeadAssumption DEF Live
<1>4. ASSUME NEW m \in Ring
      PROVE  /\ \E i \in 0..size : path[i] = m
             /\ \E i \in 1..(size + 1) : path[i] = m
  BY <1>1 DEF IsPath, Ring
<1>5. ASSUME NEW m \in Ring
      PROVE  next[m] \in Ring /\ prev[m] \in Ring /\ prev[next[m]] = m /\ next[prev[m]] = m
  <2>1. PICK i \in 0..size : path[i] = m
    BY <1>4
  <2>2. PICK j \in 1..(size + 1) : path[j] = m
    BY <1>4
  <2>3. j - 1 \in 0..size /\ i + 1 \in 0..(size + 1) /\ (j - 1) + 1 = j
    OBVIOUS
  <2>4. next[m] = path[i + 1] /\ prev[path[i + 1]] = m
    BY <1>1, <2>1 DEF IsPath
  <2>5. prev[m] = path[j - 1] /\ next[path[j - 1]] = m
    BY <1>1, <2>2, <2>3 DEF IsPath
  <2>. QED
    BY <1>2, <2>3, <2>4, <2>5
<1>6. ASSUME NEW m \in Live
      PROVE  next[m] # m
  <2>1. PICK i \in 1..size : path[i] = m
    BY <1>1 DEF IsPath
  <2>2. next[m] = path[i + 1]
    BY <1>1, <2>1 DEF IsPath
  <2>3. CASE i = size
    BY <1>1, <1>3, <2>2, <2>3 DEF IsPath
  <2>4. CASE i # size
    <3>1. i + 1 \in 1..size /\ i + 1 # i
      BY <2>4
    <3>. QED
      BY <1>1, <2>1, <2>2, <3>1 DEF IsPath
  <2>. QED
    BY <2>3, <2>4
<1>7. \A m \in Live : prev[m] # m
  BY <1>5, <1>6 DEF Ring
<1>8. ASSUME next[HeadNode] = HeadNode \/ prev[HeadNode] = HeadNode
      PROVE  Live = {}
  <2>1. next[HeadNode] = HeadNode
    BY <1>5, <1>8 DEF Ring
  <2>2. path[1] = HeadNode
    BY <1>1, <2>1 DEF IsPath
  <2>3. size = 0
    BY <1>1, <1>3, <2>2 DEF IsPath
  <2>. QED
    BY <1>1, <2>3 DEF IsPath
<1>. QED
  BY <1>5, <1>6, <1>7, <1>8

\* The places of a path from the head to its last node, and those from the first
\* node to the head, hold different nodes.
LEMMA PathDistinct ==
  ASSUME NEW size \in Nat, NEW path, IsPath(size, path)
  PROVE  /\ \A i \in 0..(size + 1) : path[i] \in Live \union {HeadNode}
         /\ \A i, j \in 0..size : path[i] = path[j] => i = j
         /\ \A i, j \in 1..(size + 1) : path[i] = path[j] => i = j
<1>1. HeadNode \notin Live
  BY HeadAssumption DEF Live
<1>2. path[0] = HeadNode /\ path[size + 1] = HeadNode /\ \A i \in 1..size : path[i] \in Live
  BY DEF IsPath
<1>3. \A i, j \in 1..size : path[i] = path[j] => i = j
  BY DEF IsPath
<1>4. \A i \in 0..(size + 1) : i = 0 \/ i = size + 1 \/ i \in 1..size
  OBVIOUS
<1>. QED
  BY <1>1, <1>2, <1>3, <1>4

\* A node put behind the place k of a path, and the node at k taken out of it.
Inserted(size, path, k, n) ==
  [i \in 0..(size + 2) |-> IF i <= k THEN path[i] ELSE IF i = k + 1 THEN n ELSE path[i - 1]]

Removed(size, path, k) == [i \in 0..size |-> IF i < k THEN path[i] ELSE path[i + 1]]

\* A node inserted between two neighbours takes its place in the path.
LEMMA InsertPath ==
  ASSUME Types, NEW size \in Nat, NEW path, IsPath(size, path), NEW k \in 0..size,
         NEW n \in Nodes, NEW v \in Values, n \notin Live, data' = [data EXCEPT ![n] = v],
         Insert(n, path[k], path[k + 1])
  PROVE  /\ Types' /\ OneRing' /\ Live' = Live \union {n}
         /\ IsPath(size + 1, Inserted(size, path, k, n))'
<1> DEFINE P == Inserted(size, path, k, n)
<1>0. \A a, b \in 1..size : path[a] = path[b] => a = b
  BY DEF IsPath
<1>1. Types'
  BY DEF Types, Insert
<1>2. Live' = Live \union {n}
  BY NullAssumption DEF Live, Types
<1>3. /\ \A i \in 0..k : P[i] = path[i]
      /\ P[k + 1] = n
      /\ \A i \in (k + 1)..(size + 1) : P[i + 1] = path[i]
  BY DEF Inserted
<1>4. P \in [0..(size + 2) -> Nodes \union {HeadNode}]
  BY DEF IsPath, Inserted
<1> HIDE DEF P
<1>5. P[0] = HeadNode /\ P[size + 2] = HeadNode
  <2>1. 0 \in 0..k /\ size + 1 \in (k + 1)..(size + 1) /\ (size + 1) + 1 = size + 2
    OBVIOUS
  <2>. QED
    BY <1>3, <2>1 DEF IsPath
<1>6. \A i \in 1..(size + 1) :
        \/ i = k + 1
        \/ i \in 1..k /\ P[i] = path[i]
        \/ i - 1 \in (k + 1)..size /\ i - 1 \in 1..size /\ P[i] = path[i - 1]
  <2> TAKE i \in 1..(size + 1)
  <2>1. CASE i <= k
    BY <1>3, <2>1
  <2>2. CASE i > k + 1
    <3>1. i - 1 \in (k + 1)..(size + 1) /\ i - 1 \in (k + 1)..size /\ i - 1 \in 1..size /\ (i - 1) + 1 = i
      BY <2>2
    <3>. QED
      BY <1>3, <3>1
  <2>. QED
    BY <2>1, <2>2
<1>7. \A i \in 1..(size + 1) : i # k + 1 => P[i] \in Live
  BY <1>6 DEF IsPath
<1>8. \A i \in 1..(size + 1) : P[i] \in Live \union {n}
  BY <1>3, <1>7
<1>9. ASSUME NEW m \in Live \union {n} PROVE \E i \in 1..(size + 1) : P[i] = m
  <2>1. CASE m = n
    BY <1>3, <2>1
  <2>2. CASE m # n
    <3>1. PICK j \in 1..size : path[j] = m
      BY <2>2 DEF IsPath
    <3>2. CASE j <= k
      BY <1>3, <3>1, <3>2
    <3>3. CASE j > k
      BY <1>3, <3>1, <3>3
    <3>. QED
      BY <3>2, <3>3
  <2>. QED
    BY <2>1, <2>2
<1>10. ASSUME NEW i \in 1..(size + 1), NEW j \in 1..(size + 1), P[i] = P[j] PROVE i = j
  <2>1. i = k + 1 <=> j = k + 1
    BY <1>3, <1>7, <1>10
  <2>2. CASE i # k + 1 /\ j # k + 1
    <3>1. PICK a \in 1..size : P[i] = path[a] /\ a = IF i <= k THEN i ELSE i - 1
      BY <1>6, <2>2
    <3>2. PICK b \in 1..size : P[j] = path[b] /\ b = IF j <= k THEN j ELSE j - 1
      BY <1>6, <2>2
    <3>3. a = b
      BY <1>0, <1>10, <3>1, <3>2
    <3>. QED
      BY <2>2, <3>1, <3>2, <3>3
  <2>. QED
    BY <2>1, <2>2
<1>11. \A i \in 0..size : /\ path[i] = path[k] => i = k
                          /\ path[i + 1] = path[k + 1] => i = k
                          /\ path[i] # n /\ path[i + 1] # n
  <2> TAKE i \in 0..size
  <2>1. n \notin Live \union {HeadNode}
    BY HeadAssumption
  <2>2. /\ i \in 0..(size + 1) /\ i + 1 \in 1..(size + 1) /\ i + 1 \in 0..(size + 1)
        /\ k + 1 \in 1..(size + 1) /\ (i + 1 = k + 1 => i = k)
    OBVIOUS
  <2>. QED
    BY <2>1, <2>2, PathDistinct
<1>12. /\ next'[path[k]] = n /\ next'[n] = path[k + 1]
       /\ prev'[n] = path[k] /\ prev'[path[k + 1]] = n
       /\ \A i \in 0..size : i # k => /\ next'[path[i]] = path[i + 1]
                                      /\ prev'[path[i + 1]] = path[i]
  <2>1. /\ \A i \in 0..size : path[i] \in DOMAIN next /\ path[i + 1] \in DOMAIN prev
        /\ n \in DOMAIN next /\ n \in DOMAIN prev
    BY DEF IsPath, Types
  <2>2. \A i \in 0..size : next[path[i]] = path[i + 1] /\ prev[path[i + 1]] = path[i]
    BY DEF IsPath
  <2>. QED
    BY <1>11, <2>1, <2>2 DEF Insert
<1>13. ASSUME NEW i \in 0..(size + 1)
       PROVE  next'[P[i]] = P[i + 1] /\ prev'[P[i + 1]] = P[i]
  <2>1. CASE i < k
    <3>1. i \in 0..k /\ i + 1 \in 0..k /\ i \in 0..size /\ i # k
      BY <2>1
    <3>. QED
      BY <1>3, <1>12, <3>1
  <2>2. CASE i = k
    BY <1>3, <1>12, <2>2
  <2>3. CASE i = k + 1
    <3>1. k + 1 \in (k + 1)..(size + 1)
      OBVIOUS
    <3>. QED
      BY <1>3, <1>12, <2>3, <3>1
  <2>4. CASE i > k + 1
    <3>1. /\ i - 1 \in (k + 1)..(size + 1) /\ i \in (k + 1)..(size + 1)
          /\ i - 1 \in 0..size /\ i - 1 # k /\ (i - 1) + 1 = i
      BY <2>4
    <3>. QED
      BY <1>3, <1>12, <3>1
  <2>. QED
    BY <2>1, <2>2, <2>3, <2>4
<1>14. IsPath(size + 1, P)'
  <2>1. (size + 1) + 1 = size + 2 /\ size + 1 \in Nat
    OBVIOUS
  <2>. QED
    BY <1>2, <1>4, <1>5, <1>8, <1>9, <1>10, <1>13, <2>1 DEF IsPath
<1>15. OneRing'
  BY <1>14 DEF OneRing
<1>. QED
  BY <1>1, <1>2, <1>14, <1>15 DEF P

\* A node whose neighbours are joined leaves the path.
LEMMA UnlinkPath ==
  ASSUME Types, NEW size \in Nat, NEW path, IsPath(size, path), NEW k \in 1..size,
         Unlink(path[k], path[k - 1], path[k + 1])
  PROVE  Types' /\ OneRing' /\ Live' = Live \ {path[k]} /\ IsPath(size - 1, Removed(size, path, k))'
<1> DEFINE P == Removed(size, path, k)
<1>0. /\ \A a, b \in 1..size : path[a] = path[b] => a = b
      /\ path[k] \in Live
  BY DEF IsPath
<1>1. Types'
  BY DEF Types, Unlink
<1>2. Live' = Live \ {path[k]}
  BY <1>0 DEF Live, Types, Unlink
<1>3. /\ \A i \in 0..(k - 1) : P[i] = path[i]
      /\ \A i \in k..size : P[i] = path[i + 1]
  BY DEF Removed
<1>4. P \in [0..size -> Nodes \union {HeadNode}]
  BY DEF IsPath, Removed
<1> HIDE DEF P
<1>5. P[0] = HeadNode /\ P[size] = HeadNode
  <2>1. 0 \in 0..(k - 1) /\ size \in k..size
    OBVIOUS
  <2>. QED
    BY <1>3, <2>1 DEF IsPath
<1>6. \A i \in 1..(size - 1) :
        \/ i < k /\ P[i] = path[i]
        \/ i >= k /\ i + 1 \in 1..size /\ P[i] = path[i + 1]
  BY <1>3
<1>7. \A i \in 1..(size - 1) : P[i] \in Live \ {path[k]}
  <2> TAKE i \in 1..(size - 1)
  <2>1. PICK a \in 1..size : P[i] = path[a] /\ a # k
    BY <1>6
  <2>. QED
    BY <1>0, <2>1 DEF IsPath
<1>8. ASSUME NEW m \in Live \ {path[k]} PROVE \E i \in 1..(size - 1) : P[i] = m
  <2>1. PICK j \in 1..size : path[j] = m
    BY DEF IsPath
  <2>2. CASE j < k
    BY <1>3, <2>1, <2>2
  <2>3. CASE j > k
    <3>1. j - 1 \in k..size /\ j - 1 \in 1..(size - 1) /\ (j - 1) + 1 = j
      BY <2>3
    <3>. QED
      BY <1>3, <2>1, <3>1
  <2>. QED
    BY <2>1, <2>2, <2>3
<1>9. ASSUME NEW i \in 1..(size - 1), NEW j \in 1..(size - 1), P[i] = P[j] PROVE i = j
  <2>1. PICK a \in 1..size : P[i] = path[a] /\ a = IF i < k THEN i ELSE i + 1
    BY <1>6
  <2>2. PICK b \in 1..size : P[j] = path[b] /\ b = IF j < k THEN j ELSE j + 1
    BY <1>6
  <2>3. a = b
    BY <1>0, <1>9, <2>1, <2>2
  <2>. QED
    BY <2>1, <2>2, <2>3
<1>10. ASSUME NEW i \in 0..size
       PROVE  /\ i # k => path[i] # path[k]
              /\ i # k - 1 => path[i] # path[k - 1] /\ path[i + 1] # path[k]
              /\ i # k => path[i + 1] # path[k + 1]
              /\ path[k - 1] # path[k] /\ path[k + 1] # path[k]
  <2>1. /\ k \in 0..size /\ k \in 1..(size + 1) /\ k - 1 \in 0..size /\ k - 1 # k
        /\ i + 1 \in 1..(size + 1) /\ k + 1 \in 1..(size + 1) /\ k + 1 # k
        /\ (i # k => i + 1 # k + 1) /\ (i # k - 1 => i + 1 # k)
    OBVIOUS
  <2>2. \A a, b \in 0..size : path[a] = path[b] => a = b
    BY PathDistinct
  <2>3. \A a, b \in 1..(size + 1) : path[a] = path[b] => a = b
    BY PathDistinct
  <2>. QED
    BY <2>1, <2>2, <2>3
<1>11. /\ next'[path[k - 1]] = path[k + 1] /\ prev'[path[k + 1]] = path[k - 1]
       /\ \A i \in 0..size : i # k /\ i # k - 1 => /\ next'[path[i]] = path[i + 1]
                                                   /\ prev'[path[i + 1]] = path[i]
  <2>1. /\ \A i \in 0..size : path[i] \in DOMAIN next /\ path[i + 1] \in DOMAIN prev
        /\ k - 1 \in 0..size /\ k \in 0..size
    BY DEF IsPath, Types
  <2>2. \A i \in 0..size : next[path[i]] = path[i + 1] /\ prev[path[i + 1]] = path[i]
    BY DEF IsPath
  <2>. QED
    BY <1>10, <2>1, <2>2 DEF Unlink
<1>12. ASSUME NEW i \in 0..(size - 1)
       PROVE  next'[P[i]] = P[i + 1] /\ prev'[P[i + 1]] = P[i]
  <2>1. CASE i < k - 1
    <3>1. i \in 0..(k - 1) /\ i + 1 \in 0..(k - 1) /\ i \in 0..size /\ i # k /\ i # k - 1
      BY <2>1
    <3>. QED
      BY <1>3, <1>11, <3>1
  <2>2. CASE i = k - 1
    <3>1. i \in 0..(k - 1) /\ i + 1 \in k..size /\ i + 1 = k
      BY <2>2
    <3>. QED
      BY <1>3, <1>11, <2>2, <3>1
  <2>3. CASE i > k - 1
    <3>1. i \in k..size /\ i + 1 \in k..size /\ i + 1 \in 0..size /\ i + 1 # k /\ i + 1 # k - 1
      BY <2>3
    <3>. QED
      BY <1>3, <1>11, <3>1
  <2>. QED
    BY <2>1, <2>2, <2>3
<1>13. IsPath(size - 1, P)'
  <2>1. (size - 1) + 1 = size /\ size - 1 \in Nat
    OBVIOUS
  <2>. QED
    BY <1>2, <1>4, <1>5, <1>7, <1>8, <1>9, <1>12, <2>1 DEF IsPath
<1>14. size - 1 \in Nat
  OBVIOUS
<1>15. OneRing'
  BY <1>13, <1>14 DEF OneRing
<1>. QED
  BY <1>1, <1>2, <1>13, <1>15 DEF P

-----------------------------------------------------------------------------
\* The steps.

\* The invariant holds at the start.
LEMMA LinkInit == Init => LinkInv
<1> SUFFICES ASSUME Init PROVE LinkInv
  OBVIOUS
<1>1. Types /\ Live = {}
  BY HeadAssumption DEF Init, Types, Live
<1>2. IsPath(0, [i \in 0..1 |-> HeadNode])
  BY <1>1, HeadAssumption DEF Init, IsPath
<1>. QED
  BY <1>1, <1>2 DEF Init, LinkInv, OneRing, LoopPlace, AllFreed, Ring

\* A push, at either end of the path.
LEMMA PushStep ==
  ASSUME LinkInv, NEW n \in Nodes, NEW v \in Values, PushFront(n, v) \/ PushBack(n, v)
  PROVE  LinkInv'
<1>0. PICK size \in Nat : \E path : IsPath(size, path)
  BY DEF LinkInv, OneRing
<1>1. PICK path : IsPath(size, path)
  BY <1>0
<1>2. /\ path[0] = HeadNode /\ path[size + 1] = HeadNode
      /\ next[HeadNode] = path[1] /\ prev[HeadNode] = path[size]
  BY <1>1 DEF IsPath
<1>3. n \notin Live /\ data' = [data EXCEPT ![n] = v] /\ pc = "idle" /\ pc' = pc
      /\ iter' = iter /\ kind' = kind
  BY DEF PushFront, PushBack, New
<1>4. Types' /\ OneRing' /\ Live' = Live \union {n}
  <2>0. Types /\ 0 \in 0..size /\ size \in 0..size
    BY DEF LinkInv
  <2>1. CASE PushFront(n, v)
    <3>1. Insert(n, path[0], path[0 + 1])
      BY <1>2, <2>1 DEF PushFront
    <3>. QED
      BY <1>1, <1>3, <2>0, <3>1, InsertPath
  <2>2. CASE PushBack(n, v)
    <3>1. Insert(n, path[size], path[size + 1])
      BY <1>2, <2>2 DEF PushBack
    <3>. QED
      BY <1>1, <1>3, <2>0, <3>1, InsertPath
  <2>. QED
    BY <2>1, <2>2
<1>. QED
  BY <1>3, <1>4 DEF LinkInv, LoopPlace, AllFreed, Ring

\* A node is freed between the neighbours that its own pointers name.
LEMMA FreeStep ==
  ASSUME LinkInv, NEW n \in Live, Unlink(n, prev[n], next[n])
  PROVE  Types' /\ OneRing' /\ Live' = Live \ {n} /\ next[n] \in Ring'
         /\ (prev[n] = HeadNode => next'[HeadNode] = next[n])
<1>0. PICK size \in Nat : \E path : IsPath(size, path)
  BY DEF LinkInv, OneRing
<1>1. PICK path : IsPath(size, path)
  BY <1>0
<1>2. PICK k \in 1..size : path[k] = n
  BY <1>1 DEF IsPath
<1>3. next[n] = path[k + 1] /\ prev[n] = path[k - 1]
  <2>1. k \in 0..size /\ k - 1 \in 0..size /\ (k - 1) + 1 = k
    OBVIOUS
  <2>. QED
    BY <1>1, <1>2, <2>1 DEF IsPath
<1>4. Types' /\ OneRing' /\ Live' = Live \ {n}
  BY <1>1, <1>2, <1>3, UnlinkPath DEF LinkInv
<1>5. next[n] \in Ring /\ next[n] # n
  BY RingLinks DEF LinkInv, Ring
<1>6. next[n] \in Ring'
  BY <1>4, <1>5 DEF Ring
<1>7. n # HeadNode
  BY HeadAssumption DEF Live
<1>8. prev[n] = HeadNode => next'[HeadNode] = next[n]
  BY <1>7 DEF Unlink, LinkInv, Types
<1>. QED
  BY <1>4, <1>6, <1>8

\* Every action keeps the invariant.
LEMMA LinkStep == LinkInv /\ [Next]_vars => LinkInv'
<1> SUFFICES ASSUME LinkInv, [Next]_vars PROVE LinkInv'
  OBVIOUS
<1>0. /\ \A m \in Ring : next[m] \in Ring /\ prev[m] \in Ring
      /\ prev[next[HeadNode]] = HeadNode /\ next[prev[HeadNode]] = HeadNode
      /\ next[HeadNode] = HeadNode \/ prev[HeadNode] = HeadNode => Live = {}
      /\ HeadNode \in Ring
  BY RingLinks DEF LinkInv, Ring
<1>1. ASSUME UNCHANGED <<next, prev, data>>, (LoopPlace /\ AllFreed)'
      PROVE  LinkInv'
  BY <1>1 DEF LinkInv, Types, OneRing, IsPath, Live
<1>2. CASE UNCHANGED vars
  BY <1>2 DEF vars, LinkInv, Types, OneRing, IsPath, Live, LoopPlace, AllFreed, Ring
<1>3. ASSUME NEW n \in Nodes, NEW v \in Values, PushFront(n, v) \/ PushBack(n, v)
      PROVE  LinkInv'
  BY <1>3, PushStep
<1>4. CASE QueuePop
  <2>1. prev[HeadNode] \in Live /\ Unlink(prev[HeadNode], prev[prev[HeadNode]], next[prev[HeadNode]])
    BY <1>0, <1>4 DEF QueuePop, Ring
  <2>. QED
    BY <1>4, <2>1, FreeStep DEF QueuePop, LinkInv, LoopPlace, AllFreed, Ring
<1>5. CASE StackPop
  <2>1. next[HeadNode] \in Live /\ Unlink(next[HeadNode], prev[next[HeadNode]], next[next[HeadNode]])
    BY <1>0, <1>5 DEF StackPop, Ring
  <2>. QED
    BY <1>5, <2>1, FreeStep DEF StackPop, LinkInv, LoopPlace, AllFreed, Ring
<1>6. ASSUME NEW loop \in {"first", "all"}, NEW values \in SUBSET Values, RemoveStart(loop, values)
      PROVE  LinkInv'
  BY <1>0, <1>1, <1>6 DEF RemoveStart, LinkInv, LoopPlace, AllFreed, Ring, Live
<1>7. CASE LoopEnd
  BY <1>0, <1>1, <1>7 DEF LoopEnd, Leave, LinkInv, LoopPlace, AllFreed, Ring, Live
<1>8. CASE LoopKeep
  BY <1>0, <1>1, <1>8 DEF LoopKeep, LinkInv, LoopPlace, AllFreed, Ring, Live
<1>9. CASE LoopDelete
  <2>1. iter \in Live /\ Unlink(iter, prev[iter], next[iter])
    BY <1>9 DEF LoopDelete, LinkInv, LoopPlace, Ring
  <2>2. Types' /\ OneRing' /\ next[iter] \in Ring' /\ HeadNode \in Ring'
    BY <2>1, FreeStep DEF Ring
  <2>3. LoopPlace' /\ AllFreed'
    BY <1>9, <2>2 DEF LoopDelete, Leave, LinkInv, LoopPlace, AllFreed
  <2>. QED
    BY <2>2, <2>3 DEF LinkInv
<1>10. CASE Destruct
  BY <1>0, <1>1, <1>10 DEF Destruct, LinkInv, LoopPlace, AllFreed, Ring, Live
<1>11. CASE DestructNode
  <2>1. /\ iter \in Live /\ Unlink(iter, prev[iter], next[iter])
        /\ prev[iter] = HeadNode /\ pc = "destroy" /\ pc' = pc /\ kind' = kind /\ iter' = next[iter]
    BY <1>0, <1>11 DEF DestructNode, LinkInv, LoopPlace, Ring
  <2>2. Types' /\ OneRing' /\ next[iter] \in Ring' /\ next'[HeadNode] = next[iter]
    BY <2>1, FreeStep
  <2>3. LoopPlace' /\ AllFreed'
    BY <1>11, <2>1, <2>2 DEF DestructNode, LoopPlace, AllFreed
  <2>. QED
    BY <2>2, <2>3 DEF LinkInv
<1>12. CASE DestructEnd
  <2>1. Live = {}
    BY <1>0, <1>12 DEF DestructEnd, LinkInv, LoopPlace
  <2>. QED
    BY <1>0, <1>1, <1>12, <2>1 DEF DestructEnd, LinkInv, LoopPlace, AllFreed, Ring, Live
<1>. QED
  BY <1>2, <1>3, <1>4, <1>5, <1>6, <1>7, <1>8, <1>9, <1>10, <1>11, <1>12 DEF Next

\* RingsLinked: the containers keep the two pointers of every node inverse and
\* inside the ring, and no loop stands on a freed node (instwlinklist.h, queue.h,
\* stack.h), whatever the memory returns.
THEOREM RingsLinked == Spec => []Linked
<1>1. LinkInv => Linked
  BY RingLinks DEF LinkInv, Linked, Types, LoopPlace
<1>. QED
  BY <1>1, LinkInit, LinkStep, PTL DEF Spec

\* NodesFreed: the destructors free every node (instwlinklist.h:24-33, and Pop until
\* it fails in queue.h and stack.h).
THEOREM NodesFreed == Spec => []AllFreed
<1>1. LinkInv => AllFreed
  BY DEF LinkInv
<1>. QED
  BY <1>1, LinkInit, LinkStep, PTL DEF Spec

-----------------------------------------------------------------------------
\* What the containers hold.

\* The order of the numbers.
Before == {pair \in Nat \X Nat : pair[1] < pair[2]}

\* Induction, for sets of numbers.
LEMMA Induction ==
  ASSUME NEW S \in SUBSET Nat, 0 \in S, \A n \in S : n + 1 \in S
  PROVE  S = Nat
<1>1. Before = OpToRel(<, Nat)
  BY DEF OpToRel, Before
<1>2. IsWellFoundedOn(Before, Nat)
  BY NatLessThanWellFounded, <1>1
<1>3. SUFFICES ASSUME S # Nat PROVE FALSE
  OBVIOUS
<1>4. Nat \ S # {} /\ Nat \ S \subseteq Nat
  BY <1>3
<1>5. PICK x \in Nat \ S : \A y \in Nat \ S : ~(<<y, x>> \in Before)
  BY <1>2, <1>4, WFMin
<1>6. \A y \in Nat \ S : ~(y < x)
  BY <1>5 DEF Before
<1>7. x # 0 /\ x - 1 \in Nat /\ x - 1 < x
  BY <1>5
<1>8. x - 1 + 1 \in S
  BY <1>6, <1>7
<1>. QED
  BY <1>5, <1>7, <1>8

\* What the walk of Ergodic has visited after i steps.
Walk(g) ==
  [i \in Nat |->
     IF i = 0 THEN <<>>
     ELSE LET before == g[i - 1]
              x == next[IF before = <<>> THEN HeadNode ELSE Last(before)]
          IN  IF x \in Live THEN Append(before, x) ELSE before]

\* Its first m nodes.
First(path, m) == [j \in 1..m |-> path[j]]

UpTo(size, i) == IF i <= size THEN i ELSE size

\* A step of the walk adds the next node of the path, or none if it has them all.
LEMMA WalkStep ==
  ASSUME NEW size \in Nat, NEW path, IsPath(size, path),
         NEW g, NEW i \in Nat, g[i] = First(path, UpTo(size, i))
  PROVE  Walk(g)[i + 1] = First(path, UpTo(size, i + 1))
<1>1. PICK m \in 0..size : m = UpTo(size, i)
  BY DEF UpTo
<1>2. PICK before : before = g[i]
  OBVIOUS
<1>3. before = First(path, m)
  BY <1>1, <1>2
<1>4. before \in Seq(Nodes \union {HeadNode}) /\ Len(before) = m
  <2>1. \A j \in 1..m : path[j] \in Nodes \union {HeadNode}
    BY DEF IsPath
  <2>. QED
    BY <1>1, <1>3, <2>1 DEF First
<1>5. (IF before = <<>> THEN HeadNode ELSE Last(before)) = path[m]
  <2>1. CASE m = 0
    BY <1>4, <2>1 DEF IsPath
  <2>2. CASE m # 0
    BY <1>3, <1>4, <2>2 DEF First, Last
  <2>. QED
    BY <2>1, <2>2
<1>6. next[path[m]] = path[m + 1]
  BY <1>1 DEF IsPath
<1>7. Walk(g)[i + 1] = IF path[m + 1] \in Live THEN Append(before, path[m + 1]) ELSE before
  <2>1. i + 1 \in Nat /\ i + 1 # 0 /\ (i + 1) - 1 = i
    OBVIOUS
  <2>. QED
    BY <1>2, <1>5, <1>6, <2>1 DEF Walk
<1>8. CASE m < size
  <2>1. path[m + 1] \in Live /\ UpTo(size, i + 1) = m + 1
    BY <1>1, <1>8 DEF IsPath, UpTo
  <2>2. Append(before, path[m + 1]) = [j \in 1..m + 1 |-> IF j <= m THEN before[j] ELSE path[m + 1]]
    BY <1>1, <1>4
  <2>3. Append(before, path[m + 1]) = First(path, m + 1)
    BY <1>1, <1>3, <2>2 DEF First
  <2>. QED
    BY <1>7, <2>1, <2>3
<1>9. CASE m = size
  <2>1. path[m + 1] \notin Live /\ UpTo(size, i + 1) = m
    BY <1>1, <1>9, HeadAssumption DEF IsPath, UpTo, Live
  <2>. QED
    BY <1>3, <1>7, <2>1
<1>. QED
  BY <1>1, <1>8, <1>9

\* A path has all the nodes.
LEMMA PathCounts ==
  ASSUME NEW size \in Nat, NEW path, IsPath(size, path)
  PROVE  Cardinality(Live) = size
<1>. DEFINE f == [i \in 1..size |-> path[i]]
<1>1. f \in Bijection(1..size, Live)
  BY DEF IsPath, Bijection, Injection, Surjection, IsInjective
<1>2. ExistsBijection(1..size, Live)
  BY <1>1 DEF ExistsBijection
<1>3. IsFiniteSet(1..size) /\ Cardinality(1..size) = size
  BY FS_Interval
<1>. QED
  BY <1>2, <1>3, FS_Bijection

\* The walk visits the path.
LEMMA PathIs ==
  ASSUME NEW size \in Nat, NEW path, IsPath(size, path)
  PROVE  Path = First(path, size)
<1>1. PICK g : g = (CHOOSE h : h = Walk(h)) /\ Path = g[Cardinality(Live)]
  BY DEF Path, Walk
<1>. DEFINE W == [i \in Nat |-> First(path, UpTo(size, i))]
<1>2. \A h : Walk(h)[0] = <<>> /\ Walk(h) = [i \in Nat |-> Walk(h)[i]]
  BY DEF Walk
<1>3. UpTo(size, 0) = 0 /\ First(path, 0) = <<>>
  BY DEF UpTo, First
<1>4. W = Walk(W)
  <2>. HIDE DEF W
  <2>1. W = [i \in Nat |-> First(path, UpTo(size, i))]
    BY DEF W
  <2>2. ASSUME NEW i \in Nat
        PROVE  Walk(W)[i] = First(path, UpTo(size, i))
    <3>1. CASE i = 0
      BY <1>2, <1>3, <3>1
    <3>2. CASE i # 0
      <4>1. i - 1 \in Nat /\ (i - 1) + 1 = i
        BY <3>2
      <4>2. W[i - 1] = First(path, UpTo(size, i - 1))
        BY <2>1, <4>1
      <4>3. Walk(W)[(i - 1) + 1] = First(path, UpTo(size, (i - 1) + 1))
        BY <4>1, <4>2, WalkStep
      <4>. QED
        BY <4>1, <4>3
    <3>. QED
      BY <3>1, <3>2
  <2>. QED
    BY <1>2, <2>1, <2>2
<1>5. g = Walk(g)
  <2>. HIDE DEF W
  <2>. QED
    BY <1>1, <1>4
<1>. DEFINE S == {i \in Nat : g[i] = First(path, UpTo(size, i))}
<1>6. 0 \in S
  BY <1>2, <1>3, <1>5
<1>7. ASSUME NEW i \in S
      PROVE  i + 1 \in S
  <2>1. Walk(g)[i + 1] = First(path, UpTo(size, i + 1))
    BY WalkStep
  <2>. QED
    BY <1>5, <2>1
<1>8. S = Nat
  <2>. HIDE DEF S
  <2>1. S \in SUBSET Nat
    BY DEF S
  <2>. QED
    BY <1>6, <1>7, <2>1, Induction
<1>9. g[size] = First(path, UpTo(size, size)) /\ UpTo(size, size) = size
  BY <1>8 DEF UpTo
<1>. QED
  BY <1>1, <1>9, PathCounts

\* The value that a container hands out as its i-th is that of this node.
At(size, path, i) == path[IF kind = "queue" THEN size + 1 - i ELSE i]

\* The contents are the values along the path, those of a queue from its other end.
Listed ==
  \A size \in Nat : \A path :
    IsPath(size, path) => Contents = [i \in 1..size |-> data[At(size, path, i)]]

\* It is so in every state.
LEMMA ListedNow == Listed
<1>. SUFFICES ASSUME NEW size \in Nat, NEW path, IsPath(size, path)
              PROVE  Contents = [i \in 1..size |-> data[At(size, path, i)]]
  BY DEF Listed
<1>. DEFINE values == [i \in DOMAIN Path |-> data[Path[i]]]
<1>1. DOMAIN Path = 1..size /\ \A i \in 1..size : Path[i] = path[i]
  BY PathIs DEF First
<1>2. values = [i \in 1..size |-> data[path[i]]]
  BY <1>1
<1>3. Contents = IF kind = "queue" THEN Reverse(values) ELSE values
  BY DEF Contents
<1>. HIDE DEF values
<1>4. Len(values) = size
  BY <1>2
<1>5. Reverse(values) = [i \in 1..size |-> data[path[size + 1 - i]]]
  <2>1. Reverse(values) = [i \in 1..size |-> values[(size - i) + 1]]
    BY <1>4 DEF Reverse
  <2>2. \A i \in 1..size : (size - i) + 1 \in 1..size /\ (size - i) + 1 = size + 1 - i
    OBVIOUS
  <2>. QED
    BY <1>2, <2>1, <2>2
<1>. QED
  BY <1>2, <1>3, <1>5 DEF At

\* So it is in the next one.
LEMMA ListedNext == Listed'
  BY ListedNow, PTL

\* A container without its q-th value.
Without(s, size, q) == [i \in 1..size - 1 |-> IF i < q THEN s[i] ELSE s[i + 1]]

\* The contents are values, as many as there are nodes.
LEMMA ContentsType ==
  ASSUME Types, kind \in {"queue", "stack", "list"},
         NEW size \in Nat, NEW path, IsPath(size, path)
  PROVE  /\ Contents \in Seq(Values) /\ Len(Contents) = size
         /\ \A i \in 1..size : Contents[i] = data[At(size, path, i)]
<1>1. Contents = [i \in 1..size |-> data[At(size, path, i)]]
  BY ListedNow DEF Listed
<1>2. ASSUME NEW i \in 1..size
      PROVE  data[At(size, path, i)] \in Values
  <2>1. size + 1 - i \in 1..size
    OBVIOUS
  <2>2. At(size, path, i) \in Live
    BY <2>1 DEF IsPath, At
  <2>. QED
    BY <2>2 DEF Live, Types
<1>. QED
  BY <1>1, <1>2

\* A node that is freed takes its value along.
LEMMA FreeContents ==
  ASSUME Types, kind \in {"queue", "stack", "list"}, kind' = kind,
         NEW size \in Nat, NEW path, IsPath(size, path), NEW k \in 1..size,
         NEW q \in 1..size, q = IF kind = "queue" THEN size + 1 - k ELSE k,
         Unlink(path[k], path[k - 1], path[k + 1])
  PROVE  /\ IsPath(size - 1, Removed(size, path, k))'
         /\ Contents' = Without(Contents, size, q)
<1>1. IsPath(size - 1, Removed(size, path, k))'
  BY UnlinkPath
<1>2. PICK P : P = Removed(size, path, k)
  OBVIOUS
<1>3. size - 1 \in Nat /\ \A i \in 0..size : P[i] = IF i < k THEN path[i] ELSE path[i + 1]
  BY <1>2 DEF Removed
<1>4. Contents' = [i \in 1..size - 1 |-> data'[At(size - 1, P, i)']]
  BY <1>1, <1>2, <1>3, ListedNext DEF Listed
<1>5. \A i \in 1..size : Contents[i] = data[At(size, path, i)]
  BY ContentsType
<1>6. \A i \in 1..size : path[i] \in Live /\ (i # k => path[i] # path[k])
  BY DEF IsPath
<1>7. \A i \in 1..size : i # k => data'[path[i]] = data[path[i]]
  BY <1>6 DEF Unlink, Types, Live
<1>8. ASSUME NEW i \in 1..size - 1
      PROVE  data'[At(size - 1, P, i)'] = IF i < q THEN Contents[i] ELSE Contents[i + 1]
  <2>1. CASE kind = "queue"
    <3>1. At(size - 1, P, i)' = P[size - i]
      <4>1. (size - 1) + 1 - i = size - i
        OBVIOUS
      <4>. QED
        BY <2>1, <4>1 DEF At
    <3>2. size - i \in 1..size /\ size - i + 1 \in 1..size /\ size - i \in 0..size /\ i + 1 \in 1..size
      OBVIOUS
    <3>3. P[size - i] = IF i < q THEN path[size - i + 1] ELSE path[size - i]
      BY <1>3, <2>1, <3>2
    <3>4. Contents[i] = data[path[size - i + 1]] /\ Contents[i + 1] = data[path[size - i]]
      <4>1. size + 1 - i = size - i + 1 /\ size + 1 - (i + 1) = size - i /\ i \in 1..size
        OBVIOUS
      <4>2. Contents[i] = data[path[size + 1 - i]] /\ Contents[i + 1] = data[path[size + 1 - (i + 1)]]
        BY <1>5, <2>1, <3>2, <4>1 DEF At
      <4>. QED
        BY <4>1, <4>2
    <3>5. IF i < q THEN size - i + 1 # k ELSE size - i # k
      BY <2>1
    <3>. QED
      BY <1>7, <3>1, <3>2, <3>3, <3>4, <3>5
  <2>2. CASE kind # "queue"
    <3>1. At(size - 1, P, i)' = P[i]
      BY <2>2 DEF At
    <3>2. i \in 1..size /\ i + 1 \in 1..size /\ i \in 0..size
      OBVIOUS
    <3>3. P[i] = IF i < q THEN path[i] ELSE path[i + 1]
      BY <1>3, <2>2, <3>2
    <3>4. Contents[i] = data[path[i]] /\ Contents[i + 1] = data[path[i + 1]]
      BY <1>5, <2>2, <3>2 DEF At
    <3>5. IF i < q THEN i # k ELSE i + 1 # k
      BY <2>2
    <3>. QED
      BY <1>7, <3>1, <3>2, <3>3, <3>4, <3>5
  <2>. QED
    BY <2>1, <2>2
<1>. QED
  BY <1>1, <1>4, <1>8 DEF Without

\* To take the first value is to go on without it.
LEMMA TailWithout ==
  ASSUME NEW s \in Seq(Values), Len(s) # 0
  PROVE  Tail(s) = Without(s, Len(s), 1)
<1>1. Tail(s) \in Seq(Values) /\ Len(Tail(s)) = Len(s) - 1
  OBVIOUS
<1>2. \A i \in 1..Len(s) - 1 : Tail(s)[i] = s[i + 1] /\ s[i + 1] \in Values
  OBVIOUS
<1>3. Without(s, Len(s), 1) \in Seq(Values) /\ Len(Without(s, Len(s), 1)) = Len(s) - 1
  <2>1. Without(s, Len(s), 1) = [i \in 1..Len(s) - 1 |-> s[i + 1]]
    BY DEF Without
  <2>. QED
    BY <1>2, <2>1
<1>4. \A i \in 1..Len(s) - 1 : Without(s, Len(s), 1)[i] = s[i + 1]
  BY DEF Without
<1>. QED
  BY <1>1, <1>2, <1>3, <1>4, SeqEqual

\* To remove the first match is to go on without it.
LEMMA MatchWithout ==
  ASSUME NEW s \in Seq(Values), NEW M, NEW k \in 1..Len(s), s[k] \in M,
         \A i \in 1..k - 1 : s[i] \notin M
  PROVE  RemoveFirstMatch(s, LAMBDA v : v \in M) = Without(s, Len(s), k)
<1>. DEFINE I == {i \in 1..Len(s) : s[i] \in M}
<1>1. I # {} /\ Min(I) = k
  <2>1. k \in I /\ \A i \in I : k <= i
    OBVIOUS
  <2>2. \A x \in I : (\A i \in I : x <= i) => x = k
    BY <2>1
  <2>. QED
    BY <2>1, <2>2 DEF Min
<1>2. RemoveFirstMatch(s, LAMBDA v : v \in M) = RemoveAt(s, k)
  <2>. HIDE DEF I
  <2>1. SelectInSeq(s, LAMBDA v : v \in M) = k
    BY <1>1 DEF SelectInSeq, I
  <2>. QED
    BY <2>1 DEF RemoveFirstMatch
<1>3. PICK a, b : a = SubSeq(s, 1, k - 1) /\ b = SubSeq(s, k + 1, Len(s))
  OBVIOUS
<1>4. /\ a \in Seq(Values) /\ Len(a) = k - 1 /\ \A i \in 1..k - 1 : a[i] = s[i]
      /\ b \in Seq(Values) /\ Len(b) = Len(s) - k /\ \A i \in 1..Len(s) - k : b[i] = s[k + i]
  BY <1>3
<1>5. ASSUME NEW i \in 1..Len(s) - 1
      PROVE  (a \o b)[i] = Without(s, Len(s), k)[i] /\ Without(s, Len(s), k)[i] \in Values
  <2>1. CASE i < k
    <3>1. (a \o b)[i] = a[i]
      BY <1>4, <2>1
    <3>. QED
      BY <1>4, <2>1, <3>1 DEF Without
  <2>2. CASE ~(i < k)
    <3>1. i - (k - 1) \in 1..Len(s) - k /\ k + (i - (k - 1)) = i + 1
      BY <2>2
    <3>2. (a \o b)[i] = b[i - (k - 1)]
      BY <1>4, <2>2, <3>1
    <3>. QED
      BY <1>4, <2>2, <3>1, <3>2 DEF Without
  <2>. QED
    BY <2>1, <2>2
<1>6. a \o b \in Seq(Values) /\ Len(a \o b) = Len(s) - 1
  BY <1>4
<1>7. Without(s, Len(s), k) \in Seq(Values) /\ Len(Without(s, Len(s), k)) = Len(s) - 1
  <2>1. Without(s, Len(s), k) \in [1..Len(s) - 1 -> Values]
    BY <1>5 DEF Without
  <2>. QED
    BY <2>1
<1>8. a \o b = Without(s, Len(s), k)
  BY <1>5, <1>6, <1>7, SeqEqual
<1>. QED
  BY <1>2, <1>3, <1>8 DEF RemoveAt

\* A value at either end makes the contents longer.
LEMMA Longer ==
  ASSUME NEW s \in Seq(Values), NEW v \in Values, NEW size \in Nat, Len(s) = size
  PROVE  /\ Append(s, v) = [i \in 1..size + 1 |-> IF i <= size THEN s[i] ELSE v]
         /\ <<v>> \o s = [i \in 1..size + 1 |-> IF i = 1 THEN v ELSE s[i - 1]]
<1>1. PICK a : a = [i \in 1..size + 1 |-> IF i <= size THEN s[i] ELSE v]
  OBVIOUS
<1>2. PICK b : b = [i \in 1..size + 1 |-> IF i = 1 THEN v ELSE s[i - 1]]
  OBVIOUS
<1>3. \A i \in 1..size + 1 : i # 1 => i - 1 \in 1..size /\ s[i - 1] \in Values
  <2>1. \A i \in 1..size + 1 : i # 1 => i - 1 \in 1..size
    OBVIOUS
  <2>2. \A i \in 1..size : s[i] \in Values
    OBVIOUS
  <2>. QED
    BY <2>1, <2>2
<1>4. a \in Seq(Values) /\ Len(a) = size + 1 /\ b \in Seq(Values) /\ Len(b) = size + 1
  <2>1. a \in [1..size + 1 -> Values] /\ b \in [1..size + 1 -> Values]
    BY <1>1, <1>2, <1>3
  <2>. QED
    BY <2>1
<1>5. /\ Append(s, v) \in Seq(Values) /\ Len(Append(s, v)) = size + 1
      /\ \A i \in 1..size + 1 : Append(s, v)[i] = a[i]
  BY <1>1
<1>6. /\ <<v>> \in Seq(Values) /\ Len(<<v>>) = 1 /\ <<v>>[1] = v
      /\ <<v>> \o s \in Seq(Values) /\ Len(<<v>> \o s) = size + 1
  OBVIOUS
<1>7. \A i \in 1..size + 1 : (<<v>> \o s)[i] = b[i]
  BY <1>2, <1>6
<1>8. Append(s, v) = a
  BY <1>4, <1>5, SeqEqual
<1>9. <<v>> \o s = b
  BY <1>4, <1>6, <1>7, SeqEqual
<1>. QED
  BY <1>1, <1>2, <1>8, <1>9

-----------------------------------------------------------------------------
\* The refinement.

\* Remove has passed no node that it should have deleted.
Passed ==
  pc \in {"first", "all"} =>
    \E size \in Nat : \E path : \E k \in 1..size + 1 :
      /\ IsPath(size, path) /\ iter = path[k]
      /\ \A i \in 1..k - 1 : data[path[i]] \notin match

ListInv == LinkInv /\ kind \in {"queue", "stack", "list"} /\ Passed

\* A push is the one that the class promises.
LEMMA PushRefines ==
  ASSUME ListInv, NEW n \in Nodes, NEW v \in Values, PushFront(n, v) \/ PushBack(n, v)
  PROVE  C!Next /\ Passed'
<1>1. PICK size \in Nat : \E path : IsPath(size, path)
  BY DEF ListInv, LinkInv, OneRing
<1>2. PICK path : IsPath(size, path)
  BY <1>1
<1>3. /\ path[0] = HeadNode /\ path[size + 1] = HeadNode
      /\ next[HeadNode] = path[1] /\ prev[HeadNode] = path[size]
  BY <1>2 DEF IsPath
<1>4. /\ n \notin Live /\ data' = [data EXCEPT ![n] = v] /\ pc = "idle" /\ pc' = pc
      /\ match' = match /\ kind' = kind /\ Types /\ kind \in {"queue", "stack", "list"}
  BY DEF PushFront, PushBack, New, ListInv, LinkInv
<1>13. Passed'
  BY <1>4 DEF Passed
<1>5. PICK s : s = Contents
  OBVIOUS
<1>6. s \in Seq(Values) /\ Len(s) = size /\ \A i \in 1..size : s[i] = data[At(size, path, i)]
  BY <1>2, <1>4, <1>5, ContentsType
<1>7. PICK t : t = Contents'
  OBVIOUS
<1>8. \A i \in 1..size : data'[path[i]] = data[path[i]]
  BY <1>2, <1>4 DEF IsPath, Live, Types
<1>9. data'[n] = v
  BY <1>4 DEF Types
<1>10. ASSUME NEW k \in 0..size, Insert(n, path[k], path[k + 1])
       PROVE  t = [i \in 1..size + 1 |->
                     data'[Inserted(size, path, k, n)[IF kind = "queue" THEN size + 2 - i ELSE i]]]
  <2>1. IsPath(size + 1, Inserted(size, path, k, n))'
    BY <1>2, <1>4, <1>10, InsertPath
  <2>2. PICK P : P = Inserted(size, path, k, n)
    OBVIOUS
  <2>3. size + 1 \in Nat /\ IsPath(size + 1, P)'
    BY <2>1, <2>2
  <2>4. Contents' = [i \in 1..size + 1 |-> data'[At(size + 1, P, i)']]
    BY <2>3, ListedNext DEF Listed
  <2>5. \A i \in 1..size + 1 : At(size + 1, P, i)' = P[IF kind = "queue" THEN size + 2 - i ELSE i]
    <3>1. \A i \in 1..size + 1 : (size + 1) + 1 - i = size + 2 - i
      OBVIOUS
    <3>. QED
      BY <1>4, <3>1 DEF At
  <2>. QED
    BY <1>7, <2>2, <2>4, <2>5
<1>11. CASE PushFront(n, v)
  <2>1. Insert(n, path[0], path[0 + 1]) /\ 0 \in 0..size
    BY <1>3, <1>11 DEF PushFront
  <2>2. PICK P : P = Inserted(size, path, 0, n)
    OBVIOUS
  <2>3. P[1] = n /\ \A i \in 1..size : P[i + 1] = path[i]
    BY <2>2 DEF Inserted
  <2>4. t = [i \in 1..size + 1 |-> data'[P[IF kind = "queue" THEN size + 2 - i ELSE i]]]
    BY <1>10, <2>1, <2>2
  <2>5. CASE kind = "queue"
    <3>1. ASSUME NEW i \in 1..size
          PROVE  t[i] = s[i]
      <4>1. size + 1 - i \in 1..size /\ size + 2 - i = (size + 1 - i) + 1 /\ i \in 1..size + 1
        OBVIOUS
      <4>2. t[i] = data[path[size + 1 - i]]
        BY <1>8, <2>3, <2>4, <2>5, <4>1
      <4>. QED
        BY <1>6, <2>5, <4>2 DEF At
    <3>2. t[size + 1] = v
      <4>1. size + 2 - (size + 1) = 1 /\ size + 1 \in 1..size + 1
        OBVIOUS
      <4>. QED
        BY <1>9, <2>3, <2>4, <2>5, <4>1
    <3>3. t = Append(s, v)
      <4>1. \A i \in 1..size + 1 : t[i] = IF i <= size THEN s[i] ELSE v
        BY <3>1, <3>2
      <4>2. t = [i \in 1..size + 1 |-> IF i <= size THEN s[i] ELSE v]
        BY <2>4, <4>1
      <4>. QED
        BY <1>6, <4>2, Longer
    <3>4. C!Enqueue(v)
      BY <1>4, <1>5, <1>7, <2>5, <3>3 DEF C!Enqueue
    <3>. QED
      BY <1>4, <1>13, <3>4 DEF C!Next
  <2>6. CASE kind # "queue"
    <3>1. ASSUME NEW i \in 1..size
          PROVE  t[i + 1] = s[i]
      <4>1. i + 1 \in 1..size + 1
        OBVIOUS
      <4>2. t[i + 1] = data[path[i]]
        BY <1>8, <2>3, <2>4, <2>6, <4>1
      <4>. QED
        BY <1>6, <2>6, <4>2 DEF At
    <3>2. t[1] = v
      BY <1>9, <2>3, <2>4, <2>6
    <3>3. t = <<v>> \o s
      <4>1. \A i \in 1..size + 1 : t[i] = IF i = 1 THEN v ELSE s[i - 1]
        <5> TAKE i \in 1..size + 1
        <5>1. CASE i = 1
          BY <3>2, <5>1
        <5>2. CASE i # 1
          <6>1. PICK j \in 1..size : j = i - 1 /\ i = j + 1
            BY <5>2
          <6>. QED
            BY <3>1, <5>2, <6>1
        <5>. QED
          BY <5>1, <5>2
      <4>2. t = [i \in 1..size + 1 |-> IF i = 1 THEN v ELSE s[i - 1]]
        BY <2>4, <4>1
      <4>. QED
        BY <1>6, <4>2, Longer
    <3>4. C!Push(v)
      BY <1>4, <1>5, <1>7, <2>6, <3>3 DEF C!Push
    <3>. QED
      BY <1>4, <1>13, <3>4 DEF C!Next
  <2>. QED
    BY <2>5, <2>6
<1>12. CASE PushBack(n, v)
  <2>1. Insert(n, path[size], path[size + 1]) /\ size \in 0..size /\ kind = "list"
    BY <1>3, <1>12 DEF PushBack
  <2>2. PICK P : P = Inserted(size, path, size, n)
    OBVIOUS
  <2>3. P[size + 1] = n /\ \A i \in 1..size : P[i] = path[i]
    BY <2>2 DEF Inserted
  <2>4. t = [i \in 1..size + 1 |-> data'[P[i]]]
    BY <1>10, <2>1, <2>2
  <2>5. ASSUME NEW i \in 1..size
        PROVE  t[i] = s[i]
    BY <1>6, <1>8, <2>1, <2>3, <2>4 DEF At
  <2>6. t[size + 1] = v
    BY <1>9, <2>3, <2>4
  <2>7. t = Append(s, v)
    <3>1. t = [i \in 1..size + 1 |-> IF i <= size THEN s[i] ELSE v]
      BY <2>4, <2>5, <2>6
    <3>. QED
      BY <1>6, <3>1, Longer
  <2>8. C!Enqueue(v)
    BY <1>4, <1>5, <1>7, <2>1, <2>7 DEF C!Enqueue
  <2>. QED
    BY <1>4, <1>13, <2>8 DEF C!Next
<1>. QED
  BY <1>11, <1>12

\* A node freed at either end of the path is the first value of the class.
LEMMA TakeRefines ==
  ASSUME ListInv, kind' = kind, NEW n \in Live,
         n = IF kind = "queue" THEN prev[HeadNode] ELSE next[HeadNode],
         Unlink(n, prev[n], next[n])
  PROVE  Contents # <<>> /\ Contents' = Tail(Contents)
<1>1. PICK size \in Nat : \E path : IsPath(size, path)
  BY DEF ListInv, LinkInv, OneRing
<1>2. PICK path : IsPath(size, path)
  BY <1>1
<1>3. next[HeadNode] = path[1] /\ prev[HeadNode] = path[size] /\ path[0] = HeadNode
  BY <1>2 DEF IsPath
<1>4. Types /\ kind \in {"queue", "stack", "list"}
  BY DEF ListInv, LinkInv
<1>5. size # 0
  BY <1>2 DEF IsPath
<1>6. PICK k \in 1..size : path[k] = n /\ 1 = IF kind = "queue" THEN size + 1 - k ELSE k
  <2>1. CASE kind = "queue"
    BY <1>3, <1>5, <2>1
  <2>2. CASE kind # "queue"
    BY <1>3, <1>5, <2>2
  <2>. QED
    BY <2>1, <2>2
<1>7. next[n] = path[k + 1] /\ prev[n] = path[k - 1]
  <2>1. k \in 0..size /\ k - 1 \in 0..size /\ (k - 1) + 1 = k
    OBVIOUS
  <2>2. prev[path[(k - 1) + 1]] = path[k - 1] /\ next[path[k]] = path[k + 1]
    BY <1>2, <2>1 DEF IsPath
  <2>. QED
    BY <1>6, <2>1, <2>2
<1>8. Contents' = Without(Contents, size, 1)
  BY <1>2, <1>4, <1>5, <1>6, <1>7, FreeContents
<1>9. Contents \in Seq(Values) /\ Len(Contents) = size
  BY <1>2, <1>4, ContentsType
<1>. QED
  BY <1>5, <1>8, <1>9, TailWithout

\* Every action keeps Passed and is a step of the promise or none.
LEMMA ListRefines ==
  ASSUME ListInv, [Next]_vars
  PROVE  [C!Next]_(C!vars) /\ kind' \in {"queue", "stack", "list"} /\ Passed'
<1>1. /\ Types /\ kind \in {"queue", "stack", "list"} /\ LinkInv /\ HeadNode \notin Live
      /\ next[HeadNode] \in Ring /\ prev[HeadNode] \in Ring
      /\ prev[next[HeadNode]] = HeadNode /\ next[prev[HeadNode]] = HeadNode
      /\ (next[HeadNode] = HeadNode \/ prev[HeadNode] = HeadNode => Live = {})
  BY RingLinks, HeadAssumption DEF ListInv, LinkInv, Ring, Live
<1>2. ASSUME UNCHANGED <<kind, next, prev, data>>
      PROVE  /\ Contents' = Contents /\ kind' \in {"queue", "stack", "list"}
             /\ \A size \in Nat : \A path : IsPath(size, path) => IsPath(size, path)'
             /\ \E size \in Nat : \E path : IsPath(size, path)
  <2>1. \A size \in Nat : \A path : IsPath(size, path) => IsPath(size, path)'
    BY <1>2 DEF IsPath, Live
  <2>2. PICK size \in Nat : \E path : IsPath(size, path)
    BY <1>1 DEF LinkInv, OneRing
  <2>3. PICK path : IsPath(size, path)
    BY <2>2
  <2>4. Contents = [i \in 1..size |-> data[At(size, path, i)]]
    BY <2>3, ListedNow DEF Listed
  <2>5. Contents' = [i \in 1..size |-> data'[At(size, path, i)']]
    BY <2>1, <2>3, ListedNext DEF Listed
  <2>6. Contents' = Contents
    BY <1>2, <2>4, <2>5 DEF At
  <2>. QED
    BY <1>1, <1>2, <2>1, <2>2, <2>6
<1>3. CASE UNCHANGED vars
  <2>1. UNCHANGED <<kind, next, prev, data>> /\ pc' = pc /\ iter' = iter /\ match' = match
    BY <1>3 DEF vars
  <2>2. Passed'
    <3>1. pc \in {"first", "all"} =>
            \E size \in Nat : \E path : \E k \in 1..size + 1 :
              /\ IsPath(size, path) /\ iter = path[k]
              /\ \A i \in 1..k - 1 : data[path[i]] \notin match
      BY DEF ListInv, Passed
    <3>. QED
      BY <1>2, <2>1, <3>1 DEF Passed
  <2>. QED
    BY <1>2, <2>1, <2>2 DEF C!vars
<1>4. ASSUME NEW n \in Nodes, NEW v \in Values, PushFront(n, v) \/ PushBack(n, v)
      PROVE  [C!Next]_(C!vars) /\ kind' \in {"queue", "stack", "list"} /\ Passed'
  <2>1. kind' = kind
    BY <1>4 DEF PushFront, PushBack, New
  <2>. QED
    BY <1>1, <1>4, <2>1, PushRefines
<1>5. CASE QueuePop
  <2>1. /\ prev[HeadNode] \in Live /\ kind = "queue" /\ UNCHANGED <<kind, pc, match>>
        /\ pc \in {"idle", "destroy"}
        /\ Unlink(prev[HeadNode], prev[prev[HeadNode]], next[prev[HeadNode]])
    BY <1>1, <1>5 DEF QueuePop, Ring
  <2>2. Contents # <<>> /\ Contents' = Tail(Contents)
    BY <2>1, TakeRefines
  <2>3. C!TakeFirst
    BY <2>1, <2>2 DEF C!TakeFirst
  <2>. QED
    BY <1>1, <2>1, <2>3 DEF C!Next, Passed
<1>6. CASE StackPop
  <2>1. /\ next[HeadNode] \in Live /\ kind = "stack" /\ UNCHANGED <<kind, pc, match>>
        /\ pc \in {"idle", "destroy"}
        /\ Unlink(next[HeadNode], prev[next[HeadNode]], next[next[HeadNode]])
    BY <1>1, <1>6 DEF StackPop, Ring
  <2>2. Contents # <<>> /\ Contents' = Tail(Contents)
    BY <2>1, TakeRefines
  <2>3. C!TakeFirst
    BY <2>1, <2>2 DEF C!TakeFirst
  <2>. QED
    BY <1>1, <2>1, <2>3 DEF C!Next, Passed
<1>7. ASSUME NEW loop \in {"first", "all"}, NEW values \in SUBSET Values, RemoveStart(loop, values)
      PROVE  [C!Next]_(C!vars) /\ kind' \in {"queue", "stack", "list"} /\ Passed'
  <2>1. /\ UNCHANGED <<kind, next, prev, data>> /\ kind = "list" /\ pc = "idle"
        /\ pc' = loop /\ match' = values /\ iter' = next[HeadNode]
    BY <1>7 DEF RemoveStart
  <2>2. C!Begin(loop, values)
    BY <1>2, <2>1 DEF C!Begin
  <2>3. PICK size \in Nat : \E path : IsPath(size, path)
    BY <1>2, <2>1
  <2>4. PICK path : IsPath(size, path)
    BY <2>3
  <2>5. /\ 1 \in 1..size + 1 /\ 0 \in 0..size /\ 1 - 1 = 0
        /\ next[path[0]] = path[0 + 1] /\ path[0] = HeadNode
    BY <2>4 DEF IsPath
  <2>6. IsPath(size, path)' /\ iter' = path[1] /\ \A i \in 1..1 - 1 : data'[path[i]] \notin match'
    BY <1>2, <2>1, <2>4, <2>5
  <2>7. Passed'
    BY <2>5, <2>6 DEF Passed
  <2>. QED
    BY <1>1, <1>2, <2>1, <2>2, <2>7 DEF C!Next
<1>8. ASSUME pc \in {"first", "all"}
      PROVE  /\ kind = "list"
             /\ \E size \in Nat : \E path : \E k \in 1..size + 1 :
                  /\ IsPath(size, path) /\ iter = path[k]
                  /\ \A i \in 1..k - 1 : data[path[i]] \notin match
                  /\ \A i \in 1..size : Contents[i] = data[path[i]]
                  /\ Contents \in Seq(Values) /\ Len(Contents) = size
  <2>1. kind = "list"
    BY <1>8, <1>1 DEF LinkInv, LoopPlace
  <2>2. PICK size \in Nat : \E path : \E k \in 1..size + 1 :
              /\ IsPath(size, path) /\ iter = path[k]
              /\ \A i \in 1..k - 1 : data[path[i]] \notin match
    BY <1>8 DEF ListInv, Passed
  <2>3. PICK path : \E k \in 1..size + 1 :
              /\ IsPath(size, path) /\ iter = path[k]
              /\ \A i \in 1..k - 1 : data[path[i]] \notin match
    BY <2>2
  <2>4. IsPath(size, path)
    BY <2>3
  <2>5. /\ Contents \in Seq(Values) /\ Len(Contents) = size
        /\ \A i \in 1..size : Contents[i] = data[path[i]]
    BY <1>1, <2>1, <2>4, ContentsType DEF At
  <2>. QED
    BY <2>1, <2>3, <2>5
<1>9. CASE LoopEnd
  <2>1. /\ pc \in {"first", "all"} /\ iter = HeadNode /\ pc' = "idle" /\ match' = {}
        /\ UNCHANGED <<kind, next, prev, data>>
    BY <1>9 DEF LoopEnd, Leave
  <2>2. PICK size \in Nat : \E path : \E k \in 1..size + 1 :
              /\ IsPath(size, path) /\ iter = path[k]
              /\ \A i \in 1..k - 1 : data[path[i]] \notin match
              /\ \A i \in 1..size : Contents[i] = data[path[i]]
              /\ Contents \in Seq(Values) /\ Len(Contents) = size
    BY <1>8, <2>1
  <2>path. PICK path : \E k \in 1..size + 1 :
              /\ IsPath(size, path) /\ iter = path[k]
              /\ \A i \in 1..k - 1 : data[path[i]] \notin match
              /\ \A i \in 1..size : Contents[i] = data[path[i]]
              /\ Contents \in Seq(Values) /\ Len(Contents) = size
    BY <2>2
  <2>3. PICK k \in 1..size + 1 :
              /\ IsPath(size, path) /\ iter = path[k]
              /\ \A i \in 1..k - 1 : data[path[i]] \notin match
              /\ \A i \in 1..size : Contents[i] = data[path[i]]
              /\ Contents \in Seq(Values) /\ Len(Contents) = size
    BY <2>path
  <2>4. k = size + 1
    BY <1>1, <2>1, <2>3 DEF IsPath
  <2>5. ToSet(Contents) \intersect match = {}
    <3>1. \A i \in 1..size : Contents[i] \notin match
      BY <2>3, <2>4
    <3>2. DOMAIN Contents = 1..size
      BY <2>3
    <3>. QED
      BY <3>1, <3>2 DEF ToSet
  <2>6. C!End
    BY <1>2, <2>1, <2>5 DEF C!End, C!ToSet, ToSet
  <2>. QED
    BY <1>2, <2>1, <2>6 DEF C!Next, Passed
<1>10. CASE LoopKeep
  <2>1. /\ pc \in {"first", "all"} /\ iter # HeadNode /\ data[iter] \notin match /\ iter' = next[iter]
        /\ UNCHANGED <<kind, next, prev, data>> /\ pc' = pc /\ match' = match
    BY <1>10 DEF LoopKeep
  <2>2. PICK size \in Nat : \E path : \E k \in 1..size + 1 :
              /\ IsPath(size, path) /\ iter = path[k]
              /\ \A i \in 1..k - 1 : data[path[i]] \notin match
    BY <1>8, <2>1
  <2>path. PICK path : \E k \in 1..size + 1 :
              /\ IsPath(size, path) /\ iter = path[k]
              /\ \A i \in 1..k - 1 : data[path[i]] \notin match
    BY <2>2
  <2>3. PICK k \in 1..size + 1 :
              /\ IsPath(size, path) /\ iter = path[k]
              /\ \A i \in 1..k - 1 : data[path[i]] \notin match
    BY <2>path
  <2>4. k \in 1..size /\ k \in 0..size
    BY <2>1, <2>3 DEF IsPath
  <2>5. next[path[k]] = path[k + 1]
    BY <2>3, <2>4 DEF IsPath
  <2>6. /\ IsPath(size, path)' /\ k + 1 \in 1..size + 1 /\ iter' = path[k + 1]
        /\ \A i \in 1..(k + 1) - 1 : data'[path[i]] \notin match'
    <3>1. \A i \in 1..(k + 1) - 1 : i = k \/ i \in 1..k - 1
      OBVIOUS
    <3>. QED
      BY <1>2, <2>1, <2>3, <2>4, <2>5, <3>1
  <2>7. Passed'
    BY <2>6 DEF Passed
  <2>. QED
    BY <1>2, <2>1, <2>7 DEF C!vars
<1>11. CASE LoopDelete
  <2>1. /\ pc \in {"first", "all"} /\ iter # HeadNode /\ data[iter] \in match /\ kind' = kind
        /\ Unlink(iter, prev[iter], next[iter])
        /\ IF pc = "first" THEN pc' = "idle" /\ match' = {}
           ELSE iter' = next[iter] /\ pc' = pc /\ match' = match
    BY <1>11 DEF LoopDelete, Leave
  <2>2. PICK size \in Nat : \E path : \E k \in 1..size + 1 :
              /\ IsPath(size, path) /\ iter = path[k]
              /\ \A i \in 1..k - 1 : data[path[i]] \notin match
              /\ \A i \in 1..size : Contents[i] = data[path[i]]
              /\ Contents \in Seq(Values) /\ Len(Contents) = size
    BY <1>8, <2>1
  <2>path. PICK path : \E k \in 1..size + 1 :
              /\ IsPath(size, path) /\ iter = path[k]
              /\ \A i \in 1..k - 1 : data[path[i]] \notin match
              /\ \A i \in 1..size : Contents[i] = data[path[i]]
              /\ Contents \in Seq(Values) /\ Len(Contents) = size
    BY <2>2
  <2>3. PICK k \in 1..size + 1 :
              /\ IsPath(size, path) /\ iter = path[k]
              /\ \A i \in 1..k - 1 : data[path[i]] \notin match
              /\ \A i \in 1..size : Contents[i] = data[path[i]]
              /\ Contents \in Seq(Values) /\ Len(Contents) = size
    BY <2>path
  <2>4. k \in 1..size /\ k \in 0..size /\ k - 1 \in 0..size /\ (k - 1) + 1 = k
    BY <2>1, <2>3 DEF IsPath
  <2>5. next[iter] = path[k + 1] /\ prev[iter] = path[k - 1]
    <3>1. next[path[k]] = path[k + 1] /\ prev[path[(k - 1) + 1]] = path[k - 1]
      BY <2>3, <2>4 DEF IsPath
    <3>. QED
      BY <2>3, <2>4, <3>1
  <2>6. kind = "list"
    BY <1>8, <2>1
  <2>7. IsPath(size - 1, Removed(size, path, k))' /\ Contents' = Without(Contents, size, k)
    BY <1>1, <2>1, <2>3, <2>4, <2>5, <2>6, FreeContents
  <2>8. /\ Contents[k] \in match /\ \A i \in 1..k - 1 : Contents[i] \notin match
    <3>1. \A i \in 1..k - 1 : i \in 1..size
      BY <2>4
    <3>. QED
      BY <2>1, <2>3, <2>4, <3>1
  <2>9. Contents' = RemoveFirstMatch(Contents, LAMBDA v : v \in match)
    BY <2>3, <2>4, <2>7, <2>8, MatchWithout
  <2>10. ToSet(Contents) \intersect match # {}
    BY <2>3, <2>4, <2>8 DEF ToSet
  <2>11. C!RemoveOne
    <3>1. C!RemoveFirstMatch(Contents, LAMBDA v : v \in match) =
            RemoveFirstMatch(Contents, LAMBDA v : v \in match)
      BY DEF C!RemoveFirstMatch, C!RemoveAt, C!SelectInSeq, C!Min,
             RemoveFirstMatch, RemoveAt, SelectInSeq, Min
    <3>2. C!ToSet(Contents) = ToSet(Contents)
      BY DEF C!ToSet, ToSet
    <3>. QED
      BY <2>1, <2>9, <2>10, <3>1, <3>2 DEF C!RemoveOne
  <2>12. Passed'
    <3>1. CASE pc = "first"
      BY <2>1, <3>1 DEF Passed
    <3>2. CASE pc # "first"
      <4>1. PICK P : P = Removed(size, path, k)
        OBVIOUS
      <4>2. \A i \in 0..size : P[i] = IF i < k THEN path[i] ELSE path[i + 1]
        BY <4>1 DEF Removed
      <4>3. size - 1 \in Nat /\ k \in 1..(size - 1) + 1 /\ IsPath(size - 1, P)' /\ iter' = P[k]
        BY <2>1, <2>4, <2>5, <2>7, <3>2, <4>1, <4>2
      <4>4. ASSUME NEW i \in 1..k - 1
            PROVE  data'[P[i]] \notin match'
        <5>1. i \in 0..size /\ i < k /\ i \in 1..size /\ i # k
          BY <2>4
        <5>2. P[i] = path[i] /\ path[i] # path[k] /\ path[i] \in Nodes
          BY <2>3, <2>4, <4>2, <5>1 DEF IsPath, Live
        <5>3. data'[path[i]] = data[path[i]]
          BY <1>1, <2>1, <2>3, <5>2 DEF Unlink, Types
        <5>. QED
          BY <2>1, <2>3, <3>2, <5>2, <5>3
      <4>. QED
        BY <4>3, <4>4 DEF Passed
    <3>. QED
      BY <3>1, <3>2
  <2>. QED
    BY <1>1, <2>1, <2>11, <2>12 DEF C!Next
<1>12. CASE Destruct
  <2>1. UNCHANGED <<kind, next, prev, data>> /\ pc = "idle" /\ pc' = "destroy" /\ match' = match
    BY <1>12 DEF Destruct
  <2>2. C!Close
    BY <1>2, <2>1 DEF C!Close
  <2>. QED
    BY <1>2, <2>1, <2>2 DEF C!Next, Passed
<1>13. CASE DestructNode
  <2>1. /\ kind = "list" /\ pc = "destroy" /\ iter # HeadNode /\ Unlink(iter, prev[iter], next[iter])
        /\ iter = next[HeadNode] /\ iter \in Live /\ UNCHANGED <<kind, pc, match>>
    BY <1>1, <1>13 DEF DestructNode, LinkInv, LoopPlace, Ring
  <2>2. Contents # <<>> /\ Contents' = Tail(Contents)
    BY <2>1, TakeRefines
  <2>3. C!TakeFirst
    BY <2>1, <2>2 DEF C!TakeFirst
  <2>. QED
    BY <1>1, <2>1, <2>3 DEF C!Next, Passed
<1>14. CASE DestructEnd
  <2>1. UNCHANGED <<kind, next, prev, data>> /\ pc = "destroy" /\ pc' = "gone" /\ match' = match
    BY <1>14 DEF DestructEnd
  <2>2. Live = {}
    BY <1>1, <1>14 DEF DestructEnd, LinkInv, LoopPlace
  <2>3. Contents = <<>>
    <3>1. PICK size \in Nat : \E path : IsPath(size, path)
      BY <1>2, <2>1
    <3>2. PICK path : IsPath(size, path)
      BY <3>1
    <3>3. size = 0
      BY <2>2, <3>2 DEF IsPath
    <3>4. Contents \in Seq(Values) /\ Len(Contents) = 0
      BY <1>1, <3>2, <3>3, ContentsType
    <3>. QED
      BY <3>4
  <2>4. C!Closed
    BY <1>2, <2>1, <2>3 DEF C!Closed
  <2>. QED
    BY <1>2, <2>1, <2>4 DEF C!Next, Passed
<1>. QED
  BY <1>3, <1>4, <1>5, <1>6, <1>7, <1>9, <1>10, <1>11, <1>12, <1>13, <1>14 DEF Next

\* ListsRefined: read along their rings, the nodes and pointers of Queue, Stack and
\* INSTWLinkList are the containers that Container.tla promises, for any memory and any
\* values: Pop gives the oldest or the newest, Remove deletes the first match or every match
\* and nothing else, and the destructor takes all that is left (Push, Pop, Remove).
THEOREM ListsRefined == Spec => RefinesContainer
<1>1. Init => ListInv /\ C!Init
  <2>1. SUFFICES ASSUME Init PROVE ListInv /\ C!Init
    OBVIOUS
  <2>2. LinkInv
    BY <2>1, LinkInit
  <2>3. ListInv
    BY <2>1, <2>2 DEF Init, ListInv, Passed
  <2>4. Live = {}
    BY <2>1 DEF Init, Live
  <2>5. PICK size \in Nat : \E path : IsPath(size, path)
    BY <2>2 DEF LinkInv, OneRing
  <2>6. PICK path : IsPath(size, path)
    BY <2>5
  <2>7. size = 0
    BY <2>4, <2>6 DEF IsPath
  <2>8. Contents \in Seq(Values) /\ Len(Contents) = 0
    BY <2>3, <2>6, <2>7, ContentsType DEF ListInv, LinkInv
  <2>. QED
    BY <2>1, <2>3, <2>8 DEF Init, C!Init
<1>2. ListInv /\ [Next]_vars => ListInv' /\ [C!Next]_(C!vars)
  <2>1. SUFFICES ASSUME ListInv, [Next]_vars PROVE ListInv' /\ [C!Next]_(C!vars)
    OBVIOUS
  <2>2. LinkInv'
    BY <2>1, LinkStep DEF ListInv
  <2>. QED
    BY <2>1, <2>2, ListRefines DEF ListInv
<1>. QED
  BY <1>1, <1>2, PTL DEF Spec, RefinesContainer, C!Spec

-----------------------------------------------------------------------------
\* The ranges of the variables, those without and with a Boolean.
Counted == items \in Nat /\ at \in [Waiters -> Places]
QueueFlagged == timed \in [Waiters -> BOOLEAN] /\ broken \in BOOLEAN

\* Every variable keeps to its range.
THEOREM QueueTypes == QueueSpec => [](Counted /\ QueueFlagged)
<1>1. QueueInit => Counted
  BY DEF QueueInit, Counted, Places
<1>2. QueueInit => QueueFlagged
  BY Zenon DEF QueueInit, QueueFlagged
<1>3. ASSUME Counted, [QueueNext]_queue PROVE Counted'
  <2>1. CASE UNCHANGED queue
    BY <1>3, <2>1 DEF Counted, queue
  <2>2. ASSUME NEW t \in Waiters, QueueCall(t) PROVE Counted'
    BY <1>3, <2>2 DEF QueueCall, Push, TryPop, TakeFront, Wait, Counted, Places
  <2>3. ASSUME NEW t \in Waiters, Resume(t) PROVE Counted'
    BY <1>3, <2>3 DEF Resume, Recheck, WaitAndPop, TimedPop, TimeOut, TakeFront, Counted, Places
  <2>4. ASSUME NEW t \in Waiters, SpuriousWake(t) PROVE Counted'
    BY <1>3, <2>4 DEF SpuriousWake, Counted, Places
  <2>5. QED
    BY <1>3, <2>1, <2>2, <2>3, <2>4 DEF QueueNext
<1>4. ASSUME QueueFlagged, [QueueNext]_queue PROVE QueueFlagged'
  <2>1. CASE UNCHANGED <<timed, broken>>
    BY <1>4, <2>1 DEF QueueFlagged
  <2>2. ASSUME NEW t \in Waiters, NEW time \in BOOLEAN, Wait(t, time) PROVE QueueFlagged'
    BY <1>4, <2>2 DEF Wait, QueueFlagged
  <2>3. ASSUME NEW t \in Waiters, TimedPop(t) PROVE QueueFlagged'
    BY <1>4, <2>3, Zenon DEF TimedPop, QueueFlagged
  <2>4. QED
    BY <1>4, <2>1, <2>2, <2>3, Zenon DEF QueueNext, QueueCall, Push, TryPop, Resume, Recheck, WaitAndPop, TimeOut,
                                 TakeFront, SpuriousWake, queue
<1>5. QED
  BY <1>1, <1>2, <1>3, <1>4, PTL DEF QueueSpec

\* A waiter is called only beside an item, and none sleeps beside one: a push calls all
\* that sleep, and a take turns those still called into ones that are merely awake.
THEOREM CallsHold == QueueSpec => []WaitersCalled
<1>1. QueueInit => WaitersCalled
  BY DEF QueueInit, WaitersCalled
<1>2. ASSUME Counted, WaitersCalled, [QueueNext]_queue PROVE WaitersCalled'
  <2>1. CASE UNCHANGED queue
    BY <1>2, <2>1 DEF WaitersCalled, queue
  <2>2. ASSUME NEW t \in Waiters, Push(t) PROVE WaitersCalled'
    BY <1>2, <2>2 DEF Push, WaitersCalled, Counted, Places
  <2>3. ASSUME NEW t \in Waiters, TakeFront(t) PROVE WaitersCalled'
    BY <1>2, <2>3 DEF TakeFront, WaitersCalled, Counted, Places
  <2>4. ASSUME NEW t \in Waiters, NEW time \in BOOLEAN, Wait(t, time) PROVE WaitersCalled'
    BY <1>2, <2>4 DEF Wait, WaitersCalled, Counted, Places
  <2>5. ASSUME NEW t \in Waiters, Recheck(t) PROVE WaitersCalled'
    BY <1>2, <2>5 DEF Recheck, WaitersCalled, Counted, Places
  <2>6. ASSUME NEW t \in Waiters, TimedPop(t) \/ TimeOut(t) \/ SpuriousWake(t) PROVE WaitersCalled'
    BY <1>2, <2>6 DEF TimedPop, TimeOut, SpuriousWake, WaitersCalled, Counted, Places
  <2>7. QED
    BY <1>2, <2>1, <2>2, <2>3, <2>4, <2>5, <2>6 DEF QueueNext, QueueCall, Resume, TryPop, WaitAndPop
<1>3. QED
  BY <1>1, <1>2, QueueTypes, PTL DEF QueueSpec

-----------------------------------------------------------------------------
\* What the theorem assumes of the constants.
PlugsNamed ==
  /\ NoLibrary \notin Libraries /\ NoPlug \notin Plugs
  /\ "crash" \notin Libraries /\ "none" \notin Libraries
  /\ Offers \in [Libraries -> SUBSET Plugs]

Ranges ==
  /\ refs \in [Libraries -> Nat] /\ loads \in [Libraries -> Nat]
  /\ PlugMap \in [Plugs -> [library : Libraries, load : Nat] \union {NotFound}]
  /\ failed \subseteq Libraries

\* What a library in memory offers has been registered, and a factory that is not in
\* memory is of a library that failed.
Kept ==
  /\ \A l \in Libraries, p \in Plugs : refs[l] > 0 /\ p \in Offers[l] => PlugMap[p] # NotFound
  /\ \A p \in Plugs : PlugMap[p] # NotFound => Loaded(p) \/ PlugMap[p].library \in failed

\* What dlopen does to the map: names are added, of the library that comes into memory.
Grown(l) ==
  /\ PlugMap' \in [Plugs -> [library : Libraries, load : Nat] \union {NotFound}]
  /\ \A p \in Plugs :
       /\ PlugMap[p] # NotFound => PlugMap'[p] = PlugMap[p]
       /\ p \in Offers[l] /\ refs[l] = 0 => PlugMap'[p] # NotFound
       /\ PlugMap'[p] # PlugMap[p] =>
            refs[l] = 0 /\ PlugMap'[p] = [library |-> l, load |-> loads[l] + 1]
  /\ loads' \in [Libraries -> Nat]
  /\ \A m \in Libraries : refs[m] > 0 \/ m # l => loads'[m] = loads[m]
  /\ refs[l] = 0 => loads'[l] = loads[l] + 1

\* A library that is loaded registers its plug-ins over what is there.
LEMMA Registers ==
  ASSUME PlugsNamed, Ranges, NEW l \in Libraries, dlopen(l)
  PROVE  Grown(l)
<1>1. PlugMap' = Registered(l)
  BY DEF dlopen
<1>2. [library |-> l, load |-> loads[l] + 1] \in [library : Libraries, load : Nat]
  BY DEF Ranges
<1>3. [library |-> l, load |-> loads[l] + 1] # NotFound
  BY DEF PlugsNamed, NotFound
<1>4. /\ loads' \in [Libraries -> Nat]
      /\ \A m \in Libraries : refs[m] > 0 \/ m # l => loads'[m] = loads[m]
      /\ refs[l] = 0 => loads'[l] = loads[l] + 1
  BY DEF dlopen, Ranges
<1>5. QED
  BY <1>1, <1>2, <1>3, <1>4 DEF Grown, Registered, Ranges, PlugsNamed

\* A LoadDriver that succeeds keeps the drivers.
LEMMA LoadKeeps ==
  ASSUME PlugsNamed, Ranges, Kept, NEW l \in Libraries, NEW name \in Plugs, LoadDriver(l, name)
  PROVE  Ranges' /\ Kept'
<1>1. Grown(l) /\ refs' = [refs EXCEPT ![l] = @ + 1] /\ failed' = failed
  BY Registers DEF LoadDriver
<1>2. Ranges'
  BY <1>1 DEF Grown, Ranges
<1>3. ASSUME NEW m \in Libraries, NEW p \in Plugs, refs'[m] > 0, p \in Offers[m]
      PROVE  PlugMap'[p] # NotFound
  BY <1>1, <1>3 DEF Grown, Ranges, Kept
<1>4. ASSUME NEW p \in Plugs, PlugMap'[p] # NotFound
      PROVE  Loaded(p)' \/ PlugMap'[p].library \in failed'
  <2>1. CASE PlugMap'[p] = PlugMap[p]
    <3>1. CASE PlugMap[p].library \in failed
      BY <1>1, <2>1, <3>1
    <3>2. CASE Loaded(p)
      <4> DEFINE m == PlugMap[p].library
      <4>1. m \in Libraries /\ refs[m] > 0 /\ loads[m] = PlugMap[p].load
        BY <1>4, <2>1, <3>2 DEF Loaded, InMemory, Ranges
      <4>2. refs'[m] > 0 /\ loads'[m] = loads[m]
        BY <1>1, <4>1 DEF Grown, Ranges
      <4>3. QED
        BY <2>1, <4>1, <4>2 DEF Loaded, InMemory, PlugsNamed
    <3>3. QED
      BY <1>4, <2>1, <3>1, <3>2 DEF Kept
  <2>2. CASE PlugMap'[p] # PlugMap[p]
    <3>1. refs[l] = 0 /\ PlugMap'[p] = [library |-> l, load |-> loads[l] + 1] /\ loads'[l] = loads[l] + 1
      BY <1>1, <2>2 DEF Grown
    <3>2. refs'[l] > 0
      BY <1>1 DEF Ranges
    <3>3. QED
      BY <3>1, <3>2 DEF Loaded, InMemory, PlugsNamed
  <2>3. QED
    BY <2>1, <2>2
<1>5. QED
  BY <1>2, <1>3, <1>4 DEF Kept

\* So does one that fails after the library was loaded.
LEMMA FailKeeps ==
  ASSUME PlugsNamed, Ranges, Kept, NEW l \in Libraries, NEW name \in Plugs, LoadDriverFails(l, name)
  PROVE  Ranges' /\ Kept'
<1>1. Grown(l) /\ refs' = refs /\ failed' = (IF refs[l] = 0 THEN failed \union {l} ELSE failed)
  BY Registers DEF LoadDriverFails
<1>2. Ranges'
  BY <1>1 DEF Grown, Ranges
<1>3. ASSUME NEW m \in Libraries, NEW p \in Plugs, refs'[m] > 0, p \in Offers[m]
      PROVE  PlugMap'[p] # NotFound
  BY <1>1, <1>3 DEF Grown, Ranges, Kept
<1>4. ASSUME NEW p \in Plugs, PlugMap'[p] # NotFound
      PROVE  Loaded(p)' \/ PlugMap'[p].library \in failed'
  <2>1. CASE PlugMap'[p] = PlugMap[p]
    <3>1. CASE PlugMap[p].library \in failed
      BY <1>1, <2>1, <3>1
    <3>2. CASE Loaded(p)
      <4> DEFINE m == PlugMap[p].library
      <4>1. m \in Libraries /\ refs[m] > 0 /\ loads[m] = PlugMap[p].load
        BY <1>4, <2>1, <3>2 DEF Loaded, InMemory, Ranges
      <4>2. refs'[m] > 0 /\ loads'[m] = loads[m]
        BY <1>1, <4>1 DEF Grown, Ranges
      <4>3. QED
        BY <2>1, <4>1, <4>2 DEF Loaded, InMemory, PlugsNamed
    <3>3. QED
      BY <1>4, <2>1, <3>1, <3>2 DEF Kept
  <2>2. CASE PlugMap'[p] # PlugMap[p]
    <3>1. refs[l] = 0 /\ PlugMap'[p].library = l
      BY <1>1, <2>2 DEF Grown
    <3>2. QED
      BY <1>1, <3>1
  <2>3. QED
    BY <2>1, <2>2
<1>5. QED
  BY <1>2, <1>3, <1>4 DEF Kept

\* Every action keeps the ranges and the drivers.
LEMMA KeptStep == PlugsNamed /\ Ranges /\ Kept /\ [PlugNext]_plugs => Ranges' /\ Kept'
<1> SUFFICES ASSUME PlugsNamed, Ranges, Kept, [PlugNext]_plugs PROVE Ranges' /\ Kept'
  OBVIOUS
<1>1. CASE UNCHANGED plugs
  BY <1>1 DEF plugs, Ranges, Kept, Loaded, InMemory
<1>2. QED
  BY <1>1, LoadKeeps, FailKeeps DEF PlugNext

\* What LoadDriver returns fits the map.
LEMMA ResultStep ==
  ASSUME PlugsNamed, Ranges, Kept, DriverKept, [PlugNext]_plugs
  PROVE  DriverKept'
<1>1. CASE UNCHANGED plugs
  BY <1>1 DEF plugs, DriverKept, Loaded, InMemory
<1>2. ASSUME NEW l \in Libraries, NEW name \in Plugs, LoadDriver(l, name) PROVE DriverKept'
  <2>1. Ranges' /\ Kept'
    BY <1>2, LoadKeeps
  <2>2. /\ PlugMap'[name] # NotFound
        /\ result'.path = l /\ result'.name = name
        /\ result'.plug \in Called(PlugMap'[name], refs', loads')
    BY <1>2 DEF LoadDriver
  <2>3. result'.plug \in {PlugMap'[name].library, "crash"}
    BY <2>2 DEF Called
  <2>4. result'.plug = "crash" => PlugMap'[name].library \in failed'
    <3>1. PlugMap'[name].library \in Libraries
      BY <2>1, <2>2 DEF Ranges
    <3>2. QED
      BY <2>1, <2>2, <3>1 DEF Called, Kept, Loaded, PlugsNamed
  <2>5. PlugMap'[name].library \in Libraries
    BY <2>1, <2>2 DEF Ranges
  <2>6. QED
    BY <2>1, <2>2, <2>3, <2>4, <2>5 DEF DriverKept, Kept, PlugsNamed
<1>3. ASSUME NEW l \in Libraries, NEW name \in Plugs, LoadDriverFails(l, name) PROVE DriverKept'
  <2>1. Ranges' /\ Kept'
    BY <1>3, FailKeeps
  <2>2. /\ PlugMap'[name] = NotFound /\ Grown(l)
        /\ result' = [path |-> l, name |-> name, plug |-> "none"]
    BY <1>3, Registers DEF LoadDriverFails
  <2>3. name \notin Offers[l]
    BY <2>2 DEF Grown, Kept, Ranges
  <2>4. QED
    BY <2>1, <2>2, <2>3 DEF DriverKept, Kept, PlugsNamed
<1>4. QED
  BY <1>1, <1>2, <1>3 DEF PlugNext

\* A plug-in once found works for ever, but for what failed loads leave behind.
THEOREM DriversKept ==
  ASSUME PlugsNamed
  PROVE  PlugSpec => []DriverKept
<1>1. PlugInit => Ranges /\ Kept /\ DriverKept
  BY DEF PlugsNamed, PlugInit, Ranges, Kept, DriverKept
<1>2. Ranges /\ Kept /\ DriverKept /\ [PlugNext]_plugs => (Ranges /\ Kept /\ DriverKept)'
  BY KeptStep, ResultStep
<1>3. QED
  BY <1>1, <1>2, PTL DEF PlugSpec

-----------------------------------------------------------------------------
Text == Inputs \union {Empty}

ResponseType ==
  [url : Text, host : Nat, header : SUBSET Nat, content : SUBSET Nat, askHeader : SUBSET Nat,
   code : Nat, contentLength : Nat, contentLengthZip : Nat]

\* The records have their fields, and the counter counts.
Shape ==
  /\ session \in [url : Text, params : Text, requestOption : Text \union Options]
  /\ response \in ResponseType
  /\ launches \in Nat

\* What the response holds is of this launch, and its numbers came with the first part of
\* the body.
Answered ==
  /\ response.header \union response.content \union response.askHeader \subseteq {launches}
  /\ response.code = IF response.content = {} THEN 0 ELSE launches
  /\ response.contentLength = response.code
  /\ response.host = response.contentLengthZip
  /\ response.content # {} => response.host = launches

\* While libcurl performs, the flag tells whether a part of the body has come.
Flagged == Idle \/ isFirstWrite = (response.content = {})

\* The login that is put into the handle.
Logged ==
  /\ proxy.login \in given \union {Empty}
  /\ proxy.user # Empty => proxy.enable /\ proxy.login = proxy.user
  /\ ~Idle => /\ curl.proxyLogin \in given \union {Empty}
              /\ proxy.user # Empty => curl.proxyLogin = proxy.user

Addressed == response.url = session.url \/ session.url = Empty

FreshInv == Shape /\ Answered /\ Flagged /\ Logged /\ Addressed

\* The invariant holds at the start.
LEMMA FreshInit == HttpInit => FreshInv
<1> SUFFICES ASSUME HttpInit PROVE FreshInv
  OBVIOUS
<1>1. Shape /\ Answered /\ Addressed
  BY DEF HttpInit, Shape, ResponseType, Answered, Addressed, Session, Response, Text
<1>2. Flagged /\ Logged
  BY DEF HttpInit, Flagged, Logged, Idle, Proxy
<1>3. QED
  BY <1>1, <1>2 DEF FreshInv

\* A response that was cleared is a response.
LEMMA Cleared ==
  ASSUME Shape
  PROVE  ClearedResponse \in ResponseType
BY DEF Shape, ResponseType, ClearedResponse

\* Between launches, with the handle closed.
LEMMA ChangeKeeps ==
  ASSUME FreshInv, Change
  PROVE  FreshInv'
<1>1. Idle /\ Idle' /\ launches' = launches
  BY DEF Change, SetUrl, SetParam, SetRequestOption, SetProxy, ClearProxy, ClearSession, ClearResponse,
         Clear, Apart, Idle
<1>2. Flagged'
  BY <1>1 DEF Flagged
<1>3. Logged'
  <2>1. CASE UNCHANGED <<proxy, given>>
    BY <1>1, <2>1 DEF FreshInv, Logged
  <2>2. ASSUME NEW host \in Inputs, NEW user \in Text, SetProxy(host, user) PROVE Logged'
    BY <1>1, <2>2 DEF FreshInv, Logged, SetProxy
  <2>3. CASE proxy' = Proxy /\ given' = {}
    BY <1>1, <2>3 DEF Logged, Proxy
  <2>4. QED
    BY <2>1, <2>2, <2>3 DEF Change, SetUrl, SetParam, SetRequestOption, ClearProxy, ClearSession,
                            ClearResponse, Clear, Text
<1>4. CASE response' = response /\ session' = session
  BY <1>1, <1>2, <1>3, <1>4 DEF FreshInv, Shape, ResponseType, Answered, Addressed
<1>5. CASE response' = ClearedResponse /\ session' \in {session, Session}
  <2>1. Shape'
    BY <1>1, <1>5, Cleared DEF FreshInv, Shape, Session, Text
  <2>2. Answered'
    BY <1>1, <1>5 DEF FreshInv, Shape, ResponseType, Answered, ClearedResponse
  <2>3. Addressed'
    BY <1>5 DEF FreshInv, Shape, ResponseType, Addressed, ClearedResponse, Session
  <2>4. QED
    BY <1>2, <1>3, <2>1, <2>2, <2>3 DEF FreshInv
<1>6. ASSUME NEW text \in Text, SetUrl(text) PROVE FreshInv'
  <2>1. Shape'
    BY <1>1, <1>6 DEF FreshInv, Shape, ResponseType, SetUrl
  <2>2. Answered' /\ Addressed'
    BY <1>1, <1>6 DEF FreshInv, Shape, ResponseType, Answered, Addressed, SetUrl
  <2>3. QED
    BY <1>2, <1>3, <2>1, <2>2 DEF FreshInv
<1>7. ASSUME NEW text \in Text, SetParam(text) \/ SetRequestOption(text) PROVE FreshInv'
  <2>1. Shape'
    BY <1>1, <1>7 DEF FreshInv, Shape, SetParam, SetRequestOption
  <2>2. Answered' /\ Addressed'
    BY <1>1, <1>7 DEF FreshInv, Shape, ResponseType, Answered, Addressed, SetParam, SetRequestOption
  <2>3. QED
    BY <1>2, <1>3, <2>1, <2>2 DEF FreshInv
<1>8. CASE response' = response /\ session' = Session
  BY <1>1, <1>2, <1>3, <1>8 DEF FreshInv, Shape, ResponseType, Answered, Addressed, Session, Text
<1>9. QED
  BY <1>4, <1>5, <1>6, <1>7, <1>8 DEF Change, SetProxy, ClearProxy, ClearSession, ClearResponse, Clear, Text

\* A launch begins with nothing of the one before but its host and compressed length.
LEMMA LaunchKeeps ==
  ASSUME FreshInv, NEW option \in Options, Launch(option)
  PROVE  FreshInv'
<1>1. /\ response' = ClearedResponse /\ session' = Named(option) /\ launches' = launches + 1
      /\ isFirstWrite' = TRUE /\ proxy' = proxy /\ given' = given
      /\ curl' \in {SetSession(option), Closed}
  BY DEF Launch, Initialize
<1>2. Shape'
  BY <1>1, Cleared DEF FreshInv, Shape, Named
<1>3. Answered'
  BY <1>1 DEF FreshInv, Shape, ResponseType, Answered, ClearedResponse
<1>4. Addressed'
  BY <1>1 DEF FreshInv, Shape, ResponseType, Addressed, ClearedResponse, Named
<1>5. response'.content = {}
  BY <1>1 DEF FreshInv, Shape, ClearedResponse
<1>6. Flagged'
  BY <1>1, <1>5 DEF Flagged
<1>7. Logged'
  BY <1>1 DEF FreshInv, Logged, Idle, SetSession
<1>8. QED
  BY <1>2, <1>3, <1>4, <1>6, <1>7 DEF FreshInv

\* libcurl calls back.
LEMMA CallbackKeeps ==
  ASSUME FreshInv, AskHeaderFunction \/ HeaderFunction \/ WriteFunction
  PROVE  FreshInv'
<1>1. ~Idle /\ UNCHANGED <<session, proxy, given, curl, launches>>
  BY DEF AskHeaderFunction, HeaderFunction, WriteFunction, Answer
<1>2. Logged'
  BY <1>1 DEF FreshInv, Logged, Idle
<1>3. CASE AskHeaderFunction \/ HeaderFunction
  <2>1. Shape' /\ Answered' /\ Addressed' /\ response'.content = response.content
    BY <1>1, <1>3 DEF FreshInv, Shape, ResponseType, Answered, Addressed, AskHeaderFunction, HeaderFunction, Answer
  <2>2. isFirstWrite' = isFirstWrite
    BY <1>3 DEF AskHeaderFunction, HeaderFunction
  <2>3. QED
    BY <1>1, <1>2, <2>1, <2>2 DEF FreshInv, Flagged, Idle
<1>4. CASE WriteFunction
  <2>1. isFirstWrite = (response.content = {})
    BY <1>1 DEF FreshInv, Flagged
  <2>2. response' = [IF response.content = {} THEN Parsed ELSE response EXCEPT !.content = @ \union {launches}]
    BY <1>4, <2>1 DEF WriteFunction, Answer
  <2>3. Shape' /\ Addressed'
    BY <1>1, <2>2 DEF FreshInv, Shape, ResponseType, Addressed, Parsed
  <2>4. Answered' /\ response'.content # {}
    BY <1>1, <2>2 DEF FreshInv, Shape, ResponseType, Answered, Parsed
  <2>5. isFirstWrite' = FALSE
    BY <1>4 DEF WriteFunction
  <2>6. Flagged'
    BY <2>4, <2>5 DEF Flagged
  <2>7. QED
    BY <1>2, <2>3, <2>4, <2>6 DEF FreshInv
<1>5. QED
  BY <1>3, <1>4

\* Every action keeps the invariant.
LEMMA FreshStep == FreshInv /\ [HttpNext]_http => FreshInv'
<1> SUFFICES ASSUME FreshInv, [HttpNext]_http PROVE FreshInv'
  OBVIOUS
<1>1. CASE UNCHANGED http
  BY <1>1 DEF http, FreshInv, Shape, ResponseType, Answered, Flagged, Logged, Addressed, Idle
<1>2. CASE Performed
  BY <1>2 DEF Performed, FreshInv, Shape, ResponseType, Answered, Flagged, Logged, Addressed, Idle
<1>3. QED
  BY <1>1, <1>2, ChangeKeeps, LaunchKeeps, CallbackKeeps DEF HttpNext

\* Launches do not mix: it rests on Initialize, on the flag of the first write, and on a
\* login being put together whenever a user is set.
THEOREM LaunchesFresh == HttpSpec => []LaunchFresh
<1>1. FreshInv => LaunchFresh
  BY DEF FreshInv, Shape, ResponseType, Answered, Logged, Addressed, LaunchFresh
<1>2. QED
  BY <1>1, FreshInit, FreshStep, PTL DEF HttpSpec
===============================================================================
