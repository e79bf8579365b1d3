---------------------------- MODULE RestPyProofs ----------------------------
(***************************************************************************)
(* Proofs about RestPy for any set of calls, endpoints, windows, retries   *)
(* and faults: the locks serve the calls in the order they were made       *)
(* (CallOrderKept, through QueueInv), and Discord's window is respected    *)
(* while no request escaped (WindowRespected, through WindowInv).          *)
(***************************************************************************)
EXTENDS RestPy, SequenceTheorems, TLAPS

-----------------------------------------------------------------------------
(* Queues.                                                                 *)

(* A call that queues goes to the end.                                     *)
LEMMA AppendProps ==
    ASSUME NEW S, NEW q \in Seq(S), NEW c \in S
    PROVE  /\ Append(q, c) \in Seq(S)
           /\ DOMAIN Append(q, c) = 1 .. Len(q) + 1
           /\ \A i \in DOMAIN q : Append(q, c)[i] = q[i]
           /\ Append(q, c)[Len(q) + 1] = c
           /\ DOMAIN q = 1 .. Len(q)
           /\ Range(Append(q, c)) = Range(q) \cup {c}
           /\ q = <<>> => Range(q) = {} /\ Append(q, c)[1] = c
           /\ q # <<>> => Append(q, c)[1] = q[1]
  <1>1. /\ Append(q, c) \in Seq(S)
        /\ DOMAIN Append(q, c) = 1 .. Len(q) + 1
        /\ \A i \in DOMAIN q : Append(q, c)[i] = q[i]
        /\ Append(q, c)[Len(q) + 1] = c
        /\ DOMAIN q = 1 .. Len(q)
        /\ Len(q) \in Nat
    OBVIOUS
  <1>2. Range(Append(q, c)) = Range(q) \cup {c}
    <2>1. ASSUME NEW x \in Range(Append(q, c)) PROVE x \in Range(q) \cup {c}
      <3>1. PICK i \in 1 .. Len(q) + 1 : x = Append(q, c)[i]
        BY <1>1, <2>1 DEF Range
      <3>2. CASE i \in 1 .. Len(q)
        BY <1>1, <3>1, <3>2 DEF Range
      <3>3. CASE i = Len(q) + 1
        BY <1>1, <3>1, <3>3
      <3> QED BY <1>1, <3>2, <3>3
    <2>2. ASSUME NEW x \in Range(q) PROVE x \in Range(Append(q, c))
      <3>1. PICK i \in 1 .. Len(q) : x = q[i]
        BY <1>1, <2>2 DEF Range
      <3>2. i \in 1 .. Len(q) + 1 /\ x = Append(q, c)[i]
        BY <1>1, <3>1
      <3> QED BY <1>1, <3>2 DEF Range
    <2>3. c \in Range(Append(q, c))
      <3>1. Len(q) + 1 \in 1 .. Len(q) + 1
        BY <1>1
      <3> QED BY <1>1, <3>1 DEF Range
    <2> QED BY <2>1, <2>2, <2>3
  <1>3. q = <<>> => Range(q) = {} /\ Append(q, c)[1] = c
    BY <1>1 DEF Range
  <1>4. q # <<>> => Append(q, c)[1] = q[1]
    BY <1>1
  <1> QED BY <1>1, <1>2, <1>3, <1>4

(* A call that leaves a queue leaves the others as they stand.             *)
LEMMA RemoveFirstProps ==
    ASSUME NEW S, NEW q \in Seq(S), IsInjective(q), NEW c
    PROVE  /\ RemoveFirst(q, c) \in Seq(S)
           /\ Range(RemoveFirst(q, c)) = Range(q) \ {c}
           /\ \A i, j \in DOMAIN RemoveFirst(q, c) : i < j =>
                \E k, l \in DOMAIN q :
                   k < l /\ RemoveFirst(q, c)[i] = q[k] /\ RemoveFirst(q, c)[j] = q[l]
           /\ q # <<>> /\ q[1] # c => RemoveFirst(q, c)[1] = q[1]
  <1> DEFINE r == RemoveFirst(q, c)
  <1>0. DOMAIN q = 1 .. Len(q) /\ Len(q) \in Nat
    OBVIOUS
  <1>1. CASE \E i \in 1 .. Len(q) : q[i] = c
    <2>1. PICK n \in 1 .. Len(q) : q[n] = c
      BY <1>1
    <2>2. {i \in 1 .. Len(q) : q[i] = c} = {n}
      BY <1>0, <2>1 DEF IsInjective
    <2>3. Min({n}) = n
      BY <2>1 DEF Min
    <2>4. SelectInSeq(q, LAMBDA v : v = c) = n
      BY <2>2, <2>3 DEF SelectInSeq
    <2>5. r = SubSeq(q, 1, n - 1) \o SubSeq(q, n + 1, Len(q))
      BY <1>1, <2>4 DEF RemoveFirst, RemoveAt
    <2> HIDE DEF r
    <2>6. /\ r \in Seq(S) /\ Len(r) = Len(q) - 1
          /\ \A i \in 1 .. Len(r) : r[i] = IF i < n THEN q[i] ELSE q[i + 1]
      <3> DEFINE a == SubSeq(q, 1, n - 1)
                 b == SubSeq(q, n + 1, Len(q))
      <3>1. /\ a \in Seq(S) /\ Len(a) = n - 1
            /\ \A i \in 1 .. n - 1 : a[i] = q[i]
        <4>1. \A i \in 1 .. n - 1 : q[i] \in S
          BY <1>0, <2>1
        <4>2. /\ a \in Seq(S) /\ Len(a) = IF 1 <= n - 1 THEN n - 1 - 1 + 1 ELSE 0
              /\ \A i \in 1 .. n - 1 - 1 + 1 : a[i] = q[1 + i - 1]
          BY <1>0, <2>1, <4>1, SubSeqProperties
        <4> HIDE DEF a
        <4>3. n - 1 - 1 + 1 = n - 1 /\ n \in Nat /\ n >= 1 /\ \A i \in Nat : 1 + i - 1 = i
          BY <1>0, <2>1
        <4> QED BY <4>2, <4>3
      <3>2. /\ b \in Seq(S) /\ Len(b) = Len(q) - n
            /\ \A i \in 1 .. Len(q) - n : b[i] = q[n + i]
        <4>1. \A i \in n + 1 .. Len(q) : q[i] \in S
          BY <1>0, <2>1
        <4>2. /\ b \in Seq(S) /\ Len(b) = IF n + 1 <= Len(q) THEN Len(q) - (n + 1) + 1 ELSE 0
              /\ \A i \in 1 .. Len(q) - (n + 1) + 1 : b[i] = q[n + 1 + i - 1]
          BY <1>0, <2>1, <4>1, SubSeqProperties
        <4> HIDE DEF b
        <4>3. /\ Len(q) - (n + 1) + 1 = Len(q) - n /\ n \in Nat /\ n <= Len(q)
              /\ \A i \in Nat : n + 1 + i - 1 = n + i
          BY <1>0, <2>1
        <4>4. Len(b) = Len(q) - n
          <5>1. Len(b) = IF n + 1 <= Len(q) THEN Len(q) - n ELSE 0
            BY <4>2, <4>3
          <5>2. \A k, m \in Nat : m <= k /\ ~(m + 1 <= k) => k - m = 0
            OBVIOUS
          <5>3. ~(n + 1 <= Len(q)) => Len(q) - n = 0
            BY <1>0, <4>3, <5>2
          <5> QED BY <5>1, <5>3
        <4>5. ASSUME NEW i \in 1 .. Len(q) - n PROVE b[i] = q[n + i]
          <5>1. i \in 1 .. Len(q) - (n + 1) + 1 /\ n + 1 + i - 1 = n + i
            BY <1>0, <2>1, <4>5
          <5> QED BY <4>2, <5>1
        <4> QED BY <4>2, <4>4, <4>5
      <3> HIDE DEF a, b
      <3>3. /\ a \o b \in Seq(S) /\ Len(a \o b) = Len(a) + Len(b)
            /\ \A i \in 1 .. Len(a) + Len(b) :
                 (a \o b)[i] = IF i <= Len(a) THEN a[i] ELSE b[i - Len(a)]
        BY <3>1, <3>2, ConcatProperties
      <3>4. r = a \o b
        BY <2>5 DEF a, b
      <3>5. Len(r) = Len(q) - 1
        <4>1. Len(r) = Len(a) + Len(b) /\ Len(a) = n - 1 /\ Len(b) = Len(q) - n
          BY <3>1, <3>2, <3>3, <3>4
        <4>2. (n - 1) + (Len(q) - n) = Len(q) - 1
          BY <1>0, <2>1
        <4> QED BY <4>1, <4>2
      <3>6. ASSUME NEW i \in 1 .. Len(r) PROVE r[i] = IF i < n THEN q[i] ELSE q[i + 1]
        <4>1. CASE i < n
          BY <1>0, <2>1, <3>1, <3>2, <3>3, <3>4, <3>5, <3>6, <4>1
        <4>2. CASE ~(i < n)
          <5>1. i - (n - 1) \in 1 .. Len(q) - n /\ n + (i - (n - 1)) = i + 1
            BY <1>0, <2>1, <3>5, <3>6, <4>2
          <5>2. r[i] = b[i - (n - 1)]
            BY <1>0, <2>1, <3>1, <3>2, <3>3, <3>4, <3>5, <3>6, <4>2
          <5>3. b[i - (n - 1)] = q[n + (i - (n - 1))]
            BY <3>2, <5>1
          <5> QED BY <4>2, <5>1, <5>2, <5>3
        <4> QED BY <4>1, <4>2
      <3> QED BY <3>3, <3>4, <3>5, <3>6
    <2>7. DOMAIN r = 1 .. Len(r)
      BY <2>6
    <2>8. Range(r) = Range(q) \ {c}
      <3>1. ASSUME NEW x \in Range(r) PROVE x \in Range(q) \ {c}
        <4>1. PICK i \in 1 .. Len(r) : x = r[i]
          BY <2>7, <3>1 DEF Range
        <4>2. PICK k \in 1 .. Len(q) : x = q[k] /\ k # n
          <5>1. CASE i < n
            BY <1>0, <2>1, <2>6, <4>1, <5>1
          <5>2. CASE ~(i < n)
            BY <1>0, <2>1, <2>6, <4>1, <5>2
          <5> QED BY <5>1, <5>2
        <4> QED BY <1>0, <2>1, <4>2 DEF Range, IsInjective
      <3>2. ASSUME NEW x \in Range(q), x # c PROVE x \in Range(r)
        <4>1. PICK k \in 1 .. Len(q) : x = q[k]
          BY <1>0, <3>2 DEF Range
        <4>2. PICK i \in 1 .. Len(r) : r[i] = x
          <5>1. CASE k < n
            BY <1>0, <2>1, <2>6, <4>1, <5>1
          <5>2. CASE k > n
            <6>1. k - 1 \in 1 .. Len(r) /\ ~(k - 1 < n) /\ (k - 1) + 1 = k
              BY <1>0, <2>1, <2>6, <4>1, <5>2
            <6>2. r[k - 1] = q[k]
              BY <2>6, <6>1
            <6> QED BY <4>1, <6>1, <6>2
          <5> QED BY <2>1, <3>2, <4>1, <5>1, <5>2
        <4> QED BY <2>7, <4>2 DEF Range
      <3> QED BY <3>1, <3>2
    <2>9. ASSUME NEW i \in DOMAIN r, NEW j \in DOMAIN r, i < j
          PROVE  \E k, l \in DOMAIN q : k < l /\ r[i] = q[k] /\ r[j] = q[l]
      <3> DEFINE k == IF i < n THEN i ELSE i + 1
                 l == IF j < n THEN j ELSE j + 1
      <3>1. k \in DOMAIN q /\ l \in DOMAIN q /\ k < l
        BY <1>0, <2>1, <2>6, <2>7, <2>9
      <3>2. r[i] = q[k] /\ r[j] = q[l]
        BY <2>6, <2>7, <2>9
      <3> QED BY <3>1, <3>2
    <2>10. q # <<>> /\ q[1] # c => r[1] = q[1]
      BY <1>0, <2>1, <2>6
    <2> QED BY <2>6, <2>8, <2>9, <2>10 DEF r
  <1>2. CASE ~ \E i \in 1 .. Len(q) : q[i] = c
    <2>1. r = q
      BY <1>2 DEF RemoveFirst
    <2> HIDE DEF r
    <2>2. c \notin Range(q)
      BY <1>0, <1>2 DEF Range
    <2> QED BY <2>1, <2>2 DEF r
  <1> QED BY <1>1, <1>2

(* The call that holds a lock leaves the queue in front.                   *)
LEMMA TailProps ==
    ASSUME NEW S, NEW q \in Seq(S), q # <<>>, IsInjective(q)
    PROVE  /\ Tail(q) \in Seq(S)
           /\ Head(q) = q[1] /\ q[1] \in Range(q)
           /\ Range(Tail(q)) = Range(q) \ {q[1]}
           /\ \A i, j \in DOMAIN Tail(q) : i < j =>
                \E k, l \in DOMAIN q : k < l /\ Tail(q)[i] = q[k] /\ Tail(q)[j] = q[l]
           /\ \A x \in Range(Tail(q)) : \E l \in DOMAIN q : 1 \in DOMAIN q /\ 1 < l /\ q[l] = x
  <1>0. /\ Tail(q) \in Seq(S) /\ DOMAIN q = 1 .. Len(q) /\ Len(q) \in Nat \ {0}
        /\ DOMAIN Tail(q) = 1 .. Len(q) - 1 /\ Head(q) = q[1]
        /\ \A i \in 1 .. Len(q) - 1 : Tail(q)[i] = q[i + 1]
    OBVIOUS
  <1>1. q[1] \in Range(q)
    BY <1>0 DEF Range
  <1>2. ASSUME NEW x \in Range(Tail(q))
        PROVE  \E l \in DOMAIN q : 1 \in DOMAIN q /\ 1 < l /\ q[l] = x
    <2>1. PICK i \in 1 .. Len(q) - 1 : x = Tail(q)[i]
      BY <1>0, <1>2 DEF Range
    <2>2. i + 1 \in DOMAIN q /\ 1 < i + 1 /\ q[i + 1] = x /\ 1 \in DOMAIN q
      BY <1>0, <2>1
    <2> QED BY <2>2
  <1>3. Range(Tail(q)) = Range(q) \ {q[1]}
    <2>1. ASSUME NEW x \in Range(Tail(q)) PROVE x \in Range(q) \ {q[1]}
      <3>1. PICK l \in DOMAIN q : 1 \in DOMAIN q /\ 1 < l /\ q[l] = x
        BY <1>2, <2>1
      <3>2. 1 # l
        BY <1>0, <3>1
      <3> QED BY <3>1, <3>2 DEF Range, IsInjective
    <2>2. ASSUME NEW x \in Range(q), x # q[1] PROVE x \in Range(Tail(q))
      <3>1. PICK l \in 1 .. Len(q) : x = q[l]
        BY <1>0, <2>2 DEF Range
      <3>2. l - 1 \in 1 .. Len(q) - 1 /\ (l - 1) + 1 = l
        BY <1>0, <2>2, <3>1
      <3>3. Tail(q)[l - 1] = x
        BY <1>0, <3>1, <3>2
      <3> QED BY <1>0, <3>2, <3>3 DEF Range
    <2> QED BY <2>1, <2>2
  <1>4. ASSUME NEW i \in DOMAIN Tail(q), NEW j \in DOMAIN Tail(q), i < j
        PROVE  \E k, l \in DOMAIN q : k < l /\ Tail(q)[i] = q[k] /\ Tail(q)[j] = q[l]
    <2>1. i + 1 \in DOMAIN q /\ j + 1 \in DOMAIN q /\ i + 1 < j + 1
      BY <1>0, <1>4
    <2>2. Tail(q)[i] = q[i + 1] /\ Tail(q)[j] = q[j + 1]
      BY <1>0, <1>4
    <2> QED BY <2>1, <2>2
  <1> QED BY <1>0, <1>1, <1>2, <1>3, <1>4

-----------------------------------------------------------------------------
(* The order of the calls.                                                 *)

(* Who is in the order they were made is there once.                       *)
LEMMA OrderedOnce ==
    ASSUME started \in Seq(Calls), IsInjective(started), NEW q \in Seq(Calls), InOrder(q)
    PROVE  IsInjective(q)
  <1>1. \A x : ~Before(x, x)
    BY DEF Before, IsInjective
  <1>2. DOMAIN q = 1 .. Len(q) /\ Len(q) \in Nat
    OBVIOUS
  <1>3. ASSUME NEW i \in DOMAIN q, NEW j \in DOMAIN q, q[i] = q[j], i # j PROVE FALSE
    <2>1. i < j \/ j < i
      BY <1>2, <1>3
    <2> QED BY <1>1, <1>3, <2>1 DEF InOrder
  <1> QED BY <1>3 DEF IsInjective

LEMMA BeforeIsOrder ==
    ASSUME started \in Seq(Calls), IsInjective(started), NEW x, NEW y, Before(x, y)
    PROVE  ~Before(y, x)
  <1>1. DOMAIN started \subseteq Nat
    OBVIOUS
  <1> SUFFICES ASSUME Before(y, x) PROVE FALSE
    OBVIOUS
  <1>2. PICK i, j \in DOMAIN started : i < j /\ started[i] = x /\ started[j] = y
    BY DEF Before
  <1>3. PICK k, l \in DOMAIN started : k < l /\ started[k] = y /\ started[l] = x
    BY DEF Before
  <1>4. i = l /\ j = k
    BY <1>2, <1>3 DEF IsInjective
  <1> QED BY <1>1, <1>2, <1>3, <1>4

(* A new call comes after all others and changes nothing between them.     *)
LEMMA BeforeStays ==
    ASSUME started \in Seq(Calls), NEW c \in Calls, started' = Append(started, c)
    PROVE  /\ \A x, y : Before(x, y) => Before(x, y)'
           /\ \A x \in Range(started) : Before(x, c)'
  <1>1. /\ DOMAIN started' = 1 .. Len(started) + 1
        /\ \A i \in DOMAIN started : started'[i] = started[i]
        /\ started'[Len(started) + 1] = c
        /\ DOMAIN started = 1 .. Len(started) /\ Len(started) \in Nat
    BY AppendProps
  <1>2. ASSUME NEW x, NEW y, Before(x, y) PROVE Before(x, y)'
    <2>1. PICK i, j \in DOMAIN started : i < j /\ started[i] = x /\ started[j] = y
      BY <1>2 DEF Before
    <2>2. i \in DOMAIN started' /\ j \in DOMAIN started' /\ started'[i] = x /\ started'[j] = y
      BY <1>1, <2>1
    <2> QED BY <2>1, <2>2 DEF Before
  <1>3. ASSUME NEW x \in Range(started) PROVE Before(x, c)'
    <2>1. PICK i \in DOMAIN started : started[i] = x
      BY <1>3 DEF Range
    <2>2. /\ i \in DOMAIN started' /\ Len(started) + 1 \in DOMAIN started' /\ i < Len(started) + 1
          /\ started'[i] = x
      BY <1>1, <2>1
    <2> QED BY <1>1, <2>2 DEF Before
  <1> QED BY <1>2, <1>3

(* Queues stay in order when the last to come queues, and when one leaves. *)
LEMMA InOrderAppend ==
    ASSUME started \in Seq(Calls), NEW q \in Seq(Calls), InOrder(q), NEW c \in Calls,
           \A x \in Range(q) : Before(x, c)
    PROVE  InOrder(Append(q, c))
  <1>1. /\ DOMAIN Append(q, c) = 1 .. Len(q) + 1
        /\ \A i \in DOMAIN q : Append(q, c)[i] = q[i]
        /\ Append(q, c)[Len(q) + 1] = c
        /\ DOMAIN q = 1 .. Len(q) /\ Len(q) \in Nat
    BY AppendProps
  <1>2. ASSUME NEW i \in DOMAIN Append(q, c), NEW j \in DOMAIN Append(q, c), i < j
        PROVE  Before(Append(q, c)[i], Append(q, c)[j])
    <2>1. i \in DOMAIN q /\ (j \in DOMAIN q \/ j = Len(q) + 1)
      BY <1>1, <1>2
    <2>2. q[i] \in Range(q)
      BY <2>1 DEF Range
    <2>3. CASE j \in DOMAIN q
      BY <1>1, <1>2, <2>1, <2>3 DEF InOrder
    <2>4. CASE j = Len(q) + 1
      BY <1>1, <2>1, <2>2, <2>4
    <2> QED BY <2>1, <2>3, <2>4
  <1> QED BY <1>2 DEF InOrder

LEMMA InOrderLess ==
    ASSUME NEW q, NEW r, InOrder(q),
           \A i, j \in DOMAIN r : i < j => \E k, l \in DOMAIN q : k < l /\ r[i] = q[k] /\ r[j] = q[l]
    PROVE  InOrder(r)
  BY DEF InOrder

-----------------------------------------------------------------------------
(* How a step changes the queues.                                          *)

LEMMA EndpointsOf ==
    ASSUME CallTypes, NEW c \in Calls
    PROVE  EndpointOf(c) \in Endpoints /\ Bucket(c) \in Buckets
  BY DEF CallTypes, EndpointOf, Bucket, Endpoints, Buckets

(* What stands at the gate and at the routes.                              *)
LEMMA QueuePlaces ==
    /\ AtGate = {"gate", "gsleep"}
    /\ AtRoute = {"route", "wire", "resp", "reset", "backoff"}
    /\ InRetryLoop = {"wire", "resp", "reset", "backoff"}
  BY DEF AtGate, AtRoute, InRetryLoop

(* Call: the new call is the last at the gate.                             *)
LEMMA CallQueues ==
    ASSUME TypeOK, Queues, NEW c \in Calls, Call(c)
    PROVE  LockTypes' /\ Queues'
  <1>0. /\ globalLock \in Seq(Calls) /\ started \in Seq(Calls) /\ routeLock \in [Endpoints -> Seq(Calls)]
        /\ pc \in [Calls -> Places]
    BY DEF TypeOK, LockTypes, CallTypes
  <1>1. /\ pc[c] = "idle" /\ pc' = [pc EXCEPT ![c] = "gate"]
        /\ globalLock' = Append(globalLock, c) /\ started' = Append(started, c)
        /\ UNCHANGED <<req, routeLock>>
    BY DEF Call, Goto
  <1>2. /\ pc'[c] = "gate" /\ \A d \in Calls : d # c => pc'[d] = pc[d]
        /\ \A d \in Calls : EndpointOf(d)' = EndpointOf(d)
    BY <1>0, <1>1 DEF EndpointOf
  <1>3. /\ globalLock' \in Seq(Calls) /\ started' \in Seq(Calls)
        /\ Range(globalLock') = Range(globalLock) \cup {c}
        /\ Range(started') = Range(started) \cup {c}
        /\ globalLock # <<>> => globalLock'[1] = globalLock[1]
        /\ globalLock = <<>> => Range(globalLock) = {}
    BY <1>0, <1>1, AppendProps
  <1>4. /\ \A x, y : Before(x, y) => Before(x, y)'
        /\ \A x \in Range(started) : Before(x, c)'
    BY <1>0, <1>1, BeforeStays
  <1>5. LockTypes'
    BY <1>0, <1>1, <1>3 DEF LockTypes
  <1>6. c \notin Range(started)
    BY <1>1 DEF Queues, MadeOnce
  <1>7. MadeOnce'
    <2>1. IsInjective(started')
      <3>1. /\ DOMAIN started' = 1 .. Len(started) + 1
            /\ \A i \in DOMAIN started : started'[i] = started[i]
            /\ started'[Len(started) + 1] = c
            /\ DOMAIN started = 1 .. Len(started) /\ Len(started) \in Nat
        BY <1>0, <1>1, AppendProps
      <3>2. \A i \in DOMAIN started : started[i] # c
        BY <1>6 DEF Range
      <3>3. \A i \in DOMAIN started' : i \in DOMAIN started \/ i = Len(started) + 1
        BY <3>1
      <3>4. IsInjective(started)
        BY DEF Queues, MadeOnce
      <3> QED BY <3>1, <3>2, <3>3, <3>4 DEF IsInjective
    <2> QED BY <1>2, <1>3, <2>1 DEF Queues, MadeOnce
  <1>8. GateQueue'
    <2> DEFINE Follows(x, y) ==
          \E k, l \in DOMAIN started' : k < l /\ started'[k] = x /\ started'[l] = y
    <2>0. /\ \A x, y : Before(x, y) => Follows(x, y)
          /\ \A x \in Range(started) : Follows(x, c)
      BY <1>4 DEF Before
    <2> HIDE DEF Follows
    <2>1. /\ DOMAIN globalLock' = 1 .. Len(globalLock) + 1
          /\ \A i \in DOMAIN globalLock : globalLock'[i] = globalLock[i]
          /\ globalLock'[Len(globalLock) + 1] = c
          /\ DOMAIN globalLock = 1 .. Len(globalLock) /\ Len(globalLock) \in Nat
      BY <1>0, <1>1, AppendProps
    <2>2. \A x \in Range(globalLock) : x \in Range(started)
      <3>1. \A x \in Range(globalLock) : x \in Calls
        BY <1>0 DEF Range
      <3> QED BY <3>1, QueuePlaces DEF Queues, GateQueue, MadeOnce
    <2>3. ASSUME NEW i \in DOMAIN globalLock', NEW j \in DOMAIN globalLock', i < j
          PROVE  Follows(globalLock'[i], globalLock'[j])
      <3>1. i \in DOMAIN globalLock /\ (j \in DOMAIN globalLock \/ j = Len(globalLock) + 1)
        BY <2>1, <2>3
      <3>2. globalLock[i] \in Range(started)
        BY <2>2, <3>1 DEF Range
      <3>3. CASE j \in DOMAIN globalLock
        <4>1. Before(globalLock[i], globalLock[j])
          BY <2>3, <3>1, <3>3 DEF Queues, GateQueue, InOrder
        <4> QED BY <2>0, <2>1, <3>1, <3>3, <4>1
      <3>4. CASE j = Len(globalLock) + 1
        BY <2>0, <2>1, <3>1, <3>2, <3>4
      <3> QED BY <3>1, <3>3, <3>4
    <2>4. InOrder(globalLock)'
      BY <2>3 DEF InOrder, Before, Follows
    <2>5. \A d \in Calls : pc'[d] \in AtGate <=> d \in Range(globalLock')
      BY <1>2, <1>3, QueuePlaces DEF Queues, GateQueue
    <2>6. \A d \in Calls : pc'[d] = "gsleep" => globalLock'[1] = d
      <3>1. SUFFICES ASSUME NEW d \in Calls, pc'[d] = "gsleep" PROVE globalLock'[1] = d
        OBVIOUS
      <3>2. pc[d] = "gsleep"
        BY <1>2, <3>1
      <3> QED BY <1>3, <3>2, QueuePlaces DEF Queues, GateQueue
    <2> QED BY <2>4, <2>5, <2>6 DEF GateQueue
  <1>9. RouteQueues'
    <2>1. \A e \in Endpoints : InOrder(routeLock[e])'
      BY <1>1, <1>4 DEF Queues, RouteQueues, InOrder
    <2>2. \A d \in Calls : pc'[d] \in AtRoute <=> pc[d] \in AtRoute
      BY <1>1, <1>2, QueuePlaces
    <2>3. \A d \in Calls : pc'[d] \in InRetryLoop <=> pc[d] \in InRetryLoop
      BY <1>1, <1>2, QueuePlaces
    <2> QED BY <1>1, <1>2, <2>1, <2>2, <2>3 DEF Queues, RouteQueues
  <1>10. GateBeforeRoute'
    <2>1. SUFFICES ASSUME NEW x \in Calls, NEW y \in Calls, pc'[x] \in AtRoute, pc'[y] \in AtGate
                   PROVE  Before(x, y)'
      BY DEF GateBeforeRoute
    <2>2. x # c /\ pc[x] \in AtRoute /\ x \in Range(started)
      BY <1>2, <2>1, QueuePlaces DEF Queues, MadeOnce
    <2>3. CASE y = c
      BY <1>4, <2>2, <2>3
    <2>4. CASE y # c
      BY <1>2, <1>4, <2>1, <2>2, <2>4 DEF Queues, GateBeforeRoute
    <2> QED BY <2>3, <2>4
  <1> QED BY <1>5, <1>7, <1>8, <1>9, <1>10 DEF Queues

(* A step of a call that keeps its place in its queue.                     *)
LEMMA StayQueues ==
    ASSUME TypeOK, Queues, NEW c \in Calls, NEW p, pc' = [pc EXCEPT ![c] = p],
           UNCHANGED <<req, locks, started>>,
           \/ pc[c] \in AtGate /\ p = "gsleep" /\ globalLock[1] = c
           \/ pc[c] \in AtRoute /\ p \in InRetryLoop /\ routeLock[EndpointOf(c)][1] = c
    PROVE  LockTypes' /\ Queues'
  <1>0. pc \in [Calls -> Places]
    BY DEF TypeOK, CallTypes
  <1>1. /\ pc'[c] = p /\ \A d \in Calls : d # c => pc'[d] = pc[d]
        /\ \A d \in Calls : EndpointOf(d)' = EndpointOf(d)
        /\ UNCHANGED <<globalLock, routeLock, started>>
    BY <1>0 DEF EndpointOf, locks
  <1>2. \A d \in Calls : /\ pc'[d] \in AtGate <=> pc[d] \in AtGate
                         /\ pc'[d] \in AtRoute <=> pc[d] \in AtRoute
                         /\ pc'[d] = "idle" <=> pc[d] = "idle"
    BY <1>1, QueuePlaces
  <1>3. \A x, y : Before(x, y)' <=> Before(x, y)
    BY <1>1 DEF Before
  <1>4. MadeOnce'
    BY <1>1, <1>2 DEF Queues, MadeOnce
  <1>5. GateQueue'
    <2>1. InOrder(globalLock)'
      BY <1>1, <1>3 DEF Queues, GateQueue, InOrder
    <2>2. \A d \in Calls : pc'[d] = "gsleep" => globalLock[1] = d
      BY <1>1, QueuePlaces DEF Queues, GateQueue
    <2> QED BY <1>1, <1>2, <2>1, <2>2 DEF Queues, GateQueue
  <1>6. RouteQueues'
    <2>1. \A e \in Endpoints : InOrder(routeLock[e])'
      BY <1>1, <1>3 DEF Queues, RouteQueues, InOrder
    <2>2. \A d \in Calls : pc'[d] \in InRetryLoop => routeLock[EndpointOf(d)][1] = d
      BY <1>1, QueuePlaces DEF Queues, RouteQueues
    <2> QED BY <1>1, <1>2, <2>1, <2>2 DEF Queues, RouteQueues
  <1>7. GateBeforeRoute'
    BY <1>2, <1>3 DEF Queues, GateBeforeRoute
  <1> QED BY <1>1, <1>4, <1>5, <1>6, <1>7 DEF Queues, TypeOK, LockTypes

(* The gate opens for the call in front: it is the last of its route.      *)
LEMMA PassQueues ==
    ASSUME TypeOK, Queues, NEW c \in Calls, pc[c] \in AtGate, globalLock[1] = c,
           LocksRoute(c), globalLock' = Tail(globalLock), UNCHANGED <<req, started>>
    PROVE  LockTypes' /\ Queues'
  <1> DEFINE e == EndpointOf(c)
  <1>0. /\ globalLock \in Seq(Calls) /\ started \in Seq(Calls) /\ routeLock \in [Endpoints -> Seq(Calls)]
        /\ pc \in [Calls -> Places] /\ IsInjective(globalLock) /\ IsInjective(started)
        /\ e \in Endpoints
    BY EndpointsOf DEF TypeOK, LockTypes, CallTypes, QueuedOnce, Queues, MadeOnce
  <1> HIDE DEF e
  <1>1. /\ routeLock' = [routeLock EXCEPT ![e] = Append(routeLock[e], c)]
        /\ \/ routeLock[e] = <<>> /\ pc' = [pc EXCEPT ![c] = "wire"]
           \/ routeLock[e] # <<>> /\ pc' = [pc EXCEPT ![c] = "route"]
    BY DEF LocksRoute, Sends, Goto, e
  <1>2. /\ pc'[c] \in {"wire", "route"} /\ \A d \in Calls : d # c => pc'[d] = pc[d]
        /\ \A d \in Calls : EndpointOf(d)' = EndpointOf(d)
        /\ pc'[c] = "wire" => routeLock[e] = <<>>
    BY <1>0, <1>1 DEF EndpointOf
  <1>3. /\ routeLock'[e] = Append(routeLock[e], c)
        /\ \A f \in Endpoints : f # e => routeLock'[f] = routeLock[f]
        /\ routeLock[e] \in Seq(Calls)
    BY <1>0, <1>1
  <1>4. /\ Append(routeLock[e], c) \in Seq(Calls)
        /\ Range(routeLock'[e]) = Range(routeLock[e]) \cup {c}
        /\ routeLock[e] = <<>> => Range(routeLock[e]) = {} /\ routeLock'[e][1] = c
        /\ routeLock[e] # <<>> => routeLock'[e][1] = routeLock[e][1]
    BY <1>3, AppendProps
  <1>5. globalLock # <<>>
    <2>1. c \in Range(globalLock)
      BY DEF Queues, GateQueue
    <2> QED BY <2>1 DEF Range
  <1>6. /\ Tail(globalLock) \in Seq(Calls)
        /\ Range(globalLock') = Range(globalLock) \ {c}
        /\ \A i, j \in DOMAIN Tail(globalLock) : i < j =>
             \E k, l \in DOMAIN globalLock :
                k < l /\ Tail(globalLock)[i] = globalLock[k] /\ Tail(globalLock)[j] = globalLock[l]
        /\ \A x \in Range(globalLock') :
             \E l \in DOMAIN globalLock : 1 \in DOMAIN globalLock /\ 1 < l /\ globalLock[l] = x
    BY SMTT(30), <1>0, <1>5, TailProps
  <1>7. LockTypes'
    <2>1. routeLock' \in [Endpoints -> Seq(Calls)]
      BY <1>0, <1>1, <1>4
    <2> QED BY <1>0, <1>6, <2>1 DEF LockTypes
  <1>8. \A x, y : Before(x, y)' <=> Before(x, y)
    BY DEF Before
  <1>9. MadeOnce'
    BY <1>2, QueuePlaces DEF Queues, MadeOnce
  <1>10. GateQueue'
    <2>1. InOrder(globalLock)'
      <3>1. InOrder(Tail(globalLock))
        BY <1>6, InOrderLess DEF Queues, GateQueue
      <3> QED BY <3>1, <1>8 DEF InOrder
    <2>2. \A d \in Calls : pc'[d] \in AtGate <=> d \in Range(globalLock')
      BY <1>2, <1>6, QueuePlaces DEF Queues, GateQueue
    <2>3. \A d \in Calls : pc'[d] # "gsleep"
      BY <1>2 DEF Queues, GateQueue
    <2> QED BY <2>1, <2>2, <2>3 DEF GateQueue
  <1>11. RouteQueues'
    <2>1. \A x \in Range(routeLock[e]) : Before(x, c)
      <3>1. \A x \in Range(routeLock[e]) : x \in Calls
        BY <1>3 DEF Range
      <3> QED BY <1>0, <3>1 DEF Queues, RouteQueues, GateBeforeRoute
    <2>2. ASSUME NEW f \in Endpoints PROVE InOrder(routeLock[f])'
      <3>1. InOrder(Append(routeLock[e], c))
        BY <1>0, <1>3, <2>1, InOrderAppend DEF Queues, RouteQueues
      <3>2. CASE f = e
        BY <1>3, <1>8, <3>1, <3>2 DEF InOrder
      <3>3. CASE f # e
        BY <1>3, <1>8, <3>3 DEF InOrder, Queues, RouteQueues
      <3> QED BY <3>2, <3>3
    <2>3. ASSUME NEW d \in Calls, NEW f \in Endpoints
          PROVE  (pc'[d] \in AtRoute /\ EndpointOf(d) = f) <=> d \in Range(routeLock'[f])
      <3>1. CASE d = c
        <4>1. pc[c] \notin AtRoute
          BY QueuePlaces
        <4>2. CASE f = e
          BY <1>2, <1>4, <3>1, <4>2, QueuePlaces DEF e
        <4>3. CASE f # e
          BY <1>3, <3>1, <4>1, <4>3 DEF Queues, RouteQueues, e
        <4> QED BY <4>2, <4>3
      <3>2. CASE d # c
        BY ZenonT(40), <1>2, <1>3, <1>4, <3>2 DEF Queues, RouteQueues
      <3> QED BY <3>1, <3>2
    <2>4. ASSUME NEW d \in Calls, pc'[d] \in InRetryLoop
          PROVE  routeLock'[EndpointOf(d)][1] = d
      <3>1. CASE d = c
        BY <1>2, <1>4, <2>4, <3>1, QueuePlaces DEF e
      <3>2. CASE d # c
        <4>1. pc[d] \in InRetryLoop /\ pc[d] \in AtRoute /\ routeLock[EndpointOf(d)][1] = d
          BY <1>2, <2>4, <3>2, QueuePlaces DEF Queues, RouteQueues
        <4>2. EndpointOf(d) \in Endpoints
          BY EndpointsOf DEF TypeOK
        <4>3. d \in Range(routeLock[EndpointOf(d)])
          BY <4>1, <4>2 DEF Queues, RouteQueues
        <4> QED BY <1>3, <1>4, <4>1, <4>2, <4>3
      <3> QED BY <3>1, <3>2
    <2> QED BY <1>2, <2>2, <2>3, <2>4 DEF RouteQueues
  <1>12. GateBeforeRoute'
    <2>1. SUFFICES ASSUME NEW x \in Calls, NEW y \in Calls, pc'[x] \in AtRoute, pc'[y] \in AtGate
                   PROVE  Before(x, y)
      BY <1>8 DEF GateBeforeRoute
    <2>2. y # c /\ pc[y] \in AtGate
      BY <1>2, <2>1, QueuePlaces
    <2>3. CASE x = c
      <3>1. y \in Range(globalLock')
        BY <1>6, <2>2 DEF Queues, GateQueue
      <3>2. PICK l \in DOMAIN globalLock : 1 \in DOMAIN globalLock /\ 1 < l /\ globalLock[l] = y
        BY <1>6, <3>1
      <3> QED BY <2>3, <3>2 DEF Queues, GateQueue, InOrder
    <2>4. CASE x # c
      BY <1>2, <2>1, <2>2, <2>4 DEF Queues, GateBeforeRoute
    <2> QED BY <2>3, <2>4
  <1> QED BY <1>7, <1>9, <1>10, <1>11, <1>12 DEF Queues

(* The call is over: it is in no queue, and the others stand as before.    *)
LEMMA LeaveQueues ==
    ASSUME TypeOK, Queues, NEW c \in Calls, NEW r, pc[c] # "idle", Leave(c, r),
           UNCHANGED <<req, started>>
    PROVE  LockTypes' /\ Queues'
  <1> DEFINE e == EndpointOf(c)
  <1>0. /\ globalLock \in Seq(Calls) /\ started \in Seq(Calls) /\ routeLock \in [Endpoints -> Seq(Calls)]
        /\ pc \in [Calls -> Places] /\ IsInjective(globalLock) /\ IsInjective(routeLock[e])
        /\ e \in Endpoints
    BY EndpointsOf DEF TypeOK, LockTypes, CallTypes, QueuedOnce
  <1> HIDE DEF e
  <1>1. /\ pc' = [pc EXCEPT ![c] = "over"]
        /\ globalLock' = RemoveFirst(globalLock, c)
        /\ routeLock' = [routeLock EXCEPT ![e] = RemoveFirst(routeLock[e], c)]
    BY DEF Leave, Goto, e
  <1>2. /\ pc'[c] = "over" /\ \A d \in Calls : d # c => pc'[d] = pc[d]
        /\ \A d \in Calls : EndpointOf(d)' = EndpointOf(d)
    BY <1>0, <1>1 DEF EndpointOf
  <1>3. /\ routeLock'[e] = RemoveFirst(routeLock[e], c)
        /\ \A f \in Endpoints : f # e => routeLock'[f] = routeLock[f]
        /\ routeLock[e] \in Seq(Calls)
    BY <1>0, <1>1
  <1> DEFINE Kept(p, q) ==
        \A i, j \in DOMAIN p : i < j => \E k, l \in DOMAIN q : k < l /\ p[i] = q[k] /\ p[j] = q[l]
  <1>4. /\ globalLock' \in Seq(Calls)
        /\ Range(globalLock') = Range(globalLock) \ {c}
        /\ Kept(RemoveFirst(globalLock, c), globalLock)
        /\ globalLock # <<>> /\ globalLock[1] # c => globalLock'[1] = globalLock[1]
    BY <1>0, <1>1, RemoveFirstProps
  <1>5. /\ RemoveFirst(routeLock[e], c) \in Seq(Calls)
        /\ Range(routeLock'[e]) = Range(routeLock[e]) \ {c}
        /\ Kept(RemoveFirst(routeLock[e], c), routeLock[e])
        /\ routeLock[e] # <<>> /\ routeLock[e][1] # c => routeLock'[e][1] = routeLock[e][1]
    BY <1>0, <1>3, RemoveFirstProps
  <1>6. LockTypes'
    <2>1. routeLock' \in [Endpoints -> Seq(Calls)]
      BY <1>0, <1>1, <1>5
    <2> QED BY <1>0, <1>4, <2>1 DEF LockTypes
  <1>7. \A x, y : Before(x, y)' <=> Before(x, y)
    BY DEF Before
  <1>8. MadeOnce'
    BY <1>2 DEF Queues, MadeOnce
  <1>9. GateQueue'
    <2>1. InOrder(globalLock)'
      <3>1. InOrder(RemoveFirst(globalLock, c))
        BY <1>4, InOrderLess DEF Queues, GateQueue
      <3> QED BY <1>1, <1>7, <3>1 DEF InOrder
    <2>2. \A d \in Calls : pc'[d] \in AtGate <=> d \in Range(globalLock')
      BY <1>2, <1>4, QueuePlaces DEF Queues, GateQueue
    <2>3. ASSUME NEW d \in Calls, pc'[d] = "gsleep" PROVE globalLock'[1] = d
      <3>1. d # c /\ pc[d] = "gsleep" /\ globalLock[1] = d
        BY <1>2, <2>3 DEF Queues, GateQueue
      <3>2. d \in Range(globalLock)
        BY <3>1, QueuePlaces DEF Queues, GateQueue
      <3>3. globalLock # <<>>
        BY <3>2 DEF Range
      <3> QED BY <1>4, <3>1, <3>3
    <2> QED BY <2>1, <2>2, <2>3 DEF GateQueue
  <1>10. RouteQueues'
    <2>1. ASSUME NEW f \in Endpoints PROVE InOrder(routeLock[f])'
      <3>1. InOrder(RemoveFirst(routeLock[e], c))
        BY <1>0, <1>5, InOrderLess DEF Queues, RouteQueues
      <3>2. CASE f = e
        BY <1>3, <1>7, <3>1, <3>2 DEF InOrder
      <3>3. CASE f # e
        BY <1>3, <1>7, <3>3 DEF InOrder, Queues, RouteQueues
      <3> QED BY <3>2, <3>3
    <2>2. ASSUME NEW d \in Calls, NEW f \in Endpoints
          PROVE  (pc'[d] \in AtRoute /\ EndpointOf(d) = f) <=> d \in Range(routeLock'[f])
      <3>1. CASE d = c
        <4>1. pc'[d] \notin AtRoute
          BY <1>2, <3>1, QueuePlaces
        <4>2. c \notin Range(routeLock'[f])
          <5>1. CASE f = e
            BY <1>5, <5>1
          <5>2. CASE f # e
            BY <1>3, <5>2 DEF Queues, RouteQueues, e
          <5> QED BY <5>1, <5>2
        <4> QED BY <3>1, <4>1, <4>2
      <3>2. CASE d # c
        BY <1>2, <1>3, <1>5, <3>2 DEF Queues, RouteQueues
      <3> QED BY <3>1, <3>2
    <2>3. ASSUME NEW d \in Calls, pc'[d] \in InRetryLoop
          PROVE  routeLock'[EndpointOf(d)][1] = d
      <3>1. d # c /\ pc[d] \in InRetryLoop /\ pc[d] \in AtRoute /\ routeLock[EndpointOf(d)][1] = d
        BY <1>2, <2>3, QueuePlaces DEF Queues, RouteQueues
      <3>2. EndpointOf(d) \in Endpoints
        BY EndpointsOf DEF TypeOK
      <3>3. d \in Range(routeLock[EndpointOf(d)])
        BY <3>1, <3>2 DEF Queues, RouteQueues
      <3>4. routeLock[EndpointOf(d)] # <<>>
        BY <3>3 DEF Range
      <3> QED BY <1>3, <1>5, <3>1, <3>2, <3>4
    <2> QED BY <1>2, <2>1, <2>2, <2>3 DEF RouteQueues
  <1>11. GateBeforeRoute'
    BY <1>2, <1>7, QueuePlaces DEF Queues, GateBeforeRoute
  <1> QED BY <1>6, <1>8, <1>9, <1>10, <1>11 DEF Queues

(* Queues in order hold no call twice.                                     *)
LEMMA OrderedQueues == LockTypes /\ Queues => QueuedOnce
  BY OrderedOnce DEF LockTypes, Queues, MadeOnce, GateQueue, RouteQueues, QueuedOnce

(* Every step keeps the queues.                                            *)
LEMMA StepQueues ==
    ASSUME TypeOK, Queues, [Next]_vars
    PROVE  LockTypes' /\ Queues' /\ QueuedOnce'
  <1>1. ASSUME NEW c \in Calls, NEW p \in InRetryLoop, Goto(c, p), UNCHANGED <<req, locks, started>>,
               pc[c] \in InRetryLoop
        PROVE  LockTypes' /\ Queues'
    <2>1. pc[c] \in AtRoute /\ routeLock[EndpointOf(c)][1] = c
      BY <1>1, QueuePlaces DEF Queues, RouteQueues
    <2> QED BY <1>1, <2>1, StayQueues DEF Goto
  <1>2. ASSUME NEW c \in Calls, Task(c) PROVE LockTypes' /\ Queues'
    <2>1. ASSUME pc[c] \in AtGate PROVE globalLock # <<>> /\ Head(globalLock) = globalLock[1]
      <3>1. c \in Range(globalLock)
        BY <2>1 DEF Queues, GateQueue
      <3>2. globalLock # <<>>
        BY <3>1 DEF Range
      <3> QED BY <3>2 DEF TypeOK, LockTypes
    <2>2. CASE wait_for_global(c)
      <3>1. pc[c] \in AtGate /\ globalLock[1] = c
        BY <2>1, <2>2, QueuePlaces DEF wait_for_global
      <3>2. CASE globalIn = 0
        BY <2>2, <3>1, <3>2, PassQueues DEF wait_for_global
      <3>3. CASE globalIn # 0
        <4>1. pc' = [pc EXCEPT ![c] = "gsleep"] /\ UNCHANGED <<req, locks, started>>
          BY <2>2, <3>3 DEF wait_for_global, Sleep, Goto
        <4> QED BY <3>1, <4>1, StayQueues
      <3> QED BY <3>2, <3>3
    <2>3. CASE GlobalSleepEnds(c)
      <3>1. pc[c] \in AtGate /\ globalLock[1] = c
        BY <2>3, QueuePlaces DEF GlobalSleepEnds, Queues, GateQueue
      <3> QED BY <2>3, <3>1, PassQueues DEF GlobalSleepEnds
    <2>4. CASE get_route_lock(c)
      <3>1. pc[c] \in AtRoute /\ EndpointOf(c) \in Endpoints
        BY <2>4, QueuePlaces, EndpointsOf DEF get_route_lock, TypeOK
      <3>2. c \in Range(routeLock[EndpointOf(c)])
        BY <3>1 DEF Queues, RouteQueues
      <3>3. routeLock[EndpointOf(c)] # <<>> /\ routeLock[EndpointOf(c)] \in Seq(Calls)
        BY <3>1, <3>2 DEF Range, TypeOK, LockTypes
      <3>4. routeLock[EndpointOf(c)][1] = c
        BY <2>4, <3>3 DEF get_route_lock
      <3>5. pc' = [pc EXCEPT ![c] = "wire"] /\ UNCHANGED <<req, locks, started>>
        BY <2>4 DEF get_route_lock, Sends, Goto
      <3> QED BY <3>1, <3>4, <3>5, StayQueues, QueuePlaces
    <2>5. CASE _check_rate_limit(c)
      BY <1>1, <2>5, QueuePlaces DEF _check_rate_limit, Sleep
    <2>6. CASE Respond(c)
      <3>1. pc[c] = "reset" /\ UNCHANGED <<req, started>>
        BY <2>6 DEF Respond
      <3>2. BacksOff(c) \/ \E r : Leave(c, r)
        BY <2>6 DEF Respond
      <3>3. CASE BacksOff(c)
        BY <1>1, <3>1, <3>3, QueuePlaces DEF BacksOff, Sleep
      <3> QED BY <3>1, <3>2, <3>3, LeaveQueues
    <2>7. CASE BackoffEnds(c)
      BY <1>1, <2>7, QueuePlaces DEF BackoffEnds, Sends
    <2> QED BY <1>2, <2>2, <2>3, <2>4, <2>5, <2>6, <2>7 DEF Task
  <1>3. ASSUME NEW c \in Calls, Discord(c) PROVE LockTypes' /\ Queues'
    <2>1. pc[c] = "wire" /\ Goto(c, "resp") /\ UNCHANGED <<req, locks, started>>
      BY <1>3 DEF Discord, SrvServes, SrvLimits, SrvGlobal, Answer
    <2> QED BY <1>1, <2>1, QueuePlaces
  <1>4. ASSUME NEW c \in Calls, RequestFails(c) PROVE LockTypes' /\ Queues'
    <2>1. pc[c] \in {"wire", "resp", "reset"} /\ UNCHANGED <<req, started>>
      BY <1>4 DEF RequestFails
    <2>2. BacksOff(c) \/ \E r : Leave(c, r)
      BY <1>4 DEF RequestFails
    <2>3. CASE BacksOff(c)
      BY <1>1, <2>1, <2>3, QueuePlaces DEF BacksOff, Sleep
    <2> QED BY <2>1, <2>2, <2>3, LeaveQueues
  <1>5. ASSUME NEW c \in Calls, Cancelled(c) PROVE LockTypes' /\ Queues'
    <2>1. pc[c] # "idle" /\ Leave(c, "cancelled") /\ UNCHANGED <<req, started>>
      BY <1>5 DEF Cancelled
    <2> QED BY <2>1, LeaveQueues
  <1>6. ASSUME Tick \/ UNCHANGED vars PROVE LockTypes' /\ Queues'
    <2>1. UNCHANGED <<pc, req, globalLock, routeLock, started>>
      BY <1>6 DEF Tick, vars, locks
    <2>2. (\A x, y : Before(x, y)' <=> Before(x, y)) /\ \A d \in Calls : EndpointOf(d)' = EndpointOf(d)
      BY <2>1 DEF Before, EndpointOf
    <2>3. LockTypes' /\ MadeOnce'
      BY <2>1 DEF TypeOK, LockTypes, Queues, MadeOnce
    <2>4. GateQueue'
      BY <2>1, <2>2 DEF Queues, GateQueue, InOrder
    <2>5. RouteQueues'
      <3>1. \A e \in Endpoints : InOrder(routeLock[e])'
        BY <2>1, <2>2 DEF Queues, RouteQueues, InOrder
      <3> QED BY <2>1, <2>2, <3>1 DEF Queues, RouteQueues
    <2>6. GateBeforeRoute'
      BY <2>1, <2>2 DEF Queues, GateBeforeRoute
    <2> QED BY <2>3, <2>4, <2>5, <2>6 DEF Queues
  <1>7. LockTypes' /\ Queues'
    BY <1>2, <1>3, <1>4, <1>5, <1>6, CallQueues DEF Next
  <1>8. QueuedOnce'
    <2>1. (LockTypes /\ Queues => QueuedOnce)'
      BY OrderedQueues, PTL
    <2> QED BY <1>7, <2>1
  <1> QED BY <1>7, <1>8

-----------------------------------------------------------------------------
(* Type correctness.                                                       *)

(* Timers and Discord's windows keep their shape.                          *)
LEMMA TimeTypes ==
    /\ \A t \in Nat : Elapsed(t) \in Nat /\ Elapsed(t) <= t
    /\ \A w \in Windows : /\ Aged(w) \in Windows
                          /\ Admits(w) => Consumed(w) \in Windows
  <1>1. \A t \in Nat : Elapsed(t) \in Nat /\ Elapsed(t) <= t
    BY DEF Elapsed
  <1>2. \A w \in Windows : Aged(w) \in Windows
    BY BucketAssumption DEF Aged, Windows, Elapsed
  <1>3. ASSUME NEW w \in Windows, Admits(w) PROVE Consumed(w) \in Windows
    <2>1. Opened(w) \in Windows
      BY BucketAssumption DEF Opened, Windows
    <2> QED BY <1>3, <2>1, BucketAssumption DEF Admits, Consumed, Windows
  <1> QED BY <1>1, <1>2, <1>3

(* A response keeps its shape when a field of it is set.                   *)
LEMMA RespFields ==
    /\ \A m \in Resps, s \in Statuses : [m EXCEPT !.status = s] \in Resps
    /\ \A m \in Resps, n \in 0 .. Limit : [m EXCEPT !.remaining = n] \in Resps
    /\ \A m \in Resps, a \in 0 .. Window : [m EXCEPT !.after = a] \in Resps
    /\ \A m \in Resps : [m EXCEPT !.global = TRUE] \in Resps
    /\ \A m \in Resps, g \in 0 .. GlobalWindow : [m EXCEPT !.reset = g] \in Resps
  BY Zenon DEF Resps

LEMMA ServedTypes ==
    ASSUME NEW s \in Statuses, NEW n \in 0 .. Limit, NEW a \in 0 .. Window
    PROVE  [NoResp EXCEPT !.status = s, !.remaining = n, !.after = a] \in Resps
  <1>0. s \in Statuses /\ NoResp \in Resps
    BY BucketAssumption, RestAssumption DEF Statuses, Resps, NoResp
  <1>1. [NoResp EXCEPT !.status = s] \in Resps
    <2>1. \A m \in Resps, x \in Statuses : [m EXCEPT !.status = x] \in Resps
      BY RespFields
    <2> QED BY Zenon, <1>0, <2>1
  <1>2. [NoResp EXCEPT !.status = s, !.remaining = n] \in Resps
    BY Zenon, <1>1, RespFields
  <1> QED BY Zenon, <1>2, RespFields

(* What Discord answers is a response, and what a call ends with a result. *)
LEMMA ResponseTypes ==
    /\ NoResp \in Resps
    /\ \A a \in 0 .. Window : [NoResp EXCEPT !.status = 429, !.after = a] \in Resps
    /\ \A g \in 0 .. GlobalWindow :
         [NoResp EXCEPT !.status = 429, !.global = TRUE, !.reset = g] \in Resps
    /\ \A m \in Resps : create_discord_error(m.status) \in Results
    /\ {"ok", "network", "cancelled"} \subseteq Results
    /\ \A m \in Resps : ResetDelay(m) \in Nat
  <1>0. Limit \in Nat /\ Window \in Nat /\ GlobalWindow \in Nat
    BY BucketAssumption, RestAssumption
  <1>1. NoResp \in Resps
    BY <1>0 DEF Resps, Statuses, NoResp
  <1>3. \A m \in Resps, s \in Statuses : [m EXCEPT !.status = s] \in Resps
    BY RespFields
  <1>4. /\ \A a \in 0 .. Window : [NoResp EXCEPT !.status = 429, !.after = a] \in Resps
        /\ \A g \in 0 .. GlobalWindow :
             [NoResp EXCEPT !.status = 429, !.global = TRUE, !.reset = g] \in Resps
    <2>2. [NoResp EXCEPT !.status = 429] \in Resps
      <3>1. 429 \in Statuses
        BY DEF Statuses
      <3> QED BY Zenon, <1>1, <1>3, <3>1
    <2>3. \A a \in 0 .. Window : [NoResp EXCEPT !.status = 429, !.after = a] \in Resps
      BY ZenonT(40), <2>2, RespFields
    <2>4. [NoResp EXCEPT !.status = 429, !.global = TRUE] \in Resps
      BY ZenonT(40), <2>2, RespFields
    <2>5. \A g \in 0 .. GlobalWindow :
            [NoResp EXCEPT !.status = 429, !.global = TRUE, !.reset = g] \in Resps
      BY ZenonT(40), <2>4, RespFields
    <2> QED BY Zenon, <2>3, <2>5
  <1>5. /\ \A m \in Resps : create_discord_error(m.status) \in Results
        /\ {"ok", "network", "cancelled"} \subseteq Results
    BY DEF Resps, Results
  <1>6. \A m \in Resps : ResetDelay(m) \in Nat
    BY <1>0 DEF Resps, ResetDelay
  <1> QED BY <1>1, <1>4, <1>5, <1>6

(* Every step keeps the types of what belongs to a call and of the         *)
(* windows, and a retry is never one too many.                             *)
LEMMA StepTypes ==
    ASSUME TypeOK, RetriesLeft, [Next]_vars
    PROVE  CallTypes' /\ WindowTypes' /\ RetriesLeft'
  <1> USE DEF TypeOK
  <1>1. ASSUME NEW c \in Calls, NEW p \in Places, Goto(c, p) PROVE pc' \in [Calls -> Places]
    BY <1>1 DEF Goto, CallTypes
  <1>2. ASSUME NEW c \in Calls, NEW p, p # "backoff", Goto(c, p), UNCHANGED attempt PROVE RetriesLeft'
    BY <1>2 DEF Goto, CallTypes, RetriesLeft
  <1>3. ASSUME Fault PROVE faults' \in 0 .. MaxFaults
    BY <1>3, RestAssumption DEF Fault, WindowTypes
  <1>4. ASSUME NEW c \in Calls, NEW r \in Results, Leave(c, r), UNCHANGED <<req, attempt, sleepIn>>
        PROVE  CallTypes' /\ RetriesLeft'
    <2>1. Goto(c, "over") /\ resp' \in [Calls -> Resps] /\ result' \in [Calls -> Results]
      BY <1>4, ResponseTypes DEF Leave, CallTypes
    <2>2. pc' \in [Calls -> Places]
      BY <1>1, <2>1 DEF Places
    <2> QED BY <1>2, <1>4, <2>1, <2>2 DEF CallTypes
  <1>5. ASSUME NEW c \in Calls, BacksOff(c), should_retry(attempt[c]), UNCHANGED <<req, attempt>>
        PROVE  CallTypes' /\ RetriesLeft'
    <2>1. delay_for(attempt[c]) \in Nat
      BY PowersOfTwo DEF delay_for, CallTypes
    <2>2. /\ pc' = [pc EXCEPT ![c] = "backoff"] /\ sleepIn' \in [Calls -> Nat]
          /\ resp' \in [Calls -> Resps] /\ UNCHANGED result
      BY <1>5, <2>1, ResponseTypes DEF BacksOff, Sleep, Goto, CallTypes
    <2>3. CallTypes'
      BY <1>5, <2>2 DEF CallTypes, Places
    <2>4. RetriesLeft'
      BY <1>5, <2>2 DEF RetriesLeft, should_retry, CallTypes
    <2> QED BY <2>3, <2>4
  <1>6. ASSUME NEW c \in Calls, Sends(c) PROVE blind' \in [Buckets -> BOOLEAN]
    BY <1>6, Zenon DEF Sends, WindowTypes
  <1>7. ASSUME NEW c \in Calls, LocksRoute(c), UNCHANGED <<req, attempt, sleepIn, resp, result>>
        PROVE  CallTypes' /\ RetriesLeft' /\ blind' \in [Buckets -> BOOLEAN]
    <2>1. \/ Goto(c, "wire") /\ Sends(c)
          \/ Goto(c, "route") /\ UNCHANGED blind
      BY <1>7 DEF LocksRoute, Sends
    <2>2. pc' \in [Calls -> Places] /\ RetriesLeft'
      BY <1>1, <1>2, <1>7, <2>1 DEF Places
    <2>3. blind' \in [Buckets -> BOOLEAN]
      BY <1>6, <2>1 DEF WindowTypes
    <2> QED BY <1>7, <2>2, <2>3 DEF CallTypes
  <1>8. ASSUME NEW c \in Calls, Call(c) PROVE CallTypes' /\ WindowTypes' /\ RetriesLeft'
    <2>1. pc' \in [Calls -> Places] /\ RetriesLeft'
      BY <1>1, <1>2, <1>8 DEF Call, Places
    <2> QED BY <1>8, <2>1 DEF Call, CallTypes, WindowTypes
  <1>9. ASSUME NEW c \in Calls, wait_for_global(c) PROVE CallTypes' /\ WindowTypes' /\ RetriesLeft'
    <2>1. CASE LocksRoute(c) /\ UNCHANGED sleepIn
      BY <1>7, <1>9, <2>1 DEF wait_for_global, WindowTypes
    <2>2. CASE Sleep(c, "gsleep", globalIn) /\ UNCHANGED blind
      <3>1. pc' \in [Calls -> Places] /\ RetriesLeft'
        BY <1>1, <1>2, <1>9, <2>2 DEF wait_for_global, Sleep, Places
      <3>2. sleepIn' \in [Calls -> Nat]
        BY <2>2, RestAssumption DEF Sleep, CallTypes, WindowTypes
      <3> QED BY <1>9, <2>2, <3>1, <3>2 DEF wait_for_global, CallTypes, WindowTypes
    <2> QED BY <1>9, <2>1, <2>2 DEF wait_for_global
  <1>10. ASSUME NEW c \in Calls, GlobalSleepEnds(c) PROVE CallTypes' /\ WindowTypes' /\ RetriesLeft'
    BY <1>7, <1>10 DEF GlobalSleepEnds, WindowTypes
  <1>11. ASSUME NEW c \in Calls, get_route_lock(c) PROVE CallTypes' /\ WindowTypes' /\ RetriesLeft'
    <2>1. pc' \in [Calls -> Places] /\ RetriesLeft' /\ blind' \in [Buckets -> BOOLEAN]
      BY <1>1, <1>2, <1>6, <1>11 DEF get_route_lock, Sends, Places
    <2> QED BY <1>11, <2>1 DEF get_route_lock, CallTypes, WindowTypes
  <1>12. ASSUME NEW c \in Calls, _check_rate_limit(c) PROVE CallTypes' /\ WindowTypes' /\ RetriesLeft'
    <2>1. pc' \in [Calls -> Places] /\ RetriesLeft'
      BY <1>1, <1>2, <1>12 DEF _check_rate_limit, Sleep, Places
    <2>2. resp[c] \in Resps
      BY DEF CallTypes
    <2>3. sleepIn' \in [Calls -> Nat]
      BY <1>12, <2>2, ResponseTypes DEF _check_rate_limit, Sleep, CallTypes
    <2>4. globalIn' \in 0 .. GlobalWindow
      BY <1>12, <2>2 DEF _check_rate_limit, Resps, WindowTypes
    <2> QED BY <1>12, <2>1, <2>3, <2>4 DEF _check_rate_limit, CallTypes, WindowTypes
  <1>13. ASSUME NEW c \in Calls, Respond(c) PROVE CallTypes' /\ WindowTypes' /\ RetriesLeft'
    <2>1. create_discord_error(resp[c].status) \in Results /\ "ok" \in Results
      BY ResponseTypes DEF CallTypes
    <2>2. CallTypes' /\ RetriesLeft'
      BY <1>4, <1>5, <1>13, <2>1 DEF Respond
    <2> QED BY <1>13, <2>2 DEF Respond, WindowTypes
  <1>14. ASSUME NEW c \in Calls, BackoffEnds(c) PROVE CallTypes' /\ WindowTypes' /\ RetriesLeft'
    <2>1. pc' \in [Calls -> Places] /\ blind' \in [Buckets -> BOOLEAN]
      BY <1>1, <1>6, <1>14 DEF BackoffEnds, Sends, Places
    <2>2. attempt' \in [Calls -> 1 .. MaxRetries]
      BY <1>14, RestAssumption DEF BackoffEnds, RetriesLeft, CallTypes
    <2>3. RetriesLeft'
      BY <1>14 DEF BackoffEnds, Sends, Goto, RetriesLeft, CallTypes
    <2> QED BY <1>14, <2>1, <2>2, <2>3 DEF BackoffEnds, CallTypes, WindowTypes
  <1>15. ASSUME NEW c \in Calls, NEW m \in Resps, Answer(c, m),
                UNCHANGED <<req, attempt, sleepIn, result>>
         PROVE  CallTypes' /\ RetriesLeft'
    <2>1. pc' \in [Calls -> Places] /\ RetriesLeft'
      BY <1>1, <1>2, <1>15 DEF Answer, Places
    <2>2. resp' \in [Calls -> Resps]
      BY <1>15 DEF Answer, CallTypes
    <2> QED BY <1>15, <2>1, <2>2 DEF CallTypes
  <1>16. ASSUME NEW c \in Calls, NEW s \in {200, 400, 500}, NEW h \in BOOLEAN, SrvServes(c, s, h)
         PROVE  CallTypes' /\ WindowTypes' /\ RetriesLeft'
    <2> DEFINE w == Consumed(srv[Bucket(c)])
               n == IF h THEN w.left ELSE 0
               a == IF h THEN w.windowIn ELSE 0
               m == [NoResp EXCEPT !.status = s, !.remaining = n, !.after = a]
    <2>1. w \in Windows
      BY <1>16, EndpointsOf, TimeTypes DEF SrvServes, WindowTypes
    <2>2. srv' = [srv EXCEPT ![Bucket(c)] = w] /\ Answer(c, m)
      BY <1>16 DEF SrvServes
    <2> HIDE DEF w
    <2>3. m \in Resps
      <3>1. n \in 0 .. Limit /\ a \in 0 .. Window
        BY <2>1, BucketAssumption DEF Windows
      <3> HIDE DEF n, a
      <3>2. s \in Statuses
        BY <1>16 DEF Statuses
      <3> QED BY <3>1, <3>2, ServedTypes, Zenon
    <2> HIDE DEF m
    <2>4. CallTypes' /\ RetriesLeft'
      BY <1>15, <1>16, <2>2, <2>3 DEF SrvServes
    <2>5. srv' \in [Buckets -> Windows]
      BY <2>1, <2>2 DEF WindowTypes
    <2>6. faults' \in 0 .. MaxFaults
      BY <1>3, <1>16 DEF SrvServes, WindowTypes
    <2>7. blind' \in [Buckets -> BOOLEAN]
      BY <1>16, Zenon DEF SrvServes, WindowTypes
    <2> QED BY <1>16, <2>4, <2>5, <2>6, <2>7 DEF SrvServes, WindowTypes
  <1>17. ASSUME NEW c \in Calls, SrvLimits(c) PROVE CallTypes' /\ WindowTypes' /\ RetriesLeft'
    <2>1. srv[Bucket(c)].windowIn \in 0 .. Window
      BY EndpointsOf DEF WindowTypes, Windows
    <2> DEFINE m == [NoResp EXCEPT !.status = 429, !.after = srv[Bucket(c)].windowIn]
    <2>2. m \in Resps
      BY ZenonT(40), <2>1, ResponseTypes
    <2>3. Answer(c, m) /\ UNCHANGED <<req, attempt, sleepIn, result, globalIn, srv, faults, blind>>
      BY <1>17 DEF SrvLimits
    <2> HIDE DEF m
    <2>4. CallTypes' /\ RetriesLeft'
      BY <1>15, <2>2, <2>3
    <2> QED BY <2>3, <2>4 DEF WindowTypes
  <1>18. ASSUME NEW c \in Calls, NEW g \in 0 .. GlobalWindow, SrvGlobal(c, g)
         PROVE  CallTypes' /\ WindowTypes' /\ RetriesLeft'
    <2> DEFINE m == [NoResp EXCEPT !.status = 429, !.global = TRUE, !.reset = g]
    <2>1. m \in Resps
      BY <1>18, ResponseTypes
    <2>2. Answer(c, m) /\ Fault /\ UNCHANGED <<req, attempt, sleepIn, result, globalIn, srv, blind>>
      BY <1>18 DEF SrvGlobal
    <2> HIDE DEF m
    <2>3. CallTypes' /\ RetriesLeft'
      BY <1>15, <2>1, <2>2
    <2> QED BY <1>3, <2>2, <2>3 DEF WindowTypes
  <1>19. ASSUME NEW c \in Calls, RequestFails(c) PROVE CallTypes' /\ WindowTypes' /\ RetriesLeft'
    <2>1. CallTypes' /\ RetriesLeft'
      BY <1>4, <1>5, <1>19, ResponseTypes DEF RequestFails
    <2>2. blind' \in [Buckets -> BOOLEAN]
      BY <1>19, Zenon DEF RequestFails, WindowTypes
    <2> QED BY <1>3, <1>19, <2>1, <2>2 DEF RequestFails, WindowTypes
  <1>20. ASSUME NEW c \in Calls, Cancelled(c) PROVE CallTypes' /\ WindowTypes' /\ RetriesLeft'
    <2>1. CallTypes' /\ RetriesLeft'
      BY <1>4, <1>20, ResponseTypes DEF Cancelled
    <2>2. blind' \in [Buckets -> BOOLEAN]
      BY <1>20, Zenon DEF Cancelled, WindowTypes
    <2> QED BY <1>3, <1>20, <2>1, <2>2 DEF Cancelled, WindowTypes
  <1>21. ASSUME Tick PROVE CallTypes' /\ WindowTypes' /\ RetriesLeft'
    <2>1. sleepIn' \in [Calls -> Nat] /\ globalIn' \in 0 .. GlobalWindow /\ srv' \in [Buckets -> Windows]
      <3>1. sleepIn' \in [Calls -> Nat]
        BY <1>21, TimeTypes DEF Tick, CallTypes
      <3>2. globalIn' \in 0 .. GlobalWindow
        BY <1>21, RestAssumption DEF Tick, WindowTypes, Elapsed
      <3>3. srv' \in [Buckets -> Windows]
        BY <1>21, TimeTypes DEF Tick, WindowTypes
      <3> QED BY <3>1, <3>2, <3>3
    <2> QED BY <1>21, <2>1 DEF Tick, CallTypes, WindowTypes, RetriesLeft
  <1>22. CASE UNCHANGED vars
    BY <1>22 DEF vars, CallTypes, WindowTypes, RetriesLeft
  <1> QED BY <1>8, <1>9, <1>10, <1>11, <1>12, <1>13, <1>14, <1>16, <1>17, <1>18, <1>19, <1>20, <1>21, <1>22
      DEF Next, Task, Discord

(* The strengthening of TypeOK: the queues of both locks and the retries   *)
(* left (QueueInv).                                                        *)
THEOREM TypeCorrect == Spec => [](TypeOK /\ QueueInv)
  <1>1. Init => TypeOK /\ QueueInv
    <2> SUFFICES ASSUME Init PROVE TypeOK /\ QueueInv
      OBVIOUS
    <2>1. CallTypes
      <3>1. 1 \in 1 .. MaxRetries /\ NoResp \in Resps /\ "none" \in Results /\ "idle" \in Places
        <4>1. 1 \in 1 .. MaxRetries
          BY RestAssumption
        <4>2. NoResp \in Resps
          BY ResponseTypes
        <4>3. "none" \in Results /\ "idle" \in Places
          BY DEF Places, Results
        <4> QED BY <4>1, <4>2, <4>3
      <3> QED BY <3>1 DEF Init, CallTypes
    <2>2. LockTypes /\ globalLock = <<>> /\ started = <<>> /\ \A e \in Endpoints : routeLock[e] = <<>>
      BY DEF Init, LockTypes
    <2>3. WindowTypes
      BY RestAssumption, BucketAssumption DEF Init, WindowTypes, Windows, NoWindow
    <2>4. /\ IsInjective(<<>>) /\ Range(<<>>) = {} /\ InOrder(<<>>)
      BY DEF IsInjective, Range, InOrder
    <2>5. pc = [c \in Calls |-> "idle"]
      BY DEF Init
    <2>6. Queues
      BY <2>2, <2>4, <2>5, QueuePlaces
      DEF Queues, MadeOnce, GateQueue, RouteQueues, GateBeforeRoute
    <2> QED BY <2>1, <2>2, <2>3, <2>5, <2>6, OrderedQueues DEF TypeOK, QueueInv, RetriesLeft
  <1>2. TypeOK /\ QueueInv /\ [Next]_vars => (TypeOK /\ QueueInv)'
    BY StepQueues, StepTypes DEF TypeOK, QueueInv
  <1> QED BY <1>1, <1>2, PTL DEF Spec

-----------------------------------------------------------------------------
(* The order of the calls of an endpoint.                                  *)

(* A call made earlier is at the gate behind nobody of its endpoint that   *)
(* is past it, and behind nobody at the route.                             *)
LEMMA QueuesOrder == TypeOK /\ Queues => SentInOrder
  <1> SUFFICES ASSUME TypeOK, Queues, NEW i \in DOMAIN started, NEW j \in DOMAIN started, i < j,
                      EndpointOf(started[i]) = EndpointOf(started[j]),
                      pc[started[j]] \in InRetryLoop, pc[started[i]] # "over"
               PROVE  FALSE
    BY DEF SentInOrder
  <1> DEFINE c == started[i]
             d == started[j]
  <1>1. c \in Calls /\ d \in Calls /\ started \in Seq(Calls) /\ IsInjective(started)
    BY DEF TypeOK, LockTypes, Queues, MadeOnce
  <1>2. Before(c, d)
    BY DEF Before
  <1>3. pc[c] # "idle" /\ pc[c] \in Places
    BY <1>1 DEF Queues, MadeOnce, Range, TypeOK, CallTypes
  <1>4. c \in Range(started)
    BY DEF Range
  <1> HIDE DEF c, d
  <1>5. pc[d] \in InRetryLoop /\ EndpointOf(c) = EndpointOf(d) /\ pc[c] # "over"
    BY DEF c, d
  <1>6. pc[c] \in AtGate \/ pc[c] \in AtRoute
    BY <1>3, <1>5, QueuePlaces DEF Places
  <1>7. CASE pc[c] \in AtGate
    <2>1. Before(d, c)
      BY <1>1, <1>5, <1>7, QueuePlaces DEF Queues, GateBeforeRoute
    <2> QED BY <1>1, <1>2, <2>1, BeforeIsOrder
  <1>8. CASE pc[c] \in AtRoute
    <2> DEFINE q == routeLock[EndpointOf(d)]
    <2>1. EndpointOf(d) \in Endpoints
      BY <1>1, EndpointsOf DEF TypeOK
    <2>2. c \in Range(q) /\ q \in Seq(Calls) /\ q[1] = d /\ InOrder(q)
      BY <1>1, <1>5, <1>8, <2>1 DEF Queues, RouteQueues, TypeOK, LockTypes
    <2>3. PICK k \in DOMAIN q : q[k] = c
      BY <2>2 DEF Range
    <2> HIDE DEF q
    <2>4. k = 1 \/ (1 < k /\ 1 \in DOMAIN q)
      BY <2>2, <2>3
    <2>5. CASE k = 1
      BY <1>1, <1>2, <2>2, <2>3, <2>5, BeforeIsOrder
    <2>6. CASE 1 < k /\ 1 \in DOMAIN q
      <3>1. Before(d, c)
        BY <2>2, <2>3, <2>6 DEF InOrder
      <3> QED BY <1>1, <1>2, <3>1, BeforeIsOrder
    <2> QED BY <2>4, <2>5, <2>6
  <1> QED BY <1>6, <1>7, <1>8

(* Calls for one endpoint are sent in the order they were made.            *)
THEOREM CallOrder == Spec => []CallOrderKept
  <1>1. TypeOK /\ QueueInv => CallOrderKept
    BY QueuesOrder DEF CallOrderKept, QueueInv
  <1> QED BY <1>1, TypeCorrect, PTL

-----------------------------------------------------------------------------
(* Discord's window.                                                       *)

Out == {"wire", "resp", "reset"}

(* What WindowInv says of one call that is out.                            *)
InWindow(c) ==
    \/ pc[c] = "wire" /\ HasRoom(srv[Bucket(c)])
    \/ pc[c] = "resp" /\ (HasRoom(srv[Bucket(c)]) \/ srv[Bucket(c)].windowIn <= ResetDelay(resp[c]))
    \/ pc[c] = "reset" /\ (HasRoom(srv[Bucket(c)]) \/ srv[Bucket(c)].windowIn <= sleepIn[c])

(* WindowInv, call by call.                                                *)
CallsInWindow ==
    /\ \A c, d \in Calls :
         /\ ~blind[Bucket(c)] /\ Bucket(c) = Bucket(d) /\ pc[c] \in Out /\ pc[d] \in Out
         => c = d
    /\ \A b \in Buckets :
         ~blind[b] /\ (\A c \in Calls : Bucket(c) = b => pc[c] \notin Out) => HasRoom(srv[b])
    /\ \A c \in Calls : ~blind[Bucket(c)] /\ pc[c] \in Out => InWindow(c)

LEMMA WindowByCalls ==
    ASSUME CallTypes
    PROVE  WindowInv <=> CallsInWindow
  <1>1. \A b \in Buckets, c \in Calls : c \in Outstanding(b) <=> Bucket(c) = b /\ pc[c] \in Out
    BY DEF Outstanding, Out
  <1>2. \A b \in Buckets : Outstanding(b) \subseteq Calls
    BY DEF Outstanding
  <1>3. \A c \in Calls : Bucket(c) \in Buckets
    BY EndpointsOf
  <1>4. ASSUME WindowInv PROVE CallsInWindow
    <2>1. ASSUME NEW c \in Calls, NEW d \in Calls, ~blind[Bucket(c)], Bucket(c) = Bucket(d),
                 pc[c] \in Out, pc[d] \in Out
          PROVE  c = d
      BY <1>1, <1>3, <1>4, <2>1 DEF WindowInv
    <2>2. ASSUME NEW b \in Buckets, ~blind[b], \A c \in Calls : Bucket(c) = b => pc[c] \notin Out
          PROVE  HasRoom(srv[b])
      <3>1. Outstanding(b) = {}
        BY <1>1, <1>2, <2>2
      <3> QED BY <1>4, <2>2, <3>1 DEF WindowInv
    <2>3. ASSUME NEW c \in Calls, ~blind[Bucket(c)], pc[c] \in Out PROVE InWindow(c)
      BY <1>1, <1>3, <1>4, <2>3 DEF WindowInv, InWindow
    <2> QED BY <2>1, <2>2, <2>3 DEF CallsInWindow
  <1>5. ASSUME CallsInWindow PROVE WindowInv
    <2> SUFFICES ASSUME NEW b \in Buckets, ~blind[b]
                 PROVE  /\ \A c, d \in Outstanding(b) : c = d
                        /\ Outstanding(b) = {} => HasRoom(srv[b])
                        /\ \A c \in Outstanding(b) :
                             \/ pc[c] = "wire" /\ HasRoom(srv[b])
                             \/ pc[c] = "resp" /\ (HasRoom(srv[b]) \/ srv[b].windowIn <= ResetDelay(resp[c]))
                             \/ pc[c] = "reset" /\ (HasRoom(srv[b]) \/ srv[b].windowIn <= sleepIn[c])
      BY DEF WindowInv
    <2>1. \A c, d \in Outstanding(b) : c = d
      BY <1>1, <1>2, <1>5 DEF CallsInWindow
    <2>2. Outstanding(b) = {} => HasRoom(srv[b])
      BY <1>1, <1>5 DEF CallsInWindow
    <2>3. ASSUME NEW c \in Outstanding(b)
          PROVE  \/ pc[c] = "wire" /\ HasRoom(srv[b])
                 \/ pc[c] = "resp" /\ (HasRoom(srv[b]) \/ srv[b].windowIn <= ResetDelay(resp[c]))
                 \/ pc[c] = "reset" /\ (HasRoom(srv[b]) \/ srv[b].windowIn <= sleepIn[c])
      <3>1. c \in Calls /\ Bucket(c) = b /\ pc[c] \in Out
        BY <1>1, <1>2
      <3> QED BY <1>5, <3>1 DEF CallsInWindow, InWindow
    <2> QED BY <2>1, <2>2, <2>3
  <1> QED BY <1>4, <1>5

(* Room: there is no window, or it has something left.                     *)
LEMMA RoomAdmits ==
    ASSUME NEW w \in Windows
    PROVE  /\ Admits(w) <=> HasRoom(w)
           /\ HasRoom(w) => HasRoom(Aged(w))
           /\ ~HasRoom(w) => Aged(w).windowIn = Elapsed(w.windowIn)
           /\ Admits(w) => HasRoom(Consumed(w)) \/ Consumed(w).left = 0
  <1>1. Admits(w) <=> HasRoom(w)
    BY BucketAssumption DEF Admits, HasRoom, Opened, Windows
  <1>2. HasRoom(w) => HasRoom(Aged(w))
    BY BucketAssumption DEF HasRoom, Aged, Windows, Elapsed
  <1>3. Aged(w).windowIn = Elapsed(w.windowIn)
    BY DEF Aged, Windows
  <1>4. ASSUME Admits(w) PROVE HasRoom(Consumed(w)) \/ Consumed(w).left = 0
    BY <1>4, TimeTypes, BucketAssumption DEF HasRoom, Windows
  <1> QED BY <1>1, <1>2, <1>3, <1>4

(* A step of one call: it is the only one of its bucket that is out, or    *)
(* it comes back when the window has room, or it was not out at all.       *)
LEMMA OneCallInWindow ==
    ASSUME CallTypes, CallsInWindow, NEW c \in Calls, UNCHANGED req,
           \A d \in Calls : d # c => pc'[d] = pc[d] /\ resp'[d] = resp[d] /\ sleepIn'[d] = sleepIn[d],
           \A b \in Buckets : b # Bucket(c) => srv'[b] = srv[b] /\ blind'[b] = blind[b],
           blind[Bucket(c)] => blind'[Bucket(c)],
           ~blind'[Bucket(c)] =>
             \/ /\ pc'[c] \in Out /\ InWindow(c)'
                /\ \A d \in Calls : d # c /\ Bucket(d) = Bucket(c) => pc[d] \notin Out
             \/ pc'[c] \notin Out /\ pc[c] \notin Out /\ srv'[Bucket(c)] = srv[Bucket(c)]
             \/ pc'[c] \notin Out /\ pc[c] \in Out /\ HasRoom(srv'[Bucket(c)])
    PROVE  CallsInWindow'
  <1>1. \A d \in Calls : Bucket(d)' = Bucket(d) /\ Bucket(d) \in Buckets
    BY EndpointsOf DEF Bucket
  <1>2. \A b \in Buckets : blind[b] => blind'[b]
    BY <1>1
  <1>3. ASSUME NEW x \in Calls, NEW y \in Calls, ~blind'[Bucket(x)], Bucket(x) = Bucket(y),
               pc'[x] \in Out, pc'[y] \in Out
        PROVE  x = y
    <2>1. CASE x # c /\ y # c
      <3>1. pc[x] \in Out /\ pc[y] \in Out /\ ~blind[Bucket(x)]
        BY <1>1, <1>2, <1>3, <2>1
      <3> QED BY <1>3, <3>1 DEF CallsInWindow
    <2>2. CASE x = c \/ y = c
      BY <1>3, <2>2
    <2> QED BY <2>1, <2>2
  <1>4. ASSUME NEW b \in Buckets, ~blind'[b], \A d \in Calls : Bucket(d) = b => pc'[d] \notin Out
        PROVE  HasRoom(srv'[b])
    <2>1. CASE b # Bucket(c)
      <3>1. ~blind[b] /\ srv'[b] = srv[b] /\ \A d \in Calls : Bucket(d) = b => pc[d] \notin Out
        BY <1>2, <1>4, <2>1
      <3> QED BY <3>1 DEF CallsInWindow
    <2>2. CASE b = Bucket(c)
      <3>1. CASE pc[c] \notin Out /\ srv'[b] = srv[b]
        <4>1. ~blind[b] /\ \A d \in Calls : Bucket(d) = b => pc[d] \notin Out
          BY <1>2, <1>4, <3>1
        <4> QED BY <3>1, <4>1 DEF CallsInWindow
      <3> QED BY <1>4, <2>2, <3>1
    <2> QED BY <2>1, <2>2
  <1>5. ASSUME NEW d \in Calls, ~blind'[Bucket(d)], pc'[d] \in Out PROVE InWindow(d)'
    <2>1. CASE d = c
      BY <1>5, <2>1
    <2>2. CASE d # c
      <3>1. pc[d] \in Out /\ ~blind[Bucket(d)]
        BY <1>1, <1>2, <1>5, <2>2
      <3>2. srv'[Bucket(d)] = srv[Bucket(d)]
        <4>1. CASE Bucket(d) # Bucket(c)
          BY <1>1, <4>1
        <4>2. CASE Bucket(d) = Bucket(c)
          <5>1. pc[c] \notin Out
            BY <2>2, <3>1, <4>2 DEF CallsInWindow
          <5> QED BY <1>5, <2>2, <3>1, <4>2, <5>1
        <4> QED BY <4>1, <4>2
      <3>3. InWindow(d)
        BY <3>1 DEF CallsInWindow
      <3> QED BY <1>1, <2>2, <3>2, <3>3 DEF InWindow
    <2> QED BY <2>1, <2>2
  <1>6. /\ \A x, y \in Calls :
             ~blind'[Bucket(x)'] /\ Bucket(x)' = Bucket(y)' /\ pc'[x] \in Out /\ pc'[y] \in Out => x = y
        /\ \A b \in Buckets :
             ~blind'[b] /\ (\A d \in Calls : Bucket(d)' = b => pc'[d] \notin Out) => HasRoom(srv'[b])
    BY <1>1, <1>3, <1>4
  <1>7. \A d \in Calls : ~blind'[Bucket(d)'] /\ pc'[d] \in Out => InWindow(d)'
    BY <1>1, <1>5
  <1> QED BY <1>6, <1>7 DEF CallsInWindow, HasRoom, Out

(* Every step keeps the window and, once a bucket is out of sight, keeps   *)
(* that in mind.                                                           *)
LEMMA StepWindow ==
    ASSUME TypeOK, TypeOK', CallsInWindow, [Next]_vars
    PROVE  CallsInWindow'
  <1>0. /\ pc \in [Calls -> Places] /\ resp \in [Calls -> Resps] /\ sleepIn \in [Calls -> Nat]
        /\ srv \in [Buckets -> Windows] /\ blind \in [Buckets -> BOOLEAN] /\ CallTypes
        /\ \A c \in Calls : Bucket(c) \in Buckets
    BY EndpointsOf DEF TypeOK, CallTypes, WindowTypes
  <1>1. ASSUME NEW c \in Calls, Sends(c), pc[c] \notin Out, UNCHANGED <<req, resp, sleepIn, srv>>
        PROVE  CallsInWindow'
    <2>1. /\ pc' = [pc EXCEPT ![c] = "wire"]
          /\ blind' = [blind EXCEPT ![Bucket(c)] =
               blind[Bucket(c)] \/ \E d \in Calls \ {c} : Bucket(d) = Bucket(c) /\ pc[d] \in Out]
      BY <1>1, Zenon DEF Sends, Goto, Out
    <2>2. blind'[Bucket(c)] <=>
            (blind[Bucket(c)] \/ \E d \in Calls \ {c} : Bucket(d) = Bucket(c) /\ pc[d] \in Out)
      BY <1>0, <2>1, Zenon
    <2>3. \A b \in Buckets : b # Bucket(c) => blind'[b] = blind[b]
      BY <1>0, <2>1, Zenon
    <2>4. pc'[c] = "wire" /\ \A d \in Calls : d # c => pc'[d] = pc[d]
      BY <1>0, <2>1
    <2>5. ASSUME ~blind'[Bucket(c)]
          PROVE  /\ pc'[c] \in Out /\ InWindow(c)'
                 /\ \A d \in Calls : d # c /\ Bucket(d) = Bucket(c) => pc[d] \notin Out
      <3>1. ~blind[Bucket(c)] /\ \A d \in Calls : Bucket(d) = Bucket(c) => pc[d] \notin Out
        BY <1>1, <2>2, <2>5
      <3>2. HasRoom(srv[Bucket(c)])
        BY <1>0, <3>1 DEF CallsInWindow
      <3>3. InWindow(c)'
        BY <1>1, <2>4, <3>2 DEF InWindow, Bucket
      <3> QED BY <2>4, <3>1, <3>3 DEF Out
    <2> QED BY <1>0, <1>1, <2>2, <2>3, <2>4, <2>5, OneCallInWindow
  <1>2. ASSUME NEW c \in Calls, NEW p, pc' = [pc EXCEPT ![c] = p], p \notin Out, pc[c] \notin Out,
               \A d \in Calls : d # c => resp'[d] = resp[d] /\ sleepIn'[d] = sleepIn[d],
               \A b \in Buckets : b # Bucket(c) => blind'[b] = blind[b],
               blind[Bucket(c)] => blind'[Bucket(c)], UNCHANGED <<req, srv>>
        PROVE  CallsInWindow'
    <2>1. pc'[c] = p /\ \A d \in Calls : d # c => pc'[d] = pc[d]
      BY <1>0, <1>2
    <2> QED BY <1>0, <1>2, <2>1, OneCallInWindow
  <1>3. ASSUME NEW c \in Calls, NEW p, pc' = [pc EXCEPT ![c] = p], p \notin Out, pc[c] \in Out,
               \A d \in Calls : d # c => resp'[d] = resp[d] /\ sleepIn'[d] = sleepIn[d],
               \A b \in Buckets : b # Bucket(c) => blind'[b] = blind[b],
               blind[Bucket(c)] => blind'[Bucket(c)], UNCHANGED <<req, srv>>,
               ~blind'[Bucket(c)] => pc[c] = "wire" \/ (pc[c] = "reset" /\ sleepIn[c] = 0)
        PROVE  CallsInWindow'
    <2>1. pc'[c] = p /\ \A d \in Calls : d # c => pc'[d] = pc[d]
      BY <1>0, <1>3
    <2>2. ~blind'[Bucket(c)] => HasRoom(srv[Bucket(c)])
      <3>1. SUFFICES ASSUME ~blind'[Bucket(c)] PROVE HasRoom(srv[Bucket(c)])
        OBVIOUS
      <3>2. InWindow(c)
        BY <1>3, <3>1 DEF CallsInWindow
      <3>3. srv[Bucket(c)] \in Windows
        BY <1>0
      <3> QED BY <1>3, <3>1, <3>2, <3>3 DEF InWindow, HasRoom, Windows
    <2> QED BY <1>0, <1>3, <2>1, <2>2, OneCallInWindow
  <1>4. ASSUME NEW c \in Calls, NEW p, pc' = [pc EXCEPT ![c] = p], p \in Out, pc[c] \in Out,
               \A d \in Calls : d # c => resp'[d] = resp[d] /\ sleepIn'[d] = sleepIn[d],
               \A b \in Buckets : b # Bucket(c) => srv'[b] = srv[b] /\ blind'[b] = blind[b],
               blind[Bucket(c)] => blind'[Bucket(c)], UNCHANGED req,
               ~blind'[Bucket(c)] => InWindow(c)'
        PROVE  CallsInWindow'
    <2>1. pc'[c] = p /\ \A d \in Calls : d # c => pc'[d] = pc[d]
      BY <1>0, <1>4
    <2>2. ~blind'[Bucket(c)] =>
             \A d \in Calls : d # c /\ Bucket(d) = Bucket(c) => pc[d] \notin Out
      BY <1>4 DEF CallsInWindow
    <2> QED BY <1>0, <1>4, <2>1, <2>2, OneCallInWindow
  <1>5. ASSUME NEW c \in Calls, LocksRoute(c), pc[c] \notin Out, UNCHANGED <<req, resp, sleepIn, srv>>
        PROVE  CallsInWindow'
    <2>1. Sends(c) \/ (pc' = [pc EXCEPT ![c] = "route"] /\ UNCHANGED blind)
      BY <1>5 DEF LocksRoute, Goto
    <2> QED BY <1>1, <1>2, <1>5, <2>1 DEF Out
  <1>6. ASSUME NEW c \in Calls, NEW r, Leave(c, r) \/ BacksOff(c), UNCHANGED sleepIn \/ BacksOff(c)
        PROVE  \E p : /\ p \notin Out /\ pc' = [pc EXCEPT ![c] = p]
                      /\ \A d \in Calls : d # c => resp'[d] = resp[d] /\ sleepIn'[d] = sleepIn[d]
    <2>1. /\ pc' = [pc EXCEPT ![c] = "over"] \/ pc' = [pc EXCEPT ![c] = "backoff"]
          /\ resp' = [resp EXCEPT ![c] = NoResp]
      BY <1>6 DEF Leave, BacksOff, Sleep, Goto
    <2>2. \A d \in Calls : d # c => resp'[d] = resp[d]
      BY <1>0, <2>1
    <2>3. \A d \in Calls : d # c => sleepIn'[d] = sleepIn[d]
      BY <1>0, <1>6 DEF BacksOff, Sleep
    <2>4. "over" \notin Out /\ "backoff" \notin Out
      BY DEF Out
    <2> QED BY <2>1, <2>2, <2>3, <2>4
  <1>7. ASSUME NEW c \in Calls, Call(c) PROVE CallsInWindow'
    BY <1>2, <1>7 DEF Call, Goto, Out
  <1>8. ASSUME NEW c \in Calls, wait_for_global(c) PROVE CallsInWindow'
    <2>1. pc[c] \notin Out /\ UNCHANGED <<req, resp, srv>>
      BY <1>8 DEF wait_for_global, Out
    <2>2. CASE LocksRoute(c) /\ UNCHANGED sleepIn
      BY <1>5, <2>1, <2>2
    <2>3. CASE Sleep(c, "gsleep", globalIn) /\ UNCHANGED blind
      <3>1. /\ pc' = [pc EXCEPT ![c] = "gsleep"] /\ "gsleep" \notin Out
            /\ \A d \in Calls : d # c => sleepIn'[d] = sleepIn[d]
        BY <1>0, <2>3 DEF Sleep, Goto, Out
      <3> QED BY <1>2, <2>1, <2>3, <3>1
    <2> QED BY <1>8, <2>2, <2>3 DEF wait_for_global
  <1>9. ASSUME NEW c \in Calls, GlobalSleepEnds(c) PROVE CallsInWindow'
    BY <1>5, <1>9 DEF GlobalSleepEnds, Out
  <1>10. ASSUME NEW c \in Calls, get_route_lock(c) \/ BackoffEnds(c) PROVE CallsInWindow'
    BY <1>1, <1>10 DEF get_route_lock, BackoffEnds, Out
  <1>11. ASSUME NEW c \in Calls, _check_rate_limit(c) PROVE CallsInWindow'
    <2>1. /\ pc[c] = "resp" /\ pc' = [pc EXCEPT ![c] = "reset"]
          /\ sleepIn' = [sleepIn EXCEPT ![c] = ResetDelay(resp[c])]
          /\ UNCHANGED <<req, resp, srv, blind>>
      BY <1>11 DEF _check_rate_limit, Sleep, Goto
    <2>2. pc'[c] = "reset" /\ sleepIn'[c] = ResetDelay(resp[c])
      BY <1>0, <2>1
    <2>3. ~blind[Bucket(c)] => InWindow(c)'
      <3>1. SUFFICES ASSUME ~blind[Bucket(c)] PROVE InWindow(c)'
        OBVIOUS
      <3>2. InWindow(c)
        BY <2>1, <3>1 DEF CallsInWindow, Out
      <3>3. HasRoom(srv[Bucket(c)]) \/ srv[Bucket(c)].windowIn <= ResetDelay(resp[c])
        BY <2>1, <3>2 DEF InWindow
      <3> QED BY <2>1, <2>2, <3>3 DEF InWindow, Bucket
    <2>4. \A d \in Calls : d # c => resp'[d] = resp[d] /\ sleepIn'[d] = sleepIn[d]
      BY <1>0, <2>1
    <2> QED BY <1>4, <2>1, <2>3, <2>4 DEF Out
  <1>12. ASSUME NEW c \in Calls, Respond(c) PROVE CallsInWindow'
    <2>1. pc[c] = "reset" /\ sleepIn[c] = 0 /\ UNCHANGED <<req, srv, blind>>
      BY <1>12 DEF Respond
    <2>2. PICK p : /\ p \notin Out /\ pc' = [pc EXCEPT ![c] = p]
                   /\ \A d \in Calls : d # c => resp'[d] = resp[d] /\ sleepIn'[d] = sleepIn[d]
      BY <1>6, <1>12 DEF Respond
    <2> QED BY <1>3, <2>1, <2>2 DEF Out
  <1>13. ASSUME NEW c \in Calls, RequestFails(c) PROVE CallsInWindow'
    <2>1. /\ pc[c] \in {"wire", "resp"} \/ (pc[c] = "reset" /\ sleepIn[c] = 0)
          /\ blind' = [blind EXCEPT ![Bucket(c)] = blind[Bucket(c)] \/ pc[c] = "resp"]
          /\ UNCHANGED <<req, srv>>
      BY <1>13, Zenon DEF RequestFails
    <2>2. blind'[Bucket(c)] <=> (blind[Bucket(c)] \/ pc[c] = "resp")
      BY <1>0, <2>1, Zenon
    <2>3. \A b \in Buckets : b # Bucket(c) => blind'[b] = blind[b]
      BY <1>0, <2>1, Zenon
    <2>4. PICK p : /\ p \notin Out /\ pc' = [pc EXCEPT ![c] = p]
                   /\ \A d \in Calls : d # c => resp'[d] = resp[d] /\ sleepIn'[d] = sleepIn[d]
      BY <1>6, <1>13 DEF RequestFails
    <2>5. pc[c] \in Out /\ (~blind'[Bucket(c)] => pc[c] = "wire" \/ (pc[c] = "reset" /\ sleepIn[c] = 0))
      BY <2>1, <2>2 DEF Out
    <2> QED BY <1>3, <2>1, <2>2, <2>3, <2>4, <2>5
  <1>14. ASSUME NEW c \in Calls, Cancelled(c) PROVE CallsInWindow'
    <2>1. /\ blind' = [blind EXCEPT ![Bucket(c)] = blind[Bucket(c)] \/ pc[c] \in {"resp", "reset"}]
          /\ UNCHANGED <<req, srv>>
      BY <1>14, Zenon DEF Cancelled
    <2>2. blind'[Bucket(c)] <=> (blind[Bucket(c)] \/ pc[c] \in {"resp", "reset"})
      BY <1>0, <2>1, Zenon
    <2>3. \A b \in Buckets : b # Bucket(c) => blind'[b] = blind[b]
      BY <1>0, <2>1, Zenon
    <2>4. PICK p : /\ p \notin Out /\ pc' = [pc EXCEPT ![c] = p]
                   /\ \A d \in Calls : d # c => resp'[d] = resp[d] /\ sleepIn'[d] = sleepIn[d]
      BY <1>6, <1>14 DEF Cancelled
    <2>5. CASE pc[c] \in Out
      <3>1. ~blind'[Bucket(c)] => pc[c] = "wire"
        BY <2>2, <2>5 DEF Out
      <3> QED BY <1>3, <2>1, <2>2, <2>3, <2>4, <2>5, <3>1
    <2>6. CASE pc[c] \notin Out
      BY <1>2, <2>1, <2>2, <2>3, <2>4, <2>6
    <2> QED BY <2>5, <2>6
  <1>15. ASSUME NEW c \in Calls, NEW m, Answer(c, m), pc[c] = "wire", UNCHANGED <<req, sleepIn>>
         PROVE  /\ pc' = [pc EXCEPT ![c] = "resp"] /\ pc'[c] = "resp" /\ resp'[c] = m
                /\ \A d \in Calls : d # c => resp'[d] = resp[d] /\ sleepIn'[d] = sleepIn[d]
                /\ Bucket(c)' = Bucket(c) /\ "resp" \in Out /\ pc[c] \in Out
                /\ ~blind[Bucket(c)] => HasRoom(srv[Bucket(c)])
    <2>1. pc' = [pc EXCEPT ![c] = "resp"] /\ resp' = [resp EXCEPT ![c] = m]
      BY <1>15 DEF Answer, Goto
    <2>2. pc'[c] = "resp" /\ resp'[c] = m /\ \A d \in Calls : d # c => resp'[d] = resp[d]
      BY <1>0, <2>1
    <2>3. "resp" \in Out /\ pc[c] \in Out
      BY <1>15 DEF Out
    <2>4. ~blind[Bucket(c)] => HasRoom(srv[Bucket(c)])
      BY <1>15, <2>3 DEF CallsInWindow, InWindow
    <2>5. Bucket(c)' = Bucket(c)
      BY <1>15 DEF Bucket
    <2> QED BY <1>15, <2>1, <2>2, <2>3, <2>4, <2>5
  <1>16. ASSUME NEW c \in Calls, NEW s \in {200, 400, 500}, NEW h \in BOOLEAN, SrvServes(c, s, h)
         PROVE  CallsInWindow'
    <2> DEFINE w == Consumed(srv[Bucket(c)])
               n == IF h THEN w.left ELSE 0
               a == IF h THEN w.windowIn ELSE 0
               m == [NoResp EXCEPT !.status = s, !.remaining = n, !.after = a]
    <2>1. /\ w \in Windows /\ Admits(srv[Bucket(c)]) /\ (HasRoom(w) \/ w.left = 0)
          /\ srv[Bucket(c)] \in Windows
      BY <1>0, <1>16, TimeTypes, RoomAdmits DEF SrvServes
    <2>2. /\ pc[c] = "wire" /\ srv' = [srv EXCEPT ![Bucket(c)] = w] /\ Answer(c, m)
          /\ UNCHANGED <<req, sleepIn>>
      BY <1>16 DEF SrvServes
    <2> HIDE DEF w
    <2>3. m.remaining = n /\ m.after = a
      BY DEF NoResp
    <2>4. blind' = [blind EXCEPT ![Bucket(c)] = blind[Bucket(c)] \/ ~h]
      BY <1>16, Zenon DEF SrvServes
    <2>5. blind'[Bucket(c)] <=> (blind[Bucket(c)] \/ ~h)
      BY <1>0, <2>4, Zenon
    <2>6. \A b \in Buckets : b # Bucket(c) => blind'[b] = blind[b]
      <3>1. PICK v : blind' = [blind EXCEPT ![Bucket(c)] = v]
        BY <2>4, Zenon
      <3> QED BY <1>0, <3>1
    <2>7. srv'[Bucket(c)] = w /\ \A b \in Buckets : b # Bucket(c) => srv'[b] = srv[b]
      BY <1>0, <2>2
    <2> HIDE DEF m
    <2>8. /\ pc' = [pc EXCEPT ![c] = "resp"] /\ pc'[c] = "resp" /\ resp'[c] = m
          /\ \A d \in Calls : d # c => resp'[d] = resp[d] /\ sleepIn'[d] = sleepIn[d]
          /\ Bucket(c)' = Bucket(c) /\ "resp" \in Out /\ pc[c] \in Out
      BY <1>15, <2>2
    <2>9. ASSUME h PROVE InWindow(c)'
      <3>1. HasRoom(w) \/ w.windowIn <= ResetDelay(m)
        BY <2>1, <2>3, <2>9 DEF ResetDelay, Windows
      <3> QED BY <2>7, <2>8, <3>1 DEF InWindow
    <2>10. ~blind'[Bucket(c)] => InWindow(c)'
      BY <2>5, <2>9
    <2>11. blind[Bucket(c)] => blind'[Bucket(c)]
      BY <2>5
    <2>12. \A b \in Buckets : b # Bucket(c) => srv'[b] = srv[b] /\ blind'[b] = blind[b]
      BY <2>6, <2>7
    <2>13. UNCHANGED req
      BY <2>2
    <2> QED BY ZenonT(40), <1>4, <2>8, <2>10, <2>11, <2>12, <2>13
  <1>17. ASSUME NEW c \in Calls, SrvLimits(c) PROVE CallsInWindow'
    <2>1. PICK m : Answer(c, m) /\ pc[c] = "wire" /\ UNCHANGED <<req, sleepIn, srv, blind>>
      BY <1>17 DEF SrvLimits
    <2>2. ~blind[Bucket(c)] => InWindow(c)'
      BY <1>15, <2>1 DEF InWindow
    <2> QED BY <1>4, <1>15, <2>1, <2>2
  <1>18. ASSUME NEW c \in Calls, NEW g \in 0 .. GlobalWindow, SrvGlobal(c, g) PROVE CallsInWindow'
    <2>1. PICK m : Answer(c, m) /\ pc[c] = "wire" /\ UNCHANGED <<req, sleepIn, srv, blind>>
      BY <1>18 DEF SrvGlobal
    <2>2. ~blind[Bucket(c)] => InWindow(c)'
      BY <1>15, <2>1 DEF InWindow
    <2> QED BY <1>4, <1>15, <2>1, <2>2
  <1>19. ASSUME Tick PROVE CallsInWindow'
    <2>1. /\ UNCHANGED <<pc, req, resp, blind>>
          /\ \A c \in Calls : sleepIn'[c] = Elapsed(sleepIn[c])
          /\ \A b \in Buckets : srv'[b] = Aged(srv[b])
          /\ \A c \in Calls : Bucket(c)' = Bucket(c)
      BY <1>19 DEF Tick, Bucket
    <2>2. \A b \in Buckets : HasRoom(srv[b]) => HasRoom(srv'[b])
      BY <1>0, <2>1, RoomAdmits
    <2>3. ASSUME NEW c \in Calls, ~blind[Bucket(c)], pc[c] \in Out PROVE InWindow(c)'
      <3> DEFINE w == srv[Bucket(c)]
      <3>1. InWindow(c) /\ w \in Windows /\ srv'[Bucket(c)] = Aged(w)
        BY <1>0, <2>1, <2>3 DEF CallsInWindow
      <3>2. CASE HasRoom(w)
        BY <1>0, <2>1, <2>2, <2>3, <3>1, <3>2 DEF InWindow, Out
      <3>3. CASE ~HasRoom(w)
        <4>1. Aged(w).windowIn = Elapsed(w.windowIn) /\ w.windowIn \in Nat
          BY <3>1, <3>3, RoomAdmits DEF Windows
        <4>2. CASE pc[c] = "resp"
          <5>1. w.windowIn <= ResetDelay(resp[c]) /\ ResetDelay(resp[c]) \in Nat
            BY <1>0, <3>1, <3>3, <4>2, ResponseTypes DEF InWindow
          <5>2. Elapsed(w.windowIn) <= ResetDelay(resp[c])
            BY <4>1, <5>1 DEF Elapsed
          <5> QED BY <2>1, <3>1, <4>1, <4>2, <5>2 DEF InWindow
        <4>3. CASE pc[c] = "reset"
          <5>1. w.windowIn <= sleepIn[c] /\ sleepIn[c] \in Nat
            BY <1>0, <3>1, <3>3, <4>3 DEF InWindow
          <5>2. Elapsed(w.windowIn) <= Elapsed(sleepIn[c])
            BY <4>1, <5>1 DEF Elapsed
          <5> QED BY <2>1, <3>1, <4>1, <4>3, <5>2 DEF InWindow
        <4>4. pc[c] # "wire"
          BY <3>1, <3>3 DEF InWindow
        <4> QED BY <2>3, <4>2, <4>3, <4>4 DEF Out
      <3> QED BY <3>2, <3>3
    <2>4. /\ \A x, y \in Calls :
               ~blind'[Bucket(x)'] /\ Bucket(x)' = Bucket(y)' /\ pc'[x] \in Out /\ pc'[y] \in Out => x = y
          /\ \A b \in Buckets :
               ~blind'[b] /\ (\A d \in Calls : Bucket(d)' = b => pc'[d] \notin Out) => HasRoom(srv'[b])
      BY <2>1, <2>2 DEF CallsInWindow
    <2>5. \A d \in Calls : ~blind'[Bucket(d)'] /\ pc'[d] \in Out => InWindow(d)'
      BY <2>1, <2>3
    <2> QED BY <2>4, <2>5 DEF CallsInWindow, HasRoom, Out
  <1>20. CASE UNCHANGED vars
    <2>1. UNCHANGED <<pc, req, resp, sleepIn, srv, blind>>
      BY <1>20 DEF vars
    <2> QED BY <2>1 DEF CallsInWindow, InWindow, HasRoom, Bucket, Out
  <1> QED BY <1>7, <1>8, <1>9, <1>10, <1>11, <1>12, <1>13, <1>14, <1>16, <1>17, <1>18, <1>19, <1>20
      DEF Next, Task, Discord

(* A bucket that is out of sight stays so.                                 *)
LEMMA BlindStays ==
    ASSUME TypeOK, [Next]_vars, NEW b \in Buckets, blind[b]
    PROVE  blind'[b]
  <1>0. blind \in [Buckets -> BOOLEAN]
    BY DEF TypeOK, WindowTypes
  <1>1. ASSUME NEW c \in Calls, NEW x, blind' = [blind EXCEPT ![Bucket(c)] = blind[Bucket(c)] \/ x]
        PROVE  blind'[b]
    BY <1>0, <1>1, Zenon
  <1>2. ASSUME NEW c \in Calls, Sends(c) PROVE blind'[b]
    BY <1>1, <1>2 DEF Sends
  <1>3. ASSUME NEW c \in Calls, LocksRoute(c) PROVE blind'[b]
    BY <1>2, <1>3 DEF LocksRoute
  <1>4. ASSUME NEW c \in Calls, Call(c) \/ Task(c) PROVE blind'[b]
    BY <1>2, <1>3, <1>4 DEF Call, Task, wait_for_global, GlobalSleepEnds, get_route_lock,
       _check_rate_limit, Respond, BackoffEnds
  <1>5. ASSUME NEW c \in Calls, Discord(c) \/ RequestFails(c) \/ Cancelled(c) PROVE blind'[b]
    BY ZenonT(40), <1>1, <1>5 DEF Discord, SrvServes, SrvLimits, SrvGlobal, RequestFails, Cancelled
  <1> QED BY <1>4, <1>5 DEF Next, Tick, vars

(* Discord answers 429 for the route only when the bucket is out of sight. *)
LEMMA StepLimited ==
    ASSUME TypeOK, CallsInWindow, LimitedOnlyWhenBlind, [Next]_vars
    PROVE  LimitedOnlyWhenBlind'
  <1>0. /\ pc \in [Calls -> Places] /\ resp \in [Calls -> Resps] /\ srv \in [Buckets -> Windows]
        /\ \A c \in Calls : Bucket(c) \in Buckets
    BY EndpointsOf DEF TypeOK, CallTypes, WindowTypes
  <1>1. UNCHANGED req
    <2>1. ASSUME NEW c \in Calls, Task(c) PROVE UNCHANGED req
      BY <2>1 DEF Task, wait_for_global, GlobalSleepEnds, get_route_lock, _check_rate_limit, Respond,
                  BackoffEnds
    <2>2. ASSUME NEW c \in Calls, Discord(c) PROVE UNCHANGED req
      BY <2>2 DEF Discord, SrvServes, SrvLimits, SrvGlobal
    <2>3. ASSUME NEW c \in Calls, Call(c) \/ RequestFails(c) \/ Cancelled(c) PROVE UNCHANGED req
      BY <2>3 DEF Call, RequestFails, Cancelled
    <2> QED BY <2>1, <2>2, <2>3 DEF Next, Tick, vars
  <1>2. SUFFICES ASSUME NEW c \in Calls, pc'[c] \in {"resp", "reset"}, resp'[c].status = 429,
                        ~resp'[c].global
                 PROVE  blind'[Bucket(c)]
    BY <1>1 DEF LimitedOnlyWhenBlind, Bucket
  <1>3. CASE pc[c] \in {"resp", "reset"} /\ resp'[c] = resp[c]
    <2>1. blind[Bucket(c)]
      BY <1>2, <1>3 DEF LimitedOnlyWhenBlind
    <2> QED BY <1>0, <2>1, BlindStays
  <1>4. CASE pc[c] = "wire" /\ ~Admits(srv[Bucket(c)])
    <2>1. blind[Bucket(c)]
      <3>1. ~HasRoom(srv[Bucket(c)])
        BY <1>0, <1>4, RoomAdmits
      <3> QED BY <1>4, <3>1 DEF CallsInWindow, InWindow, Out
    <2> QED BY <1>0, <2>1, BlindStays
  <1>5. ASSUME NEW d \in Calls, NEW p, p \notin {"resp", "reset"}, Goto(d, p),
               UNCHANGED resp \/ resp' = [resp EXCEPT ![d] = NoResp]
        PROVE  pc[c] \in {"resp", "reset"} /\ resp'[c] = resp[c]
    <2>1. d # c
      BY <1>0, <1>2, <1>5 DEF Goto
    <2> QED BY <1>0, <1>2, <1>5, <2>1 DEF Goto
  <1>6. ASSUME NEW d \in Calls, Call(d) \/ wait_for_global(d) \/ GlobalSleepEnds(d) \/ get_route_lock(d)
                               \/ BackoffEnds(d)
        PROVE  pc[c] \in {"resp", "reset"} /\ resp'[c] = resp[c]
    BY <1>5, <1>6 DEF Call, wait_for_global, GlobalSleepEnds, get_route_lock, BackoffEnds, LocksRoute,
                      Sends, Sleep
  <1>7. ASSUME NEW d \in Calls, Respond(d) \/ RequestFails(d) \/ Cancelled(d)
        PROVE  pc[c] \in {"resp", "reset"} /\ resp'[c] = resp[c]
    BY <1>5, <1>7 DEF Respond, RequestFails, Cancelled, Leave, BacksOff, Sleep
  <1>8. ASSUME NEW d \in Calls, _check_rate_limit(d)
        PROVE  pc[c] \in {"resp", "reset"} /\ resp'[c] = resp[c]
    BY <1>0, <1>2, <1>8 DEF _check_rate_limit, Sleep, Goto
  <1>9. ASSUME NEW d \in Calls, NEW m, Answer(d, m)
        PROVE  /\ d # c => pc[c] \in {"resp", "reset"} /\ resp'[c] = resp[c]
               /\ d = c => resp'[c] = m
    BY <1>0, <1>2, <1>9 DEF Answer, Goto
  <1>10. ASSUME NEW d \in Calls, NEW s \in {200, 400, 500}, NEW h \in BOOLEAN, SrvServes(d, s, h)
         PROVE  pc[c] \in {"resp", "reset"} /\ resp'[c] = resp[c]
    <2> DEFINE w == Consumed(srv[Bucket(d)])
               n == IF h THEN w.left ELSE 0
               a == IF h THEN w.windowIn ELSE 0
               m == [NoResp EXCEPT !.status = s, !.remaining = n, !.after = a]
    <2>1. Answer(d, m)
      BY <1>10 DEF SrvServes
    <2>2. m.status # 429
      BY <1>10 DEF NoResp
    <2> HIDE DEF m
    <2> QED BY <1>2, <1>9, <2>1, <2>2
  <1>11. ASSUME NEW d \in Calls, NEW g \in 0 .. GlobalWindow, SrvGlobal(d, g)
         PROVE  pc[c] \in {"resp", "reset"} /\ resp'[c] = resp[c]
    <2> DEFINE m == [NoResp EXCEPT !.status = 429, !.global = TRUE, !.reset = g]
    <2>1. Answer(d, m)
      BY <1>11 DEF SrvGlobal
    <2>2. m.global
      BY DEF NoResp
    <2> HIDE DEF m
    <2> QED BY <1>2, <1>9, <2>1, <2>2
  <1>12. ASSUME NEW d \in Calls, SrvLimits(d)
         PROVE  \/ pc[c] \in {"resp", "reset"} /\ resp'[c] = resp[c]
                \/ pc[c] = "wire" /\ ~Admits(srv[Bucket(c)])
    <2>1. PICK m : Answer(d, m)
      BY <1>12 DEF SrvLimits
    <2>2. pc[d] = "wire" /\ ~Admits(srv[Bucket(d)])
      BY <1>12 DEF SrvLimits
    <2> QED BY <1>9, <2>1, <2>2
  <1>13. CASE Tick \/ UNCHANGED vars
    BY <1>2, <1>3, <1>13 DEF Tick, vars
  <1> QED BY <1>3, <1>4, <1>6, <1>7, <1>8, <1>10, <1>11, <1>12, <1>13 DEF Next, Task, Discord

(* While no request of a bucket escaped, the lock and the sleep for the    *)
(* reset keep it within Discord's window: a 429 of the route comes only    *)
(* when the bucket is out of sight.                                        *)
THEOREM WindowIsRespected == Spec => []WindowRespected
  <1>1. Init => LimitedOnlyWhenBlind /\ CallsInWindow
    <2> SUFFICES ASSUME Init PROVE LimitedOnlyWhenBlind /\ CallsInWindow
      OBVIOUS
    <2>1. \A c \in Calls : pc[c] = "idle"
      BY DEF Init
    <2>2. \A b \in Buckets : HasRoom(srv[b])
      BY DEF Init, NoWindow, HasRoom
    <2> QED BY <2>1, <2>2 DEF LimitedOnlyWhenBlind, CallsInWindow, Out
  <1>2. TypeOK /\ TypeOK' /\ LimitedOnlyWhenBlind /\ CallsInWindow /\ [Next]_vars
        => (LimitedOnlyWhenBlind /\ CallsInWindow)'
    BY StepWindow, StepLimited
  <1>3. TypeOK /\ LimitedOnlyWhenBlind /\ CallsInWindow => WindowRespected
    BY WindowByCalls DEF WindowRespected, TypeOK
  <1> QED BY <1>1, <1>2, <1>3, TypeCorrect, PTL DEF Spec
=============================================================================
