---------------------------- MODULE ServicesProofs ----------------------------
(***************************************************************************)
(* Proofs about what the program asks of services: the router's rate limit *)
(* and the rotation of a pool's keys (Models), the one loop that polls the *)
(* channel (Weixin), and the calls a stream is taken apart into (Streams). *)
(*                                                                         *)
(* The rate limit, for any models, any size of the buckets and any length  *)
(* of time, rests on this: the calls a bucket let through and the tokens   *)
(* left in it were paid for by the full bucket and the time up to its last *)
(* refill.                                                                 *)
(*                                                                         *)
(* The type invariants of the three come last: that of the channel needs   *)
(* to know that each loop answers a message once at most.                  *)
(***************************************************************************)
EXTENDS Models, Weixin, Streams, FiniteSetTheorems, SequenceTheorems,
        WellFoundedInduction, TLAPS

(* A set of numbers up to n has a least one: it is the only one whose      *)
(* interval from 0 contains no smaller interval of the set.                *)
LEMMA SmallestNumber ==
    ASSUME NEW n \in Nat, NEW T \in SUBSET (0 .. n), T # {}
    PROVE  \E x \in T : \A y \in T : x <= y
  <1> DEFINE upTo == {0 .. i : i \in T}
  <1>1. upTo \subseteq FiniteSubsetsOf(0 .. n) /\ upTo # {}
    <2>1. ASSUME NEW i \in T
          PROVE  0 .. i \in SUBSET (0 .. n) /\ IsFiniteSet(0 .. i)
      BY FS_Interval
    <2> QED
      BY <2>1 DEF FiniteSubsetsOf
  <1>2. PICK s \in upTo : \A t \in upTo : <<t, s>> \notin StrictSubsetOrdering(0 .. n)
    BY <1>1, FS_StrictSubsetOrderingWellFounded, WFMin, Zenon
  <1>3. PICK x \in T : s = 0 .. x
    OBVIOUS
  <1>4. ASSUME NEW y \in T, ~(x <= y)
        PROVE  FALSE
    <2>1. 0 .. y \in upTo /\ 0 .. y \in SUBSET (0 .. n) /\ s \in SUBSET (0 .. n)
      BY <1>3
    <2>2. 0 .. y \subseteq s /\ 0 .. y # s
      <3>1. x \in s /\ x \notin 0 .. y
        BY <1>3, <1>4
      <3> QED
        BY <1>3, <1>4, <3>1
    <2> QED
      BY <1>2, <2>1, <2>2 DEF StrictSubsetOrdering
  <1> QED
    BY <1>4

PaidFor(n) ==
    /\ lastRefill[n] <= clock
    /\ tokens[n] <= BucketSize
    /\ granted[n] + tokens[n] + made[n] <= BucketSize + lastRefill[n]

RateInv ==
    /\ clock \in Nat
    /\ tokens \in [Names -> Nat] /\ lastRefill \in [Names -> Nat]
    /\ granted \in [Names -> Nat] /\ made \in [Names -> Nat]
    /\ \A n \in Names : PaidFor(n)

buckets == <<tokens, lastRefill, granted, made>>

LEMMA RateInit == ModelsInit => RateInv
  BY ModelsAssumption DEF ModelsInit, RateInv, PaidFor

(* Time that passes pays for more. *)
LEMMA RateLater ==
  ASSUME RateInv, clock' \in {clock, clock + 1}, UNCHANGED buckets
  PROVE  RateInv'
  BY DEF RateInv, PaidFor, buckets

(* A model that is not known has no bucket: nothing changes. *)
LEMMA RateAllow ==
  ASSUME RateInv, NEW n, NEW yes \in BOOLEAN, Allow(n, yes), UNCHANGED <<clock, made>>
  PROVE  RateInv'
<1> DEFINE filled == Filled(n)
<1>0. yes => filled >= 1
  BY DEF Allow
<1>1. /\ tokens' = [tokens EXCEPT ![n] = IF yes THEN filled - 1 ELSE filled]
      /\ lastRefill' = [lastRefill EXCEPT ![n] = clock]
      /\ granted' = [granted EXCEPT ![n] = IF yes THEN granted[n] + 1 ELSE granted[n]]
  BY DEF Allow
<1>2. CASE n \notin Names
  BY <1>1, <1>2 DEF RateInv, PaidFor
<1>3. CASE n \in Names
  <2>0. BucketSize \in Nat
    BY ModelsAssumption
  <2>1. /\ filled \in Nat /\ filled <= BucketSize
        /\ filled <= tokens[n] + (clock - lastRefill[n])
    BY <1>3, <2>0 DEF Filled, RateInv, PaidFor
  <2> HIDE DEF filled
  <2>2. /\ tokens' \in [Names -> Nat] /\ lastRefill' \in [Names -> Nat]
        /\ granted' \in [Names -> Nat]
    <3>1. (IF yes THEN filled - 1 ELSE filled) \in Nat
      BY <1>0, <2>1
    <3>2. (IF yes THEN granted[n] + 1 ELSE granted[n]) \in Nat
      BY <1>3 DEF RateInv
    <3> QED
      BY <1>1, <3>1, <3>2 DEF RateInv
  <2>3. ASSUME NEW m \in Names PROVE PaidFor(m)'
    <3>1. CASE m # n
      BY <1>1, <3>1 DEF RateInv, PaidFor
    <3>2. CASE m = n
      BY <1>0, <1>1, <1>3, <2>0, <2>1, <3>2 DEF RateInv, PaidFor
    <3> QED
      BY <3>1, <3>2
  <2> QED
    BY <2>2, <2>3 DEF RateInv
<1> QED
  BY <1>2, <1>3

LEMMA RateRegister ==
  ASSUME RateInv, NEW n \in Names, Register(n)
  PROVE  RateInv'
<1>1. /\ tokens' = [tokens EXCEPT ![n] = BucketSize]
      /\ lastRefill' = [lastRefill EXCEPT ![n] = clock]
      /\ granted' = [granted EXCEPT ![n] = 0]
      /\ made' = [made EXCEPT ![n] = clock]
      /\ clock' = clock
  BY DEF Register
<1>2. ASSUME NEW m \in Names PROVE PaidFor(m)'
  <2>1. CASE m # n
    <3>1. /\ tokens'[m] = tokens[m] /\ lastRefill'[m] = lastRefill[m]
          /\ granted'[m] = granted[m] /\ made'[m] = made[m]
      BY <1>1, <2>1 DEF RateInv
    <3> QED
      BY <1>1, <3>1 DEF RateInv, PaidFor
  <2>2. CASE m = n
    <3>1. /\ tokens'[m] = BucketSize /\ lastRefill'[m] = clock
          /\ granted'[m] = 0 /\ made'[m] = clock
      BY <1>1, <2>2 DEF RateInv
    <3> QED
      BY <1>1, <3>1, ModelsAssumption DEF RateInv, PaidFor
  <2> QED
    BY <2>1, <2>2
<1>3. /\ tokens' \in [Names -> Nat] /\ lastRefill' \in [Names -> Nat]
      /\ granted' \in [Names -> Nat] /\ made' \in [Names -> Nat]
  BY <1>1, ModelsAssumption DEF RateInv
<1> QED
  BY <1>1, <1>2, <1>3 DEF RateInv

LEMMA RateNext == RateInv /\ [ModelsNext]_modelsVars => RateInv'
<1> SUFFICES ASSUME RateInv, [ModelsNext]_modelsVars PROVE RateInv'
  OBVIOUS
<1>1. CASE AdvanceClock \/ StopProgram \/ StartProgram
  BY <1>1, RateLater DEF AdvanceClock, StopProgram, StartProgram, routerVars, buckets
<1>2. ASSUME NEW n, NEW k, MarkExhausted(n, k) \/ Recover(n) PROVE RateInv'
  BY <1>2, RateLater DEF MarkExhausted, Recover, routerVars, buckets
<1>3. ASSUME NEW n, SwitchModel(n) PROVE RateInv'
  <2>1. UNCHANGED buckets
    BY <1>3 DEF SwitchModel, routerVars, buckets
  <2>2. PICK ok \in BOOLEAN : Build(n, ok)
    BY <1>3 DEF SwitchModel
  <2>3. clock' \in {clock, clock + 1}
    BY <2>2 DEF Build
  <2> QED
    BY <2>1, <2>3, RateLater
<1>4. ASSUME NEW n \in Names, Register(n) PROVE RateInv'
  BY <1>4, RateRegister
<1>5. CASE BeginCall
  BY <1>5, RateLater DEF BeginCall, buckets
<1>6. CASE TryCandidate
  <2>1. PICK yes \in BOOLEAN : Allow(Order[FirstPlace(left)], yes)
    BY <1>6 DEF TryCandidate
  <2>2. UNCHANGED <<clock, made>>
    BY <1>6 DEF TryCandidate
  <2> QED
    BY <2>1, <2>2, RateAllow
<1>7. CASE UNCHANGED modelsVars
  BY <1>7, RateLater DEF modelsVars, routerVars, buckets
<1> QED
  BY <1>1, <1>2, <1>3, <1>4, <1>5, <1>6, <1>7 DEF ModelsNext, KeysNext, RouterNext

(* router.go:46: a model's bucket lets no more calls through than its size and *)
(* the time since it was made pay for, whoever calls and however often.        *)
THEOREM RateLimited == ModelsSpec => []WithinRate
<1>1. RateInv => WithinRate
  BY ModelsAssumption DEF RateInv, PaidFor, WithinRate
<1> QED
  BY <1>1, RateInit, RateNext, PTL DEF ModelsSpec

-----------------------------------------------------------------------------
(***************************************************************************)
(* The rotation of the keys, for any number of them.  How often a healthy  *)
(* key was passed over and how far it lies ahead of the index never add up *)
(* to a whole round: a selection that passes it over moves the index on    *)
(* towards it.                                                             *)
(***************************************************************************)

Ahead(i, k) == IF k >= i THEN k - i ELSE k + NumKeys - i

RotationInv ==
    /\ exhausted \in [Pooled -> SUBSET KeyIds]
    /\ index \in [Pooled -> KeyIds]
    /\ waited \in [Pooled -> [KeyIds -> Nat]]
    /\ \A n \in Pooled, k \in KeyIds : waited[n][k] + Ahead(index[n], k) < NumKeys

LEMMA SomeKeys == NumKeys \in Nat /\ NumKeys >= 1 /\ NoKey \notin KeyIds /\ 0 \in KeyIds
  BY ModelsAssumption DEF NoKey, KeyIds

(* Once around.                                                            *)
LEMMA OnceAround ==
    ASSUME NEW a \in Nat, a < 2 * NumKeys
    PROVE  a % NumKeys = IF a < NumKeys THEN a ELSE a - NumKeys
  <1>1. NumKeys \in Nat /\ NumKeys >= 1
    BY SomeKeys
  <1>2. CASE a < NumKeys
    BY <1>1, <1>2
  <1>3. CASE a >= NumKeys
    BY <1>1, <1>3
  <1> QED
    BY <1>1, <1>2, <1>3

LEMMA KeysAhead ==
    ASSUME NEW i \in KeyIds, NEW k \in KeyIds
    PROVE  /\ Ahead(i, k) \in KeyIds /\ Ahead(i, k) \in Nat /\ (i + Ahead(i, k)) % NumKeys = k
           /\ NextIndex(k) \in KeyIds
           /\ NextIndex(k) = IF k + 1 = NumKeys THEN 0 ELSE k + 1
  <1>1. NumKeys \in Nat /\ NumKeys >= 1 /\ i \in 0 .. NumKeys - 1 /\ k \in 0 .. NumKeys - 1
    BY SomeKeys DEF KeyIds
  <1> DEFINE a == i + Ahead(i, k)
  <1>2. a = (IF k >= i THEN k ELSE k + NumKeys) /\ Ahead(i, k) \in KeyIds /\ Ahead(i, k) \in Nat
    BY <1>1 DEF Ahead, KeyIds
  <1>3. a % NumKeys = k
    <2>1. a \in Nat /\ a < 2 * NumKeys
      BY <1>1, <1>2
    <2> QED
      BY <1>1, <1>2, <2>1, OnceAround
  <1>4. (k + 1) % NumKeys = IF k + 1 = NumKeys THEN 0 ELSE k + 1
    <2>1. k + 1 \in Nat /\ k + 1 < 2 * NumKeys
      BY <1>1
    <2> QED
      BY <1>1, <2>1, OnceAround
  <1> QED
    BY <1>1, <1>2, <1>3, <1>4 DEF NextIndex, KeyIds

(* The key that is chosen comes no later than any healthy one.             *)
LEMMA ChoiceIsNext ==
    ASSUME RotationInv, NEW n \in Pooled, NEW t, NEW k, k = Choice(n, t), k # NoKey
    PROVE  /\ k \in KeyIds
           /\ \A x \in KeyIds \ exhausted[n] : Ahead(index[n], k) <= Ahead(index[n], x)
  <1> DEFINE good == {i \in KeyIds : KeyAt(n, i) \notin StillExhausted(n, t)}
             first == CHOOSE i \in good : \A j \in good : i <= j
  <1>1. good # {} /\ k = KeyAt(n, first)
    BY DEF Choice
  <1>2. first \in good /\ \A j \in good : first <= j
    <2>1. NumKeys - 1 \in Nat /\ good \subseteq 0 .. NumKeys - 1
      BY SomeKeys DEF KeyIds
    <2>2. \E i \in good : \A j \in good : i <= j
      BY <1>1, <2>1, SmallestNumber
    <2> QED
      BY <2>2
  <1> HIDE DEF first
  <1>3. /\ NumKeys \in Nat /\ NumKeys >= 1 /\ first \in 0 .. NumKeys - 1
        /\ index[n] \in 0 .. NumKeys - 1
    BY <1>2, SomeKeys DEF RotationInv, KeyIds
  <1>4. k = IF index[n] + first < NumKeys THEN index[n] + first ELSE index[n] + first - NumKeys
    <2> DEFINE a == index[n] + first
    <2>1. a \in Nat /\ a < 2 * NumKeys
      BY <1>3
    <2>2. k = a % NumKeys
      BY <1>1 DEF KeyAt
    <2>3. k = IF a < NumKeys THEN a ELSE a - NumKeys
      <3> HIDE DEF a
      <3> QED
        BY <2>1, <2>2, OnceAround
    <2> QED
      BY <1>3, <2>3
  <1>5. k \in KeyIds /\ Ahead(index[n], k) = first
    BY <1>3, <1>4 DEF Ahead, KeyIds
  <1>6. ASSUME NEW x \in KeyIds \ exhausted[n] PROVE first <= Ahead(index[n], x)
    <2>1. index[n] \in KeyIds
      BY DEF RotationInv
    <2>2. Ahead(index[n], x) \in KeyIds /\ KeyAt(n, Ahead(index[n], x)) = x
      BY <2>1, KeysAhead DEF KeyAt
    <2>3. Ahead(index[n], x) \in good
      BY <2>2 DEF StillExhausted
    <2> QED
      BY <1>2, <2>3
  <1> QED
    BY <1>5, <1>6

LEMMA SelectKeepsRotation ==
    ASSUME RotationInv, NEW n \in Pooled, NEW first, NEW then, NEW k, Select(n, first, then, k)
    PROVE  RotationInv'
  <1> DEFINE tired == StillExhausted(n, first)
  <1>1. /\ k = Choice(n, then)
        /\ exhausted' = [exhausted EXCEPT ![n] = tired \ {k}]
        /\ index' = [index EXCEPT ![n] = IF k = NoKey THEN @ ELSE NextIndex(k)]
        /\ waited' = [waited EXCEPT ![n] = IF k = NoKey THEN @ ELSE Bump(n, k, tired)]
    BY DEF Select
  <1>2. tired \subseteq exhausted[n] /\ exhausted[n] \subseteq KeyIds
    BY DEF StillExhausted, RotationInv
  <1>3. exhausted' \in [Pooled -> SUBSET KeyIds]
    BY <1>1, <1>2 DEF RotationInv
  <1>4. CASE k = NoKey
    BY <1>1, <1>3, <1>4 DEF RotationInv
  <1>5. CASE k # NoKey
    <2>1. /\ k \in KeyIds
          /\ \A x \in KeyIds \ exhausted[n] : Ahead(index[n], k) <= Ahead(index[n], x)
      BY <1>1, <1>5, ChoiceIsNext
    <2>2. index[n] \in KeyIds /\ waited[n] \in [KeyIds -> Nat]
      BY DEF RotationInv
    <2>3. NextIndex(k) \in KeyIds /\ NextIndex(k) = IF k + 1 = NumKeys THEN 0 ELSE k + 1
      BY <2>1, <2>2, KeysAhead
    <2>4. index' = [index EXCEPT ![n] = NextIndex(k)] /\ waited' = [waited EXCEPT ![n] = Bump(n, k, tired)]
      BY <1>1, <1>5
    <2>5. Bump(n, k, tired) \in [KeyIds -> Nat]
      BY <2>2 DEF Bump
    <2>6. ASSUME NEW x \in KeyIds PROVE Bump(n, k, tired)[x] + Ahead(NextIndex(k), x) < NumKeys
      <3>1. /\ NumKeys \in Nat /\ NumKeys >= 1 /\ index[n] \in 0 .. NumKeys - 1
            /\ x \in 0 .. NumKeys - 1 /\ k \in 0 .. NumKeys - 1
        BY <2>1, <2>2, SomeKeys DEF KeyIds
      <3>2. Ahead(NextIndex(k), x) \in 0 .. NumKeys - 1
        BY <2>3, KeysAhead DEF KeyIds
      <3>3. CASE Bump(n, k, tired)[x] = 0
        BY <3>1, <3>2, <3>3
      <3>4. CASE ~(x = k \/ x \in tired \/ x \in exhausted[n])
        <4>1. Bump(n, k, tired)[x] = waited[n][x] + 1
          BY <3>4 DEF Bump
        <4>2. Ahead(index[n], k) <= Ahead(index[n], x) /\ x # k
          BY <2>1, <3>4
        <4>3. Ahead(NextIndex(k), x) = Ahead(index[n], x) - Ahead(index[n], k) - 1
          BY <2>3, <3>1, <4>2 DEF Ahead
        <4>4. waited[n][x] + Ahead(index[n], x) < NumKeys /\ waited[n][x] \in Nat
          BY <2>2 DEF RotationInv
        <4>5. Ahead(index[n], k) \in Nat /\ Ahead(index[n], x) \in Nat
          BY <3>1 DEF Ahead
        <4> QED
          BY <3>1, <4>1, <4>3, <4>4, <4>5
      <3> QED
        BY <3>3, <3>4 DEF Bump
    <2>7. ASSUME NEW m \in Pooled, NEW x \in KeyIds
          PROVE  waited'[m][x] + Ahead(index'[m], x) < NumKeys
      <3>1. CASE m = n
        BY <2>4, <2>6, <3>1 DEF RotationInv
      <3>2. CASE m # n
        BY <2>4, <3>2 DEF RotationInv
      <3> QED
        BY <3>1, <3>2
    <2> QED
      BY <1>3, <2>3, <2>4, <2>5, <2>7 DEF RotationInv
  <1> QED
    BY <1>4, <1>5

LEMMA AsideKeepsRotation ==
    ASSUME RotationInv, UNCHANGED <<exhausted, index, waited>>
    PROVE  RotationInv'
  BY DEF RotationInv

(* A key that tires or has rested moves nothing on.                        *)
LEMMA TiredKeepsRotation ==
    ASSUME RotationInv, NEW n \in Pooled, NEW k \in KeyIds, MarkExhausted(n, k) \/ Recover(n)
    PROVE  RotationInv'
  <1>1. exhausted' \in [Pooled -> SUBSET KeyIds]
    BY DEF MarkExhausted, Recover, StillExhausted, RotationInv
  <1>2. CASE Recover(n)
    BY <1>1, <1>2 DEF Recover, RotationInv
  <1>3. CASE MarkExhausted(n, k)
    <2>1. index' = index /\ waited' = [waited EXCEPT ![n][k] = 0]
      BY <1>3 DEF MarkExhausted
    <2>2. \A m \in Pooled, x \in KeyIds : waited'[m][x] \in {0, waited[m][x]}
      BY <2>1 DEF RotationInv
    <2>3. waited' \in [Pooled -> [KeyIds -> Nat]]
      BY <2>1 DEF RotationInv
    <2>4. ASSUME NEW m \in Pooled, NEW x \in KeyIds
          PROVE  waited'[m][x] + Ahead(index'[m], x) < NumKeys
      <3>1. Ahead(index[m], x) \in Nat /\ waited[m][x] \in Nat
            /\ waited[m][x] + Ahead(index[m], x) < NumKeys
        <4>1. index[m] \in KeyIds
          BY DEF RotationInv
        <4>2. Ahead(index[m], x) \in Nat
          BY <4>1, KeysAhead
        <4> QED
          BY <4>2 DEF RotationInv
      <3> QED
        BY <2>1, <2>2, <3>1, SomeKeys
    <2> QED
      BY <1>1, <2>1, <2>3, <2>4 DEF RotationInv
  <1> QED
    BY <1>2, <1>3

(* A start takes the first key of the model's pool.                        *)
LEMMA StartKeepsRotation ==
    ASSUME StartProgram
    PROVE  RotationInv'
  <1>1. PICK n \in StartChoice(saved) :
               /\ index' = [m \in Pooled |-> IF m = n THEN NextIndex(0) ELSE 0]
               /\ waited' = [m \in Pooled |-> [k \in KeyIds |->
                                IF m = n /\ k # 0 THEN 1 ELSE 0]]
    BY Zenon DEF StartProgram
  <1>2. exhausted' = [m \in Pooled |-> {}]
    BY DEF StartProgram
  <1>3. 0 \in KeyIds /\ NextIndex(0) \in KeyIds /\ NextIndex(0) = IF NumKeys = 1 THEN 0 ELSE 1
    BY SomeKeys, KeysAhead
  <1>4. index' \in [Pooled -> KeyIds] /\ waited' \in [Pooled -> [KeyIds -> Nat]]
    BY <1>1, <1>3
  <1>5. ASSUME NEW m \in Pooled, NEW k \in KeyIds
        PROVE  waited'[m][k] + Ahead(index'[m], k) < NumKeys
    <2>1. NumKeys \in Nat /\ NumKeys >= 1 /\ k \in 0 .. NumKeys - 1
      BY SomeKeys DEF KeyIds
    <2>2. CASE m = n
      <3>1. index'[m] = NextIndex(0) /\ waited'[m][k] = IF k # 0 THEN 1 ELSE 0
        BY <1>1, <2>2
      <3> QED
        BY <1>3, <2>1, <3>1 DEF Ahead
    <2>3. CASE m # n
      <3>1. index'[m] = 0 /\ waited'[m][k] = 0
        BY <1>1, <2>3
      <3> QED
        BY <2>1, <3>1 DEF Ahead
    <2> QED
      BY <2>2, <2>3
  <1> QED
    BY <1>2, <1>4, <1>5 DEF RotationInv

LEMMA RotationStep == RotationInv /\ [ModelsNext]_modelsVars => RotationInv'
  <1> SUFFICES ASSUME RotationInv, [ModelsNext]_modelsVars PROVE RotationInv'
    OBVIOUS
  <1>1. CASE UNCHANGED modelsVars \/ AdvanceClock \/ RouterNext \/ StopProgram
    <2>1. UNCHANGED <<exhausted, index, waited>>
      BY <1>1 DEF modelsVars, poolVars, AdvanceClock, RouterNext, Register, BeginCall, TryCandidate,
                  StopProgram
    <2> QED
      BY <2>1, AsideKeepsRotation
  <1>2. ASSUME NEW n \in Pooled, NEW k \in KeyIds, MarkExhausted(n, k) PROVE RotationInv'
    BY <1>2, TiredKeepsRotation
  <1>3. ASSUME NEW n \in Pooled, Recover(n) PROVE RotationInv'
    BY <1>3, SomeKeys, TiredKeepsRotation
  <1>4. ASSUME NEW n \in Names \cup {NoModel}, SwitchModel(n) PROVE RotationInv'
    <2>1. PICK ok \in BOOLEAN : Build(n, ok)
      BY <1>4 DEF SwitchModel
    <2>2. CASE n \notin Names \/ n \notin Pooled
      BY <2>1, <2>2, AsideKeepsRotation DEF Build, poolVars
    <2>3. CASE n \in Names /\ n \in Pooled
      BY <2>1, <2>3, SelectKeepsRotation DEF Build
    <2> QED
      BY <2>2, <2>3
  <1> QED
    BY <1>1, <1>2, <1>3, <1>4, StartKeepsRotation DEF ModelsNext, KeysNext

LEMMA RotationStart == ModelsInit => RotationInv
  <1>1. \A k \in KeyIds : 0 + Ahead(0, k) < NumKeys
    BY SomeKeys DEF Ahead, KeyIds
  <1> QED
    BY <1>1, SomeKeys DEF ModelsInit, RotationInv

(* Select (pool.go:53): for any number of keys, and however they tire and  *)
(* recover, a key that stays healthy is never passed over NumKeys times.   *)
THEOREM KeysRotate == ModelsSpec => []RotationServes
  <1>1. RotationInv => RotationServes
    <2> SUFFICES ASSUME RotationInv, NEW n \in Pooled, NEW k \in KeyIds PROVE waited[n][k] < NumKeys
      BY DEF RotationServes
    <2>1. index[n] \in KeyIds /\ waited[n][k] \in Nat /\ waited[n][k] + Ahead(index[n], k) < NumKeys
      BY DEF RotationInv
    <2>2. Ahead(index[n], k) \in Nat
      BY <2>1, KeysAhead
    <2> QED
      BY <2>1, <2>2, SomeKeys
  <1> QED
    BY <1>1, RotationStart, RotationStep, PTL DEF ModelsSpec

-----------------------------------------------------------------------------
(***************************************************************************)
(* The poll loops of the WeChat channel, for any number of logins,         *)
(* commands and messages.  As long as no command came while Start's login  *)
(* was waiting, whoever begins a loop has waited for the others to end and *)
(* has a token nobody polled with before; so one loop at most polls, and   *)
(* what it has not fetched yet nobody has answered.                        *)
(***************************************************************************)

WeixinTypes ==
    /\ logins \in 0 .. MaxLogins /\ file \in 0 .. logins /\ client \in 0 .. logins
    /\ connected \in BOOLEAN /\ raced \in BOOLEAN
    /\ doing \in [Starters -> {"idle", "begin", "qr", "client", "connected",
                               "loginStop", "logoutStop", "loginWait", "logoutWait"}]
    /\ polling \in [Pollers -> {"none", "check", "get", "handle", "submit", "reply", "over"}]
    /\ sent \in [Tokens -> 0 .. MaxWritten]
    /\ saver \in [Messages -> [at : {"none", "load", "write", "over"}, token : 0 .. MaxLogins]]
    /\ \A m \in Messages : saver[m].token <= logins
    /\ answers \in [Messages -> Nat]

NoLoop == \A p \in Pollers : ~Live(p)
Waiting == {"begin", "qr", "client", "loginWait", "logoutWait"}

(* Who is at work, and whether the channel is connected. *)
OneAtWork == doing["start"] = "idle" \/ doing["command"] = "idle"

QuietMeanwhile ==
    \A s \in Starters : /\ doing[s] \in Waiting => ~connected /\ NoLoop
                        /\ doing[s] = "connected" => connected /\ NoLoop

QuietAfterwards ==
    doing["start"] = "idle" /\ doing["command"] = "idle" /\ ~connected => NoLoop

OneLoop == \A p, q \in Pollers : Live(p) /\ Live(q) => p = q

LoopsAlone == OneAtWork /\ QuietMeanwhile /\ QuietAfterwards /\ OneLoop

(* Which messages have been answered. *)
Unanswered(m) == answers[m] = 0

NewTokenUnanswered ==
    /\ \A m \in Messages : m.token > logins => Unanswered(m)
    /\ doing["start"] = "begin" => \A m \in Messages : Unanswered(m)
    /\ \A s \in Starters : doing[s] \in {"client", "connected"} =>
          /\ client # NoToken
          /\ \A m \in Messages : m.token = client => Unanswered(m)

UnfetchedUnanswered ==
    \A p \in Pollers : Live(p) =>
       /\ client # NoToken
       /\ \A m \in Messages : m.token = client /\ m.place > buf[p] => Unanswered(m)

PendingUnanswered ==
    \A p \in Pollers : polling[p] \in {"handle", "submit", "reply"} =>
       /\ pending[p] # {}
       /\ \A m \in pending[p] : m.token = client /\ m.place <= buf[p] /\ Unanswered(m)

AnsweredOnce == \A m \in Messages : answers[m] <= 1

Fetched ==
    /\ buf \in [Pollers -> 0 .. MaxWritten]
    /\ pending \in [Pollers -> SUBSET Messages]

Answers == Fetched /\ NewTokenUnanswered /\ UnfetchedUnanswered /\ PendingUnanswered /\ AnsweredOnce

WeixinInd == WeixinTypes /\ (~raced => LoopsAlone /\ Answers)

LEMMA WeixinBounds == MaxLogins \in Nat /\ MaxWritten \in Nat
  BY WeixinAssumption

LEMMA WeixinStarts == WeixinInit => WeixinInd
  <1> SUFFICES ASSUME WeixinInit PROVE WeixinInd
    OBVIOUS
  <1>1. WeixinTypes
    <2>1. logins \in 0 .. MaxLogins /\ file \in 0 .. logins /\ client \in 0 .. logins
      BY WeixinAssumption DEF WeixinInit, NoToken, Tokens
    <2>2. connected \in BOOLEAN /\ raced \in BOOLEAN
      BY DEF WeixinInit
    <2>3. /\ sent \in [Tokens -> 0 .. MaxWritten]
          /\ answers \in [Messages -> Nat]
      BY WeixinAssumption DEF WeixinInit
    <2>4. doing \in [Starters -> {"idle", "begin", "qr", "client", "connected",
                               "loginStop", "logoutStop", "loginWait", "logoutWait"}]
      BY DEF WeixinInit
    <2>5. polling \in [Pollers -> {"none", "check", "get", "handle", "submit", "reply", "over"}]
      BY DEF WeixinInit
    <2>6. /\ saver \in [Messages -> [at : {"none", "load", "write", "over"}, token : 0 .. MaxLogins]]
          /\ \A m \in Messages : saver[m].token <= logins
      BY <2>1, WeixinAssumption DEF WeixinInit, NoToken
    <2> QED
      BY <2>1, <2>2, <2>3, <2>4, <2>5, <2>6 DEF WeixinTypes
  <1>2. LoopsAlone
    BY DEF WeixinInit, LoopsAlone, OneAtWork, QuietMeanwhile, QuietAfterwards, OneLoop, NoLoop,
           Live, Starters, Waiting
  <1>3. Answers
    BY WeixinAssumption DEF Fetched, WeixinInit, Answers, NewTokenUnanswered, UnfetchedUnanswered, PendingUnanswered,
           AnsweredOnce, Live, Starters, Unanswered
  <1> QED
    BY <1>1, <1>2, <1>3 DEF WeixinInd

(* Steps by Start, a login or a command that leave the loops' own state    *)
(* alone.                                                                  *)
LEMMA StartKeepsWeixin ==
    ASSUME WeixinInd, Start
    PROVE  WeixinInd'
  <1>1. /\ doing["start"] = "begin"
        /\ client' = IF file # NoToken THEN file ELSE client
        /\ doing' = [doing EXCEPT !["start"] = IF file # NoToken THEN "client" ELSE "qr"]
        /\ UNCHANGED <<file, connected, logins, polling, buf, pending, sent, saver, answers, raced>>
    BY DEF Start, DoNext, loginVars, pollVars, messageVars
  <1>2. WeixinTypes'
    BY <1>1 DEF WeixinInd, WeixinTypes, Starters, NoToken
  <1>3. ASSUME ~raced PROVE LoopsAlone' /\ Answers'
    <2>1. LoopsAlone /\ Answers /\ NoLoop /\ ~connected /\ doing["command"] = "idle"
      BY <1>1, <1>3 DEF WeixinInd, LoopsAlone, QuietMeanwhile, Waiting, Starters, OneAtWork
    <2>2. LoopsAlone'
      BY <1>1, <2>1 DEF LoopsAlone, OneAtWork, QuietMeanwhile, QuietAfterwards, OneLoop, NoLoop,
           Live, Starters, Waiting, WeixinInd, WeixinTypes
    <2>3. Answers'
      BY <1>1, <2>1 DEF Answers, Fetched, NewTokenUnanswered, UnfetchedUnanswered, PendingUnanswered,
           AnsweredOnce, Live, NoLoop, Starters, Unanswered, WeixinInd, WeixinTypes, NoToken
    <2> QED
      BY <2>2, <2>3
  <1> QED
    BY <1>1, <1>2, <1>3 DEF WeixinInd

LEMMA LoginKeepsWeixin ==
    ASSUME WeixinInd, NEW s \in Starters,
           LoginFails(s) \/ CodeExpires(s) \/ LoginConfirmed(s) \/ SetConnected(s)
    PROVE  WeixinInd'
  <1>1. UNCHANGED <<polling, buf, pending, sent, saver, answers, raced>>
    BY DEF LoginFails, CodeExpires, LoginConfirmed, SetConnected, pollVars, messageVars
  <1>2. \/ /\ doing[s] = "qr" /\ doing' = [doing EXCEPT ![s] = "idle"]
           /\ UNCHANGED <<file, client, connected, logins>>
        \/ UNCHANGED <<file, client, connected, logins, doing>>
        \/ /\ doing[s] = "qr" /\ doing' = [doing EXCEPT ![s] = "client"]
           /\ logins < MaxLogins /\ logins' = logins + 1 /\ file' = logins + 1
           /\ client' = logins + 1 /\ connected' = connected
        \/ /\ doing[s] = "client" /\ doing' = [doing EXCEPT ![s] = "connected"]
           /\ connected' = TRUE /\ UNCHANGED <<file, client, logins>>
    BY DEF LoginFails, CodeExpires, LoginConfirmed, SetConnected, DoNext, loginVars, accountVars
  <1>3. WeixinTypes'
    <2>1. /\ logins' \in 0 .. MaxLogins /\ file' \in 0 .. logins' /\ client' \in 0 .. logins'
          /\ connected' \in BOOLEAN /\ logins' >= logins
      <3>1. /\ logins \in Nat /\ logins <= MaxLogins /\ file \in 0 .. logins
            /\ client \in 0 .. logins
        BY WeixinBounds DEF WeixinInd, WeixinTypes
      <3>2. \/ UNCHANGED <<file, client, logins>>
            \/ logins < MaxLogins /\ logins' = logins + 1 /\ file' = logins + 1 /\ client' = logins + 1
        BY <1>2
      <3>3. connected' = TRUE \/ connected' = connected
        BY <1>2
      <3>4. connected' \in BOOLEAN
        BY <3>3, Zenon DEF WeixinInd, WeixinTypes
      <3>5. /\ logins' \in 0 .. MaxLogins /\ file' \in 0 .. logins' /\ client' \in 0 .. logins'
            /\ logins' >= logins
        BY <3>1, <3>2, WeixinBounds
      <3> QED
        BY <3>4, <3>5
    <2>2. doing' \in [Starters -> {"idle", "begin", "qr", "client", "connected",
                               "loginStop", "logoutStop", "loginWait", "logoutWait"}]
      <3>1. \/ doing' = doing
            \/ \E v \in {"idle", "client", "connected"} : doing' = [doing EXCEPT ![s] = v]
        BY <1>2
      <3> QED
        BY <3>1 DEF WeixinInd, WeixinTypes
    <2>3. \A m \in Messages : saver'[m].token <= logins'
      BY <1>1, <2>1 DEF WeixinInd, WeixinTypes
    <2> QED
      BY <1>1, <2>1, <2>2, <2>3 DEF WeixinInd, WeixinTypes
  <1>4. ASSUME ~raced PROVE LoopsAlone' /\ Answers'
    <2>1. LoopsAlone /\ Answers /\ WeixinTypes
      BY <1>4 DEF WeixinInd
    <2>2. CASE UNCHANGED <<file, client, connected, logins, doing>>
      BY <1>1, <2>1, <2>2 DEF LoopsAlone, OneAtWork, QuietMeanwhile, QuietAfterwards, OneLoop,
           NoLoop, Live, Answers, Fetched, NewTokenUnanswered, UnfetchedUnanswered, PendingUnanswered,
           AnsweredOnce, Unanswered
    <2>3. CASE doing[s] \in {"qr", "client"}
      <3>1. NoLoop /\ ~connected /\ \A t \in Starters : t # s => doing[t] = "idle"
        BY <2>1, <2>3 DEF LoopsAlone, QuietMeanwhile, Waiting, OneAtWork, Starters
      <3>2. LoopsAlone'
        BY <1>1, <1>2, <2>1, <2>3, <3>1 DEF LoopsAlone, OneAtWork, QuietMeanwhile,
           QuietAfterwards, OneLoop, NoLoop, Live, Starters, Waiting, WeixinTypes
      <3>3. NewTokenUnanswered'
        BY <1>1, <1>2, <2>1, <2>3, <3>1 DEF Answers, NewTokenUnanswered, Unanswered, Starters,
           WeixinTypes, NoToken, Messages, Tokens
      <3>4. Fetched' /\ UnfetchedUnanswered' /\ PendingUnanswered' /\ AnsweredOnce'
        BY <1>1, <2>1, <3>1 DEF Answers, Fetched, UnfetchedUnanswered, PendingUnanswered, AnsweredOnce,
           NoLoop, Live, Unanswered
      <3> QED
        BY <3>2, <3>3, <3>4 DEF Answers
    <2> QED
      BY <1>2, <2>2, <2>3
  <1> QED
    BY <1>1, <1>3, <1>4 DEF WeixinInd

(* The one place that begins a loop. *)
LEMMA PollingKeepsWeixin ==
    ASSUME WeixinInd, NEW s \in Starters, StartPolling(s)
    PROVE  WeixinInd'
  <1>1. PICK p \in Pollers : polling[p] = "none" /\ polling' = [polling EXCEPT ![p] = "check"]
    BY DEF StartPolling
  <1>2. /\ doing[s] = "connected" /\ doing' = [doing EXCEPT ![s] = "idle"]
        /\ UNCHANGED <<file, client, connected, logins, buf, pending, sent, saver, answers, raced>>
    BY DEF StartPolling, DoNext, accountVars, loginVars, messageVars
  <1>3. WeixinTypes'
    BY <1>1, <1>2 DEF WeixinInd, WeixinTypes
  <1>4. ASSUME ~raced PROVE LoopsAlone' /\ Answers'
    <2>1. LoopsAlone /\ Answers /\ WeixinTypes
      BY <1>4 DEF WeixinInd
    <2>2. NoLoop /\ \A t \in Starters : t # s => doing[t] = "idle"
      BY <1>2, <2>1 DEF LoopsAlone, QuietMeanwhile, OneAtWork, Starters
    <2>3. \A q \in Pollers : Live(q)' => q = p
      BY <1>1, <2>1, <2>2 DEF NoLoop, Live, WeixinTypes
    <2>4. \A t \in Starters : doing'[t] = "idle"
      BY <1>2, <2>1, <2>2 DEF WeixinTypes
    <2>5. connected
      BY <1>2, <2>1 DEF LoopsAlone, QuietMeanwhile
    <2>6. LoopsAlone'
      BY <1>2, <2>3, <2>4, <2>5 DEF LoopsAlone, OneAtWork, QuietMeanwhile,
           QuietAfterwards, OneLoop, Starters, Waiting
    <2>7. Answers'
      <3>1. Fetched' /\ NewTokenUnanswered' /\ AnsweredOnce'
        BY <1>2, <2>1, <2>4 DEF Answers, Fetched, NewTokenUnanswered, AnsweredOnce, Unanswered, Starters
      <3>2. UnfetchedUnanswered'
        BY <1>2, <2>1, <2>3 DEF Answers, NewTokenUnanswered, UnfetchedUnanswered, Unanswered
      <3>3. PendingUnanswered'
        BY <1>1, <2>1, <2>2, <2>3 DEF PendingUnanswered, Live, WeixinTypes
      <3> QED
        BY <3>1, <3>2, <3>3 DEF Answers
    <2> QED
      BY <2>6, <2>7
  <1> QED
    BY <1>2, <1>3, <1>4 DEF WeixinInd

LEMMA CommandKeepsWeixin ==
    ASSUME WeixinInd, Login \/ Logout
    PROVE  WeixinInd'
  <1>1. /\ doing["command"] = "idle" /\ raced' = (raced \/ doing["start"] # "idle")
        /\ UNCHANGED <<file, client, connected, logins, polling, buf, pending, sent, saver, answers>>
    BY DEF Login, Logout, Command, NewCommand, accountVars, loginVars, pollVars, messageVars
  <1>2. PICK what \in {"loginStop", "loginWait", "logoutStop"} :
           /\ doing' = [doing EXCEPT !["command"] = what]
           /\ what = "loginWait" => ~connected
    BY DEF Login, Logout, Command, DoNext
  <1>3. WeixinTypes'
    <2>1. raced' \in BOOLEAN
      BY <1>1
    <2>2. doing' \in [Starters -> {"idle", "begin", "qr", "client", "connected",
                               "loginStop", "logoutStop", "loginWait", "logoutWait"}]
      BY <1>2 DEF WeixinInd, WeixinTypes
    <2> QED
      BY <1>1, <2>1, <2>2 DEF WeixinInd, WeixinTypes
  <1>4. ASSUME ~raced' PROVE LoopsAlone' /\ Answers'
    <2>1. LoopsAlone /\ Answers /\ WeixinTypes /\ doing["start"] = "idle" /\ doing["command"] = "idle"
      BY <1>1, <1>4 DEF WeixinInd
    <2>2. doing'["start"] = "idle" /\ doing'["command"] = what
      BY <1>2, <2>1 DEF WeixinTypes, Starters
    <2>3. what = "loginWait" => NoLoop
      BY <1>2, <2>1 DEF LoopsAlone, QuietAfterwards
    <2>4. OneAtWork' /\ QuietMeanwhile' /\ QuietAfterwards'
      BY <1>1, <1>2, <2>2, <2>3 DEF OneAtWork, QuietMeanwhile, QuietAfterwards, Starters, Waiting,
                                    NoLoop, Live
    <2>5. LoopsAlone'
      BY <1>1, <2>1, <2>4 DEF LoopsAlone, OneLoop, Live
    <2>6. NewTokenUnanswered'
      BY <1>1, <2>1, <2>2 DEF Answers, NewTokenUnanswered, Starters, Unanswered
    <2>7. Fetched' /\ UnfetchedUnanswered' /\ PendingUnanswered' /\ AnsweredOnce'
      BY <1>1, <2>1 DEF Answers, Fetched, UnfetchedUnanswered, PendingUnanswered, AnsweredOnce, Live, Unanswered
    <2> QED
      BY <2>5, <2>6, <2>7 DEF Answers
  <1> QED
    BY <1>3, <1>4 DEF WeixinInd

(* The command goes on when no loop is left.                               *)
LEMMA CommandStepKeepsWeixin ==
    ASSUME WeixinInd, CommandStep
    PROVE  WeixinInd'
  <1>1. UNCHANGED <<client, logins, polling, buf, pending, sent, saver, answers, raced>>
    BY DEF CommandStep, LoginStopped, LogoutStopped, StartLogin, LogoutEnds, Stopped,
           loginVars, pollVars, messageVars
  <1>2. /\ doing["command"] \in {"loginStop", "logoutStop", "loginWait", "logoutWait"} /\ NoLoop
        /\ file' \in {file, NoToken}
    BY DEF CommandStep, LoginStopped, LogoutStopped, StartLogin, LogoutEnds, Stopped, Forget,
           LoopsDone, NoLoop, accountVars
  <1>3. PICK what \in {"loginWait", "logoutWait", "qr", "idle"} :
           /\ doing' = [doing EXCEPT !["command"] = what]
           /\ connected' = IF what = "qr" THEN connected ELSE FALSE
           /\ what = "qr" => doing["command"] = "loginWait"
    BY DEF CommandStep, LoginStopped, LogoutStopped, StartLogin, LogoutEnds, Stopped, DoNext
  <1>4. WeixinTypes'
    <2>1. doing' \in [Starters -> {"idle", "begin", "qr", "client", "connected",
                               "loginStop", "logoutStop", "loginWait", "logoutWait"}]
      BY <1>3 DEF WeixinInd, WeixinTypes
    <2>2. file' \in 0 .. logins' /\ connected' \in BOOLEAN
      <3>1. file \in 0 .. logins /\ logins \in Nat
        BY WeixinBounds DEF WeixinInd, WeixinTypes
      <3>2. file' \in 0 .. logins'
        BY <1>1, <1>2, <3>1 DEF NoToken
      <3>3. connected' = FALSE \/ connected' = connected
        BY <1>3
      <3>4. connected' \in BOOLEAN
        BY <3>3, Zenon DEF WeixinInd, WeixinTypes
      <3> QED
        BY <3>2, <3>4
    <2> QED
      BY <1>1, <2>1, <2>2 DEF WeixinInd, WeixinTypes
  <1>5. ASSUME ~raced PROVE LoopsAlone' /\ Answers'
    <2>1. LoopsAlone /\ Answers /\ WeixinTypes
      BY <1>5 DEF WeixinInd
    <2>2. doing'["start"] = "idle" /\ doing'["command"] = what /\ ~connected'
      BY <1>2, <1>3, <2>1 DEF LoopsAlone, OneAtWork, QuietMeanwhile, Waiting, WeixinTypes, Starters
    <2>3. NoLoop'
      BY <1>1, <1>2 DEF NoLoop, Live
    <2>4. LoopsAlone'
      BY <2>2, <2>3 DEF LoopsAlone, OneAtWork, QuietMeanwhile, QuietAfterwards, OneLoop, NoLoop,
                        Starters
    <2>5. NewTokenUnanswered'
      BY <1>1, <2>1, <2>2 DEF Answers, NewTokenUnanswered, Starters, Unanswered
    <2>6. Fetched' /\ UnfetchedUnanswered' /\ PendingUnanswered' /\ AnsweredOnce'
      BY <1>1, <2>1 DEF Answers, Fetched, UnfetchedUnanswered, PendingUnanswered, AnsweredOnce, Live, Unanswered
    <2> QED
      BY <2>4, <2>5, <2>6 DEF Answers
  <1> QED
    BY <1>1, <1>4, <1>5 DEF WeixinInd

(* Users write, and the account is saved: loops and answers stay.          *)
LEMMA SaveKeepsWeixin ==
    ASSUME WeixinInd, UserWrites \/ \E m \in Messages : SaveLoads(m) \/ SaveWrites(m)
    PROVE  WeixinInd'
  <1>1. UNCHANGED <<client, connected, logins, doing, polling, buf, pending, answers, raced>>
    BY DEF UserWrites, SaveLoads, SaveWrites, loginVars, pollVars
  <1>2. CASE UserWrites
    <2>1. sent' \in [Tokens -> 0 .. MaxWritten]
      <3>1. logins \in Tokens /\ sent[logins] < MaxWritten /\ sent' = [sent EXCEPT ![logins] = @ + 1]
        BY <1>2, WeixinBounds DEF UserWrites, WeixinInd, WeixinTypes, Tokens
      <3>2. sent[logins] + 1 \in 0 .. MaxWritten
        BY <3>1, WeixinBounds DEF WeixinInd, WeixinTypes
      <3> QED
        BY <3>1, <3>2 DEF WeixinInd, WeixinTypes
    <2>2. WeixinTypes'
      BY <1>1, <1>2, <2>1 DEF UserWrites, WeixinInd, WeixinTypes, accountVars
    <2> QED
      BY <1>1, <2>2 DEF WeixinInd, LoopsAlone, OneAtWork, QuietMeanwhile, QuietAfterwards, OneLoop,
           NoLoop, Live, Answers, Fetched, NewTokenUnanswered, UnfetchedUnanswered, PendingUnanswered,
           AnsweredOnce, Unanswered
  <1>3. ASSUME NEW m \in Messages, SaveLoads(m) \/ SaveWrites(m) PROVE WeixinInd'
    <2>1. PICK w \in [at : {"none", "load", "write", "over"}, token : 0 .. MaxLogins] :
             saver' = [saver EXCEPT ![m] = w] /\ w.token <= logins
      <3>1. saver[m] \in [at : {"none", "load", "write", "over"}, token : 0 .. MaxLogins]
        BY DEF WeixinInd, WeixinTypes
      <3>2. saver[m].token <= logins /\ file \in 0 .. MaxLogins /\ file <= logins
        BY WeixinBounds DEF WeixinInd, WeixinTypes
      <3> DEFINE over == [saver[m] EXCEPT !.at = "over"]
                 save == [at |-> "write", token |-> file]
      <3>3. saver' = [saver EXCEPT ![m] = over] \/ saver' = [saver EXCEPT ![m] = save]
        BY <1>3 DEF SaveLoads, SaveWrites, WeixinInd, WeixinTypes
      <3>4. /\ over \in [at : {"none", "load", "write", "over"}, token : 0 .. MaxLogins]
            /\ save \in [at : {"none", "load", "write", "over"}, token : 0 .. MaxLogins]
            /\ over.token <= logins /\ save.token <= logins
        BY <3>1, <3>2
      <3> QED
        BY <3>3, <3>4
    <2>2. file' \in 0 .. logins /\ sent' = sent
      BY <1>3 DEF SaveLoads, SaveWrites, WeixinInd, WeixinTypes, accountVars
    <2>3. WeixinTypes'
      BY <1>1, <2>1, <2>2 DEF WeixinInd, WeixinTypes
    <2> QED
      BY <1>1, <2>3 DEF WeixinInd, LoopsAlone, OneAtWork, QuietMeanwhile, QuietAfterwards, OneLoop,
           NoLoop, Live, Answers, Fetched, NewTokenUnanswered, UnfetchedUnanswered, PendingUnanswered,
           AnsweredOnce, Unanswered
  <1> QED
    BY <1>2, <1>3

(* What a step of a loop leaves alone: everything but the loop itself, the *)
(* answers and the savers.                                                 *)
LEMMA LoopKeepsAlone ==
    ASSUME WeixinTypes, LoopsAlone, NEW p \in Pollers, Live(p),
           \A q \in Pollers : q # p => polling'[q] = polling[q],
           UNCHANGED <<doing, connected>>
    PROVE  LoopsAlone'
  <1>1. \A q \in Pollers : Live(q)' => Live(q)
    BY DEF Live
  <1> QED
    BY <1>1 DEF LoopsAlone, OneAtWork, QuietMeanwhile, QuietAfterwards, OneLoop, NoLoop

LEMMA LoopKeepsAnswers ==
    ASSUME WeixinTypes, LoopsAlone, Answers, NEW p \in Pollers, Live(p),
           \A q \in Pollers : q # p => polling'[q] = polling[q],
           UNCHANGED <<doing, connected, client, logins>>,
           \A m \in Messages :
              answers[m] = 0 => answers'[m] = 0 \/ (m.token = client /\ m.place <= buf'[p]),
           buf'[p] >= buf[p],
           polling'[p] \in {"handle", "submit", "reply"} =>
              /\ pending'[p] # {}
              /\ \A m \in pending'[p] : m.token = client /\ m.place <= buf'[p] /\ answers'[m] = 0,
           \A m \in Messages : answers'[m] <= 1,
           buf' \in [Pollers -> 0 .. MaxWritten], pending' \in [Pollers -> SUBSET Messages]
    PROVE  Answers'
  <1>1. \A q \in Pollers : Live(q)' => q = p
    BY DEF LoopsAlone, OneLoop, Live
  <1>2. client # NoToken /\ client <= logins /\ client \in Nat
    BY DEF Answers, UnfetchedUnanswered, WeixinTypes, NoToken
  <1>3. \A s \in Starters : doing[s] \notin {"begin", "client", "connected"}
    BY DEF LoopsAlone, QuietMeanwhile, NoLoop, Waiting
  <1>4. NewTokenUnanswered'
    BY <1>2, <1>3 DEF Answers, NewTokenUnanswered, Unanswered, Messages, Tokens, Starters, WeixinTypes
  <1>5. UnfetchedUnanswered'
    <2>1. ASSUME NEW m \in Messages, m.token = client, m.place > buf'[p] PROVE Unanswered(m)'
      BY <2>1 DEF Answers, Fetched, UnfetchedUnanswered, Unanswered, WeixinTypes, Messages
    <2> QED
      BY <1>1, <1>2, <2>1 DEF UnfetchedUnanswered
  <1>6. PendingUnanswered'
    BY <1>1 DEF PendingUnanswered, Unanswered, Live
  <1> QED
    BY <1>4, <1>5, <1>6 DEF Answers, Fetched, AnsweredOnce

(* The message a loop handles next is one it has fetched.                  *)
LEMMA FirstIsPending ==
    ASSUME NEW p \in Pollers, pending[p] \in SUBSET Messages, pending[p] # {}
    PROVE  First(p) \in pending[p]
  <1> DEFINE places == {m.place : m \in pending[p]}
  <1>1. places \subseteq 0 .. MaxWritten /\ places # {}
    BY WeixinBounds DEF Messages
  <1>2. \E x \in places : \A y \in places : x <= y
    BY <1>1, WeixinBounds, SmallestNumber
  <1>3. \E m \in pending[p] : \A n \in pending[p] : m.place <= n.place
    BY <1>2
  <1> QED
    BY <1>3 DEF First

(* A set with more than one element is not emptied by one.                 *)
LEMMA OneOfMany ==
    ASSUME NEW S, NEW x \in S, Cardinality(S) # 1
    PROVE  S \ {x} # {}
  <1>1. Cardinality({x}) = 1
    BY FS_Singleton
  <1> QED
    BY <1>1


LEMMA PollKeepsWeixin ==
    ASSUME WeixinInd, NEW p \in Pollers, PollStep(p)
    PROVE  WeixinInd'
  <1>1. UNCHANGED <<file, client, connected, logins, doing, sent, raced>>
    BY DEF PollStep, CheckStop, GetNothing, GetUpdates, HandleMessage, SubmitReturns, SendMessage,
           accountVars, loginVars, messageVars
  <1>2. \E what \in {"check", "get", "handle", "submit", "reply", "over"} :
           polling' = [polling EXCEPT ![p] = what]
    BY DEF PollStep, CheckStop, GetNothing, GetUpdates, HandleMessage, SubmitReturns, SendMessage,
           PollGoesTo
  <1>3. Live(p)
    BY DEF PollStep, CheckStop, GetNothing, GetUpdates, HandleMessage, SubmitReturns,
           SendMessage, Live
  <1>4. /\ polling' \in [Pollers -> {"none", "check", "get", "handle", "submit", "reply", "over"}]
        /\ \A q \in Pollers : q # p => polling'[q] = polling[q]
    BY <1>2 DEF WeixinInd, WeixinTypes
  <1>5. /\ saver' \in [Messages -> [at : {"none", "load", "write", "over"}, token : 0 .. MaxLogins]]
        /\ \A m \in Messages : saver'[m].token <= logins
    <2>1. UNCHANGED saver \/ saver' = [saver EXCEPT ![First(p)].at = IF @ = "none" THEN "load" ELSE @]
      BY DEF PollStep, CheckStop, GetNothing, GetUpdates, HandleMessage, SubmitReturns, SendMessage,
             messageVars
    <2>2. \A m \in Messages : saver'[m] = saver[m] \/ saver'[m] = [saver[m] EXCEPT !.at = "load"]
      BY <2>1 DEF WeixinInd, WeixinTypes
    <2>3. DOMAIN saver' = Messages /\ saver' = [m \in Messages |-> saver'[m]]
      BY <2>1 DEF WeixinInd, WeixinTypes
    <2> QED
      BY <2>2, <2>3 DEF WeixinInd, WeixinTypes
  <1>6. answers' \in [Messages -> Nat]
    <2>1. UNCHANGED answers \/ answers' = [answers EXCEPT ![First(p)] = @ + 1]
      BY DEF PollStep, CheckStop, GetNothing, GetUpdates, HandleMessage, SubmitReturns, SendMessage,
             messageVars
    <2> QED
      BY <2>1 DEF WeixinInd, WeixinTypes
  <1>7. WeixinTypes'
    BY <1>1, <1>4, <1>5, <1>6 DEF WeixinInd, WeixinTypes
  <1>8. ASSUME ~raced PROVE LoopsAlone' /\ Answers'
    <2>1. LoopsAlone /\ Answers /\ WeixinTypes /\ Fetched
      BY <1>8 DEF WeixinInd, Answers
    <2>2. LoopsAlone'
      BY <1>1, <1>3, <1>4, <2>1, LoopKeepsAlone
    <2>3. CASE CheckStop(p) \/ GetNothing(p)
      <3>1. UNCHANGED <<buf, pending, answers>> /\ polling'[p] \in {"over", "get", "check"}
        BY <2>1, <2>3 DEF CheckStop, GetNothing, messageVars, PollGoesTo, WeixinTypes
      <3>2. buf'[p] >= buf[p] /\ \A m \in Messages : answers'[m] <= 1 /\ (answers[m] = 0 => answers'[m] = 0)
        BY <2>1, <3>1 DEF Fetched, Answers, AnsweredOnce, Unanswered
      <3> QED
        BY <1>1, <1>3, <1>4, <2>1, <2>2, <3>1, <3>2, LoopKeepsAnswers DEF Fetched
    <2>4. CASE GetUpdates(p)
      <3>1. /\ sent[client] > buf[p]
            /\ pending' = [pending EXCEPT ![p] = [token : {client}, place : buf[p] + 1 .. sent[client]]]
            /\ buf' = [buf EXCEPT ![p] = sent[client]]
            /\ answers' = answers
        BY <2>4 DEF GetUpdates, messageVars
      <3>2. client \in Tokens /\ sent[client] \in 0 .. MaxWritten /\ buf[p] \in 0 .. MaxWritten
        BY <1>3, <2>1, WeixinAssumption
           DEF Answers, UnfetchedUnanswered, NoToken, Tokens, WeixinTypes, Fetched
      <3>3. /\ pending'[p] = [token : {client}, place : buf[p] + 1 .. sent[client]]
            /\ buf'[p] = sent[client]
        BY <2>1, <3>1 DEF Fetched
      <3>4. pending'[p] \in SUBSET Messages /\ pending'[p] # {}
        <4>1. buf[p] + 1 .. sent[client] \subseteq 1 .. MaxWritten
          BY <3>2, WeixinBounds
        <4>2. sent[client] \in buf[p] + 1 .. sent[client]
          BY <3>1, <3>2, WeixinBounds
        <4>3. [token |-> client, place |-> sent[client]] \in pending'[p]
          BY <3>3, <4>2
        <4>4. ASSUME NEW m \in pending'[p] PROVE m \in Messages
          <5>1. m \in [token : {client}, place : buf[p] + 1 .. sent[client]]
            BY <3>3
          <5> QED
            BY <3>2, <4>1, <5>1 DEF Messages
        <4> QED
          BY <4>3, <4>4
      <3>5. \A m \in pending'[p] : m.token = client /\ m.place <= buf'[p] /\ m.place > buf[p]
        BY <3>2, <3>3
      <3>6. \A m \in pending'[p] : answers'[m] = 0
        BY <1>3, <2>1, <3>1, <3>4, <3>5 DEF Answers, UnfetchedUnanswered, Unanswered
      <3>7. /\ buf' \in [Pollers -> 0 .. MaxWritten] /\ pending' \in [Pollers -> SUBSET Messages]
            /\ buf'[p] >= buf[p]
        BY <2>1, <3>1, <3>2, <3>3, <3>4 DEF Fetched
      <3>8. \A m \in Messages : answers'[m] <= 1 /\ (answers[m] = 0 => answers'[m] = 0)
        BY <2>1, <3>1 DEF Answers, AnsweredOnce, Unanswered
      <3> QED
        BY <1>1, <1>3, <1>4, <2>1, <2>2, <3>4, <3>5, <3>6, <3>7, <3>8, LoopKeepsAnswers
    <2>5. CASE HandleMessage(p) \/ SubmitReturns(p)
      <3>1. /\ UNCHANGED <<buf, answers>> /\ polling[p] \in {"handle", "submit"}
        BY <2>5 DEF HandleMessage, SubmitReturns, messageVars
      <3>2. ~Busy \/ SubmitReturns(p)
        \* the only loop is not the one that submits
        BY <1>3, <2>1, <2>5 DEF HandleMessage, Busy, LoopsAlone, OneLoop, Live
      <3>3. pending' = pending
        BY <2>1, <2>5, <3>2 DEF HandleMessage, SubmitReturns, Fetched
      <3>4. pending[p] # {} /\ \A m \in pending[p] : m.token = client /\ m.place <= buf[p] /\ Unanswered(m)
        BY <2>1, <3>1 DEF Answers, PendingUnanswered
      <3>5. buf'[p] >= buf[p] /\ \A m \in Messages : answers'[m] <= 1 /\ (answers[m] = 0 => answers'[m] = 0)
        BY <2>1, <3>1 DEF Fetched, Answers, AnsweredOnce, Unanswered
      <3>6. \A m \in pending'[p] : m.token = client /\ m.place <= buf'[p] /\ answers'[m] = 0
        BY <2>1, <3>1, <3>3, <3>4 DEF Fetched, Unanswered
      <3> QED
        BY <1>1, <1>3, <1>4, <2>1, <2>2, <3>1, <3>3, <3>4, <3>5, <3>6, LoopKeepsAnswers DEF Fetched
    <2>6. CASE SendMessage(p)
      <3> DEFINE m == First(p)
      <3>1. /\ polling[p] = "reply" /\ buf' = buf
            /\ answers' \in {answers, [answers EXCEPT ![m] = @ + 1]}
            /\ pending' = [pending EXCEPT ![p] = @ \ {m}]
            /\ polling' = [polling EXCEPT ![p] = IF Cardinality(pending[p]) = 1 THEN "check" ELSE "handle"]
        BY <2>6 DEF SendMessage, PollGoesTo
      <3>2. pending[p] # {} /\ \A n \in pending[p] : n.token = client /\ n.place <= buf[p] /\ Unanswered(n)
        BY <2>1, <3>1 DEF Answers, PendingUnanswered
      <3>3. m \in pending[p] /\ pending[p] \in SUBSET Messages
        <4>1. pending[p] \in SUBSET Messages
          BY <2>1 DEF Fetched
        <4> QED
          BY <3>2, <4>1, FirstIsPending
      <3> HIDE DEF m
      <3>4. \A n \in Messages : n # m => answers'[n] = answers[n]
        BY <2>1, <3>1 DEF WeixinTypes
      <3>5. answers[m] = 0 /\ answers'[m] <= 1
        BY <2>1, <3>1, <3>2, <3>3 DEF WeixinTypes, Unanswered
      <3>6. \A n \in Messages : answers'[n] <= 1
        BY <2>1, <3>4, <3>5 DEF Answers, AnsweredOnce
      <3>7. \A n \in Messages :
              answers[n] = 0 => answers'[n] = 0 \/ (n.token = client /\ n.place <= buf'[p])
        BY <3>1, <3>2, <3>3, <3>4 DEF Unanswered
      <3>8. pending'[p] = pending[p] \ {m} /\ pending' \in [Pollers -> SUBSET Messages]
        BY <2>1, <3>1 DEF Fetched
      <3>9. polling'[p] \in {"handle", "submit", "reply"} => pending'[p] # {}
        <4>1. polling'[p] = IF Cardinality(pending[p]) = 1 THEN "check" ELSE "handle"
          BY <2>1, <3>1 DEF WeixinTypes
        <4> QED
          BY <3>3, <3>8, <4>1, OneOfMany
      <3>10. \A n \in pending'[p] : n.token = client /\ n.place <= buf'[p] /\ answers'[n] = 0
        BY <3>1, <3>2, <3>3, <3>4, <3>8 DEF Unanswered
      <3>11. buf'[p] >= buf[p] /\ buf' \in [Pollers -> 0 .. MaxWritten]
        BY <2>1, <3>1 DEF Fetched
      <3> QED
        BY <1>1, <1>3, <1>4, <2>1, <2>2, <3>6, <3>7, <3>8, <3>9, <3>10, <3>11, LoopKeepsAnswers
    <2> QED
      BY <2>2, <2>3, <2>4, <2>5, <2>6 DEF PollStep
  <1> QED
    BY <1>1, <1>7, <1>8 DEF WeixinInd

LEMMA WeixinStep == WeixinInd /\ [WeixinNext]_weixinVars => WeixinInd'
  <1> SUFFICES ASSUME WeixinInd, [WeixinNext]_weixinVars PROVE WeixinInd'
    OBVIOUS
  <1>1. CASE UNCHANGED weixinVars
    <2>1. UNCHANGED <<file, client, connected, logins, doing, polling, buf, pending, sent, saver,
                      answers, raced>>
      BY <1>1 DEF weixinVars, accountVars, loginVars, pollVars, messageVars
    <2>2. WeixinTypes'
      BY <2>1 DEF WeixinInd, WeixinTypes
    <2> QED
      BY <2>1, <2>2 DEF WeixinInd, LoopsAlone, OneAtWork, QuietMeanwhile, QuietAfterwards, OneLoop,
           NoLoop, Live, Answers, Fetched, NewTokenUnanswered, UnfetchedUnanswered,
           PendingUnanswered, AnsweredOnce, Unanswered
  <1>2. CASE Start
    BY <1>2, StartKeepsWeixin
  <1>3. ASSUME NEW s \in Starters, LoginFails(s) \/ CodeExpires(s) \/ LoginConfirmed(s)
                                   \/ SetConnected(s) \/ StartPolling(s)
        PROVE  WeixinInd'
    BY <1>3, LoginKeepsWeixin, PollingKeepsWeixin
  <1>4. CASE Login \/ Logout \/ CommandStep
    BY <1>4, CommandKeepsWeixin, CommandStepKeepsWeixin
  <1>5. CASE UserWrites \/ \E m \in Messages : SaveLoads(m) \/ SaveWrites(m)
    BY <1>5, SaveKeepsWeixin
  <1>6. ASSUME NEW p \in Pollers, PollStep(p) PROVE WeixinInd'
    BY <1>6, PollKeepsWeixin
  <1> QED
    BY <1>1, <1>2, <1>3, <1>4, <1>5, <1>6 DEF WeixinNext

(* The channel's loops (weixin.go:177, 254, 343, 366): unless a command    *)
(* came while Start's login waited, a channel that is not connected polls  *)
(* no more and no message is answered twice, however many logins, logouts  *)
(* and messages there are and however polls and commands interleave.       *)
THEOREM WeixinPollsAlone == WeixinSpec => []PollsAlone
  <1>1. WeixinInd => PollsAlone
    <2> SUFFICES ASSUME WeixinInd, ~raced PROVE PollsAlone
      BY DEF PollsAlone
    <2>1. LoopsAlone /\ Answers
      BY DEF WeixinInd
    <2>2. Settled /\ ~connected => NoLoop
      BY <2>1 DEF LoopsAlone, QuietAfterwards, Settled, Starters
    <2> QED
      BY <2>1, <2>2 DEF PollsAlone, Answers, AnsweredOnce, NoLoop
  <1> QED
    BY <1>1, WeixinStarts, WeixinStep, PTL DEF WeixinSpec

-----------------------------------------------------------------------------
(***************************************************************************)
(* Streamed tool calls, for any number of calls, fragments and replies and *)
(* any capacity of the channel.  A call is on its way in one place only:   *)
(* in the client's hands, waiting to be sent, in the channel, or with the  *)
(* agent; and it carries fragments of its own arguments and of no other's. *)
(***************************************************************************)

OwnUses ==
    {u \in [call : Calls, args : Seq(Calls \X Nat)] :
        \A k \in DOMAIN u.args : u.args[k][1] = u.call}

StreamEvents == {<<"text">>, <<"complete">>} \cup {<<"tool", u>> : u \in OwnUses}

(* The calls of a sequence of events and of a sequence of calls; each once. *)
EventCalls(s) == {s[i][2].call : i \in {j \in DOMAIN s : s[j][1] = "tool"}}
EachEventOnce(s) ==
    \A i, j \in DOMAIN s : s[i][1] = "tool" /\ s[j][1] = "tool" /\ s[i][2].call = s[j][2].call => i = j
UseCalls(s) == {s[i].call : i \in DOMAIN s}
EachUseOnce(s) == \A i, j \in DOMAIN s : s[i].call = s[j].call => i = j

StreamTypes ==
    /\ kind \in {"openai", "claude", "ollama"}
    /\ opened \in Seq(Calls) /\ written \in [Calls -> Nat]
    /\ partial \in Seq(OwnUses) /\ toolUses \in Seq(OwnUses)
    /\ toSend \in Seq(StreamEvents) /\ events \in Seq(StreamEvents)

EachOnce ==
    /\ EachEventOnce(toSend) /\ EachEventOnce(events)
    /\ EachUseOnce(toolUses) /\ EachUseOnce(partial)

Apart ==
    /\ EventCalls(toSend) \cap EventCalls(events) = {}
    /\ EventCalls(toSend) \cap UseCalls(toolUses) = {}
    /\ EventCalls(events) \cap UseCalls(toolUses) = {}
    /\ reader = "reading" =>
          UseCalls(partial) \cap (EventCalls(toSend) \cup EventCalls(events) \cup UseCalls(toolUses)) = {}

Begun ==
    EventCalls(toSend) \cup EventCalls(events) \cup UseCalls(toolUses) \cup UseCalls(partial)
        \subseteq 1 .. Len(opened)

RanOwn ==
    /\ ran \in Seq([call : Calls, args : {<<>>} \cup {Whole(c) : c \in Calls}])
    /\ Len(ran) <= Len(toolUses)
    /\ agent = "acting" => Len(ran) < Len(toolUses)
    /\ agent = "reading" => ran = <<>>
    /\ \A i \in DOMAIN ran : /\ ran[i].call = toolUses[i].call
                             /\ ran[i].args \in {<<>>, Whole(ran[i].call)}

StreamsInd == StreamTypes /\ EachOnce /\ Apart /\ Begun /\ RanOwn

(* Events and sequences of events.                                         *)
LEMMA ToolEvents ==
    /\ \A u \in OwnUses : <<"tool", u>> \in StreamEvents
    /\ <<"text">> \in StreamEvents /\ <<"complete">> \in StreamEvents
    /\ \A e \in StreamEvents : e[1] = "tool" => e[2] \in OwnUses
  BY DEF StreamEvents

LEMMA NoEvents ==
    /\ EventCalls(<<>>) = {} /\ EachEventOnce(<<>>)
    /\ UseCalls(<<>>) = {} /\ EachUseOnce(<<>>)
  BY DEF EventCalls, EachEventOnce, UseCalls, EachUseOnce

LEMMA AppendEvent ==
    ASSUME NEW s \in Seq(StreamEvents), NEW e \in StreamEvents, EachEventOnce(s),
           e[1] = "tool" => e[2].call \notin EventCalls(s)
    PROVE  /\ EachEventOnce(Append(s, e))
           /\ EventCalls(Append(s, e))
                  = EventCalls(s) \cup (IF e[1] = "tool" THEN {e[2].call} ELSE {})
  <1> DEFINE t == Append(s, e)
  <1>1. /\ DOMAIN s = 1 .. Len(s) /\ DOMAIN t = 1 .. Len(s) + 1 /\ Len(s) \in Nat
        /\ \A i \in DOMAIN s : t[i] = s[i]
        /\ t[Len(s) + 1] = e
    OBVIOUS
  <1> HIDE DEF t
  <1>2. EachEventOnce(t)
    BY <1>1 DEF EachEventOnce, EventCalls
  <1>3. EventCalls(t) = EventCalls(s) \cup (IF e[1] = "tool" THEN {e[2].call} ELSE {})
    <2>1. ASSUME NEW x \in EventCalls(t)
          PROVE  x \in EventCalls(s) \cup (IF e[1] = "tool" THEN {e[2].call} ELSE {})
      BY <1>1, <2>1 DEF EventCalls
    <2>2. ASSUME NEW x \in EventCalls(s) PROVE x \in EventCalls(t)
      BY <1>1, <2>2 DEF EventCalls
    <2>3. e[1] = "tool" => e[2].call \in EventCalls(t)
      BY <1>1 DEF EventCalls
    <2> QED
      BY <2>1, <2>2, <2>3
  <1> QED
    BY <1>2, <1>3 DEF t

LEMMA TakeFirst ==
    ASSUME NEW s \in Seq(StreamEvents), s # <<>>, EachEventOnce(s)
    PROVE  /\ Head(s) \in StreamEvents /\ Tail(s) \in Seq(StreamEvents)
           /\ EachEventOnce(Tail(s)) /\ EventCalls(Tail(s)) \subseteq EventCalls(s)
           /\ Head(s)[1] = "tool" => /\ Head(s)[2].call \in EventCalls(s)
                                     /\ Head(s)[2].call \notin EventCalls(Tail(s))
  <1> DEFINE t == Tail(s)
             h == Head(s)
  <1>1. /\ DOMAIN s = 1 .. Len(s) /\ DOMAIN t = 1 .. Len(s) - 1 /\ Len(s) \in Nat \ {0}
        /\ \A i \in DOMAIN t : t[i] = s[i + 1]
        /\ h = s[1] /\ h \in StreamEvents /\ t \in Seq(StreamEvents)
    OBVIOUS
  <1> HIDE DEF t, h
  <1>2. EachEventOnce(t)
    BY <1>1 DEF EachEventOnce
  <1>3. EventCalls(t) \subseteq EventCalls(s)
    BY <1>1 DEF EventCalls
  <1>4. h[1] = "tool" => h[2].call \in EventCalls(s)
    BY <1>1 DEF EventCalls
  <1>5. ASSUME h[1] = "tool", h[2].call \in EventCalls(t) PROVE FALSE
    <2>1. PICK i \in DOMAIN t : t[i][1] = "tool" /\ t[i][2].call = h[2].call
      BY <1>5 DEF EventCalls
    <2> QED
      BY <1>1, <1>5, <2>1 DEF EachEventOnce
  <1> QED
    BY <1>1, <1>2, <1>3, <1>4, <1>5 DEF t, h

LEMMA AppendUse ==
    ASSUME NEW s \in Seq(OwnUses), NEW u \in OwnUses, EachUseOnce(s), u.call \notin UseCalls(s)
    PROVE  EachUseOnce(Append(s, u)) /\ UseCalls(Append(s, u)) = UseCalls(s) \cup {u.call}
  <1> DEFINE t == Append(s, u)
  <1>1. /\ DOMAIN s = 1 .. Len(s) /\ DOMAIN t = 1 .. Len(s) + 1 /\ Len(s) \in Nat
        /\ \A i \in DOMAIN s : t[i] = s[i]
        /\ t[Len(s) + 1] = u
    OBVIOUS
  <1> HIDE DEF t
  <1>2. EachUseOnce(t)
    BY <1>1 DEF EachUseOnce, UseCalls
  <1>3. ASSUME NEW x \in UseCalls(t) PROVE x \in UseCalls(s) \cup {u.call}
    BY <1>1, <1>3 DEF UseCalls
  <1>4. ASSUME NEW x \in UseCalls(s) PROVE x \in UseCalls(t)
    BY <1>1, <1>4 DEF UseCalls
  <1>5. u.call \in UseCalls(t)
    BY <1>1 DEF UseCalls
  <1> QED
    BY <1>2, <1>3, <1>4, <1>5 DEF t

(* openai's calls in any order, and the completion.                        *)
LEMMA OpenAIEvents ==
    ASSUME partial \in Seq(OwnUses), EachUseOnce(partial), NEW s \in OpenAIEnding
    PROVE  /\ s \in Seq(StreamEvents) /\ EachEventOnce(s)
           /\ EventCalls(s) \subseteq UseCalls(partial)
  <1>1. CASE s = <<>>
    BY <1>1, NoEvents
  <1>2. CASE s = <<<<"complete">>>>
    <2>1. s \in Seq(StreamEvents) /\ DOMAIN s = {1} /\ s[1] = <<"complete">>
      BY <1>2, ToolEvents
    <2> QED
      BY <2>1 DEF EachEventOnce, EventCalls
  <1>3. ASSUME NEW order \in SetToSeqs(DOMAIN partial),
               s = [i \in DOMAIN order |-> <<"tool", partial[order[i]]>>] \o <<<<"complete">>>>
        PROVE  /\ s \in Seq(StreamEvents) /\ EachEventOnce(s)
               /\ EventCalls(s) \subseteq UseCalls(partial)
    <2> DEFINE n == Cardinality(DOMAIN partial)
               w == [i \in 1 .. n |-> <<"tool", partial[order[i]]>>]
               t == Append(w, <<"complete">>)
    <2>1. n \in Nat
      <3>1. IsFiniteSet(1 .. Len(partial))
        BY FS_Interval
      <3> QED
        BY <3>1, FS_CardinalityType
    <2>2. /\ order \in [1 .. n -> DOMAIN partial]
          /\ \A i, j \in 1 .. n : order[i] = order[j] => i = j
      BY DEF SetToSeqs
    <2> HIDE DEF n
    <2>3. w \in Seq(StreamEvents) /\ Len(w) = n
      BY <2>1, <2>2, ToolEvents
    <2>4. s = t
      <3>1. DOMAIN order = 1 .. n
        BY <2>2
      <3>2. s = w \o <<<<"complete">>>>
        BY <1>3, <3>1
      <3> HIDE DEF w
      <3> QED
        BY <2>3, <3>2, AppendIsConcat, ToolEvents
    <2>5. EachEventOnce(w)
      BY <2>1, <2>2 DEF EachEventOnce, EachUseOnce
    <2>6. EventCalls(w) \subseteq UseCalls(partial)
      BY <2>1, <2>2 DEF EventCalls, UseCalls
    <2> HIDE DEF w
    <2> QED
      BY <2>3, <2>4, <2>5, <2>6, AppendEvent, ToolEvents
  <1> QED
    BY <1>1, <1>2, <1>3 DEF OpenAIEnding

LEMMA StreamsStart == StreamsInit => StreamsInd
  <1> SUFFICES ASSUME StreamsInit PROVE StreamsInd
    OBVIOUS
  <1>1. StreamTypes
    BY StreamsAssumption DEF StreamsInit, StreamTypes
  <1>2. EachOnce /\ Apart /\ Begun
    BY NoEvents DEF StreamsInit, EachOnce, Apart, Begun
  <1>3. RanOwn
    BY DEF StreamsInit, RanOwn
  <1> QED
    BY <1>1, <1>2, <1>3 DEF StreamsInd

(* A new request: the reply before it is gone.                             *)
LEMMA OpenKeepsStreams ==
    ASSUME StreamsInd, OpenStream
    PROVE  StreamsInd'
  <1>1. /\ kind' = kind /\ opened' = <<>> /\ written' = [c \in Calls |-> 0]
        /\ partial' = <<>> /\ toSend' = <<>> /\ events' = <<>> /\ toolUses' = <<>> /\ ran' = <<>>
        /\ agent' = "reading"
    BY DEF OpenStream
  <1>2. StreamTypes'
    BY <1>1 DEF StreamsInd, StreamTypes
  <1>3. EachOnce' /\ Apart' /\ Begun'
    BY <1>1, NoEvents DEF EachOnce, Apart, Begun
  <1>4. RanOwn'
    BY <1>1 DEF RanOwn
  <1> QED
    BY <1>2, <1>3, <1>4 DEF StreamsInd

(* What only the client and the server change.                             *)
LEMMA RanStays ==
    ASSUME RanOwn, UNCHANGED <<ran, toolUses, agent>>
    PROVE  RanOwn'
  BY DEF RanOwn

LEMMA TextKeepsStreams ==
    ASSUME StreamsInd, TextChunk
    PROVE  StreamsInd'
  <1>1. /\ toSend = <<>> /\ toSend' = <<<<"text">>>>
        /\ UNCHANGED <<kind, reader, opened, written, partial, events, agent, toolUses, ran>>
    BY DEF TextChunk, Scanning
  <1>2. toSend' \in Seq(StreamEvents) /\ EachEventOnce(toSend') /\ EventCalls(toSend') = {}
    <2>1. toSend' \in Seq(StreamEvents) /\ DOMAIN toSend' = {1} /\ toSend'[1][1] = "text"
      BY <1>1, ToolEvents
    <2> QED
      BY <2>1 DEF EachEventOnce, EventCalls
  <1>3. StreamTypes'
    BY <1>1, <1>2 DEF StreamsInd, StreamTypes
  <1>4. EachOnce' /\ Apart' /\ Begun'
    BY <1>1, <1>2 DEF StreamsInd, EachOnce, Apart, Begun
  <1> QED
    BY <1>1, <1>3, <1>4, RanStays DEF StreamsInd

(* A call begins with a number nobody has.                                 *)
LEMMA BeginKeepsStreams ==
    ASSUME StreamsInd, NEW c \in Calls, CallBegins(c)
    PROVE  StreamsInd'
  <1> DEFINE u == [call |-> c, args |-> <<>>]
  <1>1. /\ reader = "reading" /\ c = Len(opened) + 1 /\ opened' = Append(opened, c)
        /\ partial' = Append(partial, u)
        /\ UNCHANGED <<kind, reader, written, toSend, events, agent, toolUses, ran>>
    BY DEF CallBegins, Scanning
  <1>2. u \in OwnUses /\ u.call = c
    BY DEF OwnUses
  <1> HIDE DEF u
  <1>3. Len(opened) \in Nat /\ Len(opened') = Len(opened) + 1
    BY <1>1 DEF StreamsInd, StreamTypes
  <1>4. c \notin EventCalls(toSend) \cup EventCalls(events) \cup UseCalls(toolUses) \cup UseCalls(partial)
    BY <1>1, <1>3 DEF StreamsInd, Begun
  <1>5. EachUseOnce(partial') /\ UseCalls(partial') = UseCalls(partial) \cup {c}
    BY <1>1, <1>2, <1>4, AppendUse DEF StreamsInd, StreamTypes, EachOnce
  <1>6. StreamTypes'
    BY <1>1, <1>2 DEF StreamsInd, StreamTypes
  <1>7. EachOnce'
    BY <1>1, <1>5 DEF StreamsInd, EachOnce
  <1>8. Apart'
    BY <1>1, <1>4, <1>5 DEF StreamsInd, Apart
  <1>9. Begun'
    BY <1>1, <1>3, <1>5 DEF StreamsInd, Begun
  <1> QED
    BY <1>1, <1>6, <1>7, <1>8, <1>9, RanStays DEF StreamsInd

LEMMA MoreArguments ==
    ASSUME NEW c, NEW a, NEW z
    PROVE  [[call |-> c, args |-> a] EXCEPT !.args = Append(@, z)] = [call |-> c, args |-> Append(a, z)]
  OBVIOUS

(* A fragment goes to its own call.                                        *)
LEMMA FragmentKeepsStreams ==
    ASSUME StreamsInd, NEW c \in Calls, Fragment(c)
    PROVE  StreamsInd'
  <1>1. /\ written' = [written EXCEPT ![c] = @ + 1]
        /\ UNCHANGED <<kind, reader, opened, toSend, events, agent, toolUses, ran>>
    BY DEF Fragment
  <1> DEFINE piece == <<c, written'[c]>>
             More(i) == [partial[i] EXCEPT !.args = Append(@, piece)]
  <1>2. partial' = [i \in DOMAIN partial |->
                      IF kind = "openai" /\ partial[i].call = c THEN More(i) ELSE partial[i]]
    BY DEF Fragment, FragmentOf
  <1>3. written' \in [Calls -> Nat] /\ piece \in Calls \X Nat
    BY <1>1 DEF StreamsInd, StreamTypes
  <1>4. ASSUME NEW i \in DOMAIN partial, partial[i].call = c
        PROVE  More(i) \in OwnUses /\ More(i).call = partial[i].call
    <2>1. partial[i] \in OwnUses
      BY DEF StreamsInd, StreamTypes
    <2> DEFINE a == partial[i].args
               b == Append(a, piece)
    <2>2. a \in Seq(Calls \X Nat) /\ \A k \in DOMAIN a : a[k][1] = c
      BY <1>4, <2>1 DEF OwnUses
    <2>3. b \in Seq(Calls \X Nat) /\ DOMAIN b = 1 .. Len(a) + 1 /\ DOMAIN a = 1 .. Len(a)
          /\ b[Len(a) + 1] = piece /\ \A k \in DOMAIN a : b[k] = a[k]
      BY <1>3, <2>2
    <2>4. \A k \in DOMAIN b : b[k][1] = c
      <3>1. piece[1] = c
        OBVIOUS
      <3> HIDE DEF a, b, piece
      <3> QED
        BY <2>2, <2>3, <3>1
    <2>5. More(i) = [call |-> c, args |-> b]
      <3>1. partial[i] = [call |-> c, args |-> a]
        BY <1>4, <2>1 DEF OwnUses
      <3>2. [[call |-> c, args |-> a] EXCEPT !.args = Append(@, piece)] = [call |-> c, args |-> b]
        BY MoreArguments
      <3> HIDE DEF a, b, piece
      <3> QED
        BY <3>1, <3>2
    <2> QED
      BY <1>4, <2>3, <2>4, <2>5 DEF OwnUses
  <1> HIDE DEF More
  <1>5. /\ partial' \in Seq(OwnUses) /\ DOMAIN partial' = DOMAIN partial
        /\ \A i \in DOMAIN partial : partial'[i].call = partial[i].call
    <2>1. partial \in Seq(OwnUses) /\ DOMAIN partial = 1 .. Len(partial) /\ Len(partial) \in Nat
      BY DEF StreamsInd, StreamTypes
    <2>2. \A i \in DOMAIN partial : partial[i] \in OwnUses
      BY <2>1
    <2>3. DOMAIN partial' = DOMAIN partial
      BY <1>2
    <2>4. \A i \in DOMAIN partial : partial'[i] \in OwnUses /\ partial'[i].call = partial[i].call
      BY <1>2, <1>4, <2>2
    <2>5. partial' = [i \in 1 .. Len(partial) |-> partial'[i]]
      BY <1>2, <2>1
    <2> QED
      BY <2>1, <2>3, <2>4, <2>5
  <1>6. EachUseOnce(partial') /\ UseCalls(partial') = UseCalls(partial)
    BY <1>5 DEF StreamsInd, EachOnce, EachUseOnce, UseCalls
  <1>7. StreamTypes'
    BY <1>1, <1>3, <1>5 DEF StreamsInd, StreamTypes
  <1>8. EachOnce' /\ Apart' /\ Begun'
    BY <1>1, <1>6 DEF StreamsInd, EachOnce, Apart, Begun
  <1> QED
    BY <1>1, <1>7, <1>8, RanStays DEF StreamsInd

(* What the client has is handed on.                                       *)
LEMMA HandsOn ==
    ASSUME StreamsInd, Scanning, toSend' \in Seq(StreamEvents), EachEventOnce(toSend'),
           EventCalls(toSend') \subseteq UseCalls(partial),
           \/ partial' = <<>> /\ reader' = reader
           \/ partial' = partial /\ reader' = "closing",
           UNCHANGED <<kind, opened, written, events, agent, toolUses, ran>>
    PROVE  StreamsInd'
  <1>1. StreamTypes'
    <2>1. partial' \in Seq(OwnUses)
      <3>1. CASE partial' = <<>>
        BY <3>1
      <3>2. CASE partial' = partial
        BY <3>2 DEF StreamsInd, StreamTypes
      <3> QED
        BY <3>1, <3>2
    <2> QED
      BY <2>1 DEF StreamsInd, StreamTypes
  <1>2. EachUseOnce(partial') /\ UseCalls(partial') \subseteq UseCalls(partial)
    BY NoEvents DEF StreamsInd, EachOnce
  <1>3. EachOnce'
    BY <1>2 DEF StreamsInd, EachOnce
  <1>4. /\ UseCalls(partial) \cap (EventCalls(events) \cup UseCalls(toolUses)) = {}
        /\ reader' = "reading" => UseCalls(partial') = {}
    BY NoEvents DEF StreamsInd, Apart, Scanning
  <1>5. Apart'
    BY <1>4 DEF StreamsInd, Apart
  <1>6. Begun'
    BY <1>2 DEF StreamsInd, Begun
  <1> QED
    BY <1>1, <1>3, <1>5, <1>6, RanStays DEF StreamsInd

LEMMA BlockKeepsStreams ==
    ASSUME StreamsInd, BlockStops
    PROVE  StreamsInd'
  <1>1. /\ Scanning /\ partial # <<>> /\ toSend' = <<<<"tool", partial[1]>>>> /\ partial' = <<>>
        /\ UNCHANGED <<kind, reader, opened, written, events, agent, toolUses, ran>>
    BY DEF BlockStops, serverVars
  <1>2. 1 \in DOMAIN partial /\ partial[1] \in OwnUses
    BY <1>1 DEF StreamsInd, StreamTypes
  <1>3. toSend' \in Seq(StreamEvents) /\ DOMAIN toSend' = {1} /\ toSend'[1][2] = partial[1]
    BY <1>1, <1>2, ToolEvents
  <1>4. EachEventOnce(toSend') /\ EventCalls(toSend') \subseteq UseCalls(partial)
    BY <1>2, <1>3 DEF EachEventOnce, EventCalls, UseCalls
  <1> QED
    BY <1>1, <1>3, <1>4, HandsOn

LEMMA LastKeepsStreams ==
    ASSUME StreamsInd, LastLine
    PROVE  StreamsInd'
  <1>1. /\ Scanning /\ reader' = "closing"
        /\ UNCHANGED <<kind, partial, opened, written, events, agent, toolUses, ran>>
    BY DEF LastLine, serverVars
  <1>2. toSend' \in OpenAIEnding
    BY DEF LastLine, StreamsInd, StreamTypes, OpenAIEnding, ClaudeEnding, OllamaEnding
  <1>3. /\ toSend' \in Seq(StreamEvents) /\ EachEventOnce(toSend')
        /\ EventCalls(toSend') \subseteq UseCalls(partial)
    BY <1>2, OpenAIEvents DEF StreamsInd, StreamTypes, EachOnce
  <1> QED
    BY <1>1, <1>3, HandsOn

LEMMA SendKeepsStreams ==
    ASSUME StreamsInd, SendEvent
    PROVE  StreamsInd'
  <1> DEFINE e == Head(toSend)
  <1>1. /\ toSend # <<>> /\ events' = Append(events, e) /\ toSend' = Tail(toSend)
        /\ UNCHANGED <<kind, reader, opened, written, partial, agent, toolUses, ran>>
    BY DEF SendEvent, serverVars
  <1>2. /\ e \in StreamEvents /\ toSend' \in Seq(StreamEvents)
        /\ EachEventOnce(toSend') /\ EventCalls(toSend') \subseteq EventCalls(toSend)
        /\ e[1] = "tool" => e[2].call \in EventCalls(toSend) /\ e[2].call \notin EventCalls(toSend')
    BY <1>1, TakeFirst DEF StreamsInd, StreamTypes, EachOnce
  <1> HIDE DEF e
  <1>3. e[1] = "tool" => e[2].call \notin EventCalls(events)
    BY <1>2 DEF StreamsInd, Apart
  <1>4. /\ EachEventOnce(events')
        /\ EventCalls(events') = EventCalls(events) \cup (IF e[1] = "tool" THEN {e[2].call} ELSE {})
    BY <1>1, <1>2, <1>3, AppendEvent DEF StreamsInd, StreamTypes, EachOnce
  <1>5. StreamTypes'
    BY <1>1, <1>2 DEF StreamsInd, StreamTypes
  <1>6. EachOnce'
    BY <1>1, <1>2, <1>4 DEF StreamsInd, EachOnce
  <1>7. Apart'
    BY <1>1, <1>2, <1>4 DEF StreamsInd, Apart
  <1>8. Begun'
    BY <1>1, <1>2, <1>4 DEF StreamsInd, Begun
  <1> QED
    BY <1>1, <1>5, <1>6, <1>7, <1>8, RanStays DEF StreamsInd

LEMMA CloseKeepsStreams ==
    ASSUME StreamsInd, CloseEvents
    PROVE  StreamsInd'
  <1>1. /\ reader' = "closed"
        /\ UNCHANGED <<kind, partial, opened, written, toSend, events, agent, toolUses, ran>>
    BY DEF CloseEvents, serverVars
  <1>2. StreamTypes' /\ EachOnce' /\ Begun'
    BY <1>1 DEF StreamsInd, StreamTypes, EachOnce, Begun
  <1>3. Apart'
    BY <1>1 DEF StreamsInd, Apart
  <1> QED
    BY <1>1, <1>2, <1>3, RanStays DEF StreamsInd

(* The agent takes a call out of the channel, or ends the reply.           *)
LEMMA TakeKeepsStreams ==
    ASSUME StreamsInd, TakeEvent
    PROVE  StreamsInd'
  <1> DEFINE e == Head(events)
  <1>1. /\ agent = "reading" /\ events # <<>> /\ events' = Tail(events)
        /\ toolUses' = IF e[1] = "tool" THEN Append(toolUses, e[2]) ELSE toolUses
        /\ UNCHANGED <<kind, reader, opened, written, partial, toSend, ran>>
    BY DEF TakeEvent, serverVars
  <1>2. \/ agent' = agent
        \/ agent' = (IF toolUses = <<>> THEN "idle" ELSE "acting") /\ toolUses' = toolUses
    BY DEF TakeEvent, ReplyEnds
  <1>3. /\ e \in StreamEvents /\ events' \in Seq(StreamEvents)
        /\ EachEventOnce(events') /\ EventCalls(events') \subseteq EventCalls(events)
        /\ e[1] = "tool" => e[2].call \in EventCalls(events) /\ e[2].call \notin EventCalls(events')
    BY <1>1, TakeFirst DEF StreamsInd, StreamTypes, EachOnce
  <1>4. e[1] = "tool" => e[2] \in OwnUses
    BY <1>3, ToolEvents
  <1> HIDE DEF e
  <1>5. toolUses' \in Seq(OwnUses)
    BY <1>1, <1>4 DEF StreamsInd, StreamTypes
  <1>6. /\ EachUseOnce(toolUses')
        /\ UseCalls(toolUses') = UseCalls(toolUses) \cup (IF e[1] = "tool" THEN {e[2].call} ELSE {})
    <2>1. CASE e[1] = "tool"
      <3>1. e[2].call \notin UseCalls(toolUses)
        BY <1>3, <2>1 DEF StreamsInd, Apart
      <3> QED
        BY <1>1, <1>4, <2>1, <3>1, AppendUse DEF StreamsInd, StreamTypes, EachOnce
    <2>2. CASE e[1] # "tool"
      BY <1>1, <2>2 DEF StreamsInd, EachOnce
    <2> QED
      BY <2>1, <2>2
  <1>7. StreamTypes'
    BY <1>1, <1>3, <1>5 DEF StreamsInd, StreamTypes
  <1>8. EachOnce'
    BY <1>1, <1>3, <1>6 DEF StreamsInd, EachOnce
  <1>9. Apart'
    BY <1>1, <1>3, <1>6 DEF StreamsInd, Apart
  <1>10. Begun'
    BY <1>1, <1>3, <1>6 DEF StreamsInd, Begun
  <1>11. RanOwn'
    <2>1. ran' = <<>>
      BY <1>1 DEF StreamsInd, RanOwn
    <2>2. agent' = "acting" => Len(toolUses') > 0
      BY <1>1, <1>2, <1>5 DEF StreamsInd, StreamTypes
    <2>3. Len(toolUses') \in Nat
      BY <1>5
    <2> QED
      BY <2>1, <2>2, <2>3 DEF RanOwn
  <1> QED
    BY <1>7, <1>8, <1>9, <1>10, <1>11 DEF StreamsInd

LEMMA ClosedKeepsStreams ==
    ASSUME StreamsInd, TakeClosed
    PROVE  StreamsInd'
  <1>1. /\ agent = "reading" /\ agent' = IF toolUses = <<>> THEN "idle" ELSE "acting"
        /\ UNCHANGED <<kind, reader, opened, written, partial, toSend, events, toolUses, ran>>
    BY DEF TakeClosed, ReplyEnds, serverVars
  <1>2. StreamTypes' /\ EachOnce' /\ Apart' /\ Begun'
    BY <1>1 DEF StreamsInd, StreamTypes, EachOnce, Apart, Begun
  <1>3. RanOwn'
    <2>1. ran' = <<>> /\ toolUses' = toolUses /\ toolUses \in Seq(OwnUses)
      BY <1>1 DEF StreamsInd, RanOwn, StreamTypes
    <2>2. agent' = "acting" => Len(toolUses) > 0
      BY <1>1, <2>1
    <2> QED
      BY <1>1, <2>1, <2>2 DEF RanOwn
  <1> QED
    BY <1>2, <1>3 DEF StreamsInd

(* Arguments that parse are those of the call.                             *)
LEMMA ParsesAsOwn ==
    ASSUME NEW u \in OwnUses
    PROVE  u.call \in Calls /\ Parsed(u) \in {<<>>, Whole(u.call)}
  <1>1. CASE \E c \in Calls : u.args = Whole(c)
    <2>1. PICK c \in Calls : u.args = Whole(c)
      BY <1>1
    <2>2. 1 \in DOMAIN u.args /\ u.args[1][1] = c
      BY <2>1, StreamsAssumption DEF Whole
    <2> QED
      BY <2>1, <2>2 DEF OwnUses, Parsed
  <1>2. CASE ~\E c \in Calls : u.args = Whole(c)
    BY <1>2 DEF OwnUses, Parsed
  <1> QED
    BY <1>1, <1>2

LEMMA ExecuteKeepsStreams ==
    ASSUME StreamsInd, ExecuteTool
    PROVE  StreamsInd'
  <1> DEFINE use == toolUses[Len(ran) + 1]
             r == [call |-> use.call, args |-> Parsed(use)]
  <1>1. /\ agent = "acting" /\ ran' = Append(ran, r)
        /\ agent' = IF Len(ran') = Len(toolUses) THEN "idle" ELSE "acting"
        /\ UNCHANGED <<kind, reader, opened, written, partial, toSend, events, toolUses>>
    BY DEF ExecuteTool, serverVars
  <1>2. StreamTypes' /\ EachOnce' /\ Apart' /\ Begun'
    BY <1>1 DEF StreamsInd, StreamTypes, EachOnce, Apart, Begun
  <1>3. /\ Len(ran) < Len(toolUses) /\ Len(ran) \in Nat /\ Len(toolUses) \in Nat
        /\ Len(ran) + 1 \in DOMAIN toolUses /\ use \in OwnUses
    BY <1>1 DEF StreamsInd, RanOwn, StreamTypes
  <1>4. r.call \in Calls /\ r.args \in {<<>>, Whole(r.call)} /\ r.call = use.call
    BY <1>3, ParsesAsOwn
  <1>5. r \in [call : Calls, args : {<<>>} \cup {Whole(c) : c \in Calls}]
    BY <1>4
  <1> HIDE DEF r
  <1>6. /\ ran' \in Seq([call : Calls, args : {<<>>} \cup {Whole(c) : c \in Calls}])
        /\ Len(ran') = Len(ran) + 1 /\ DOMAIN ran' = 1 .. Len(ran) + 1
        /\ DOMAIN ran = 1 .. Len(ran)
        /\ ran'[Len(ran) + 1] = r /\ \A i \in DOMAIN ran : ran'[i] = ran[i]
    BY <1>1, <1>5 DEF StreamsInd, RanOwn
  <1>7. \A i \in DOMAIN ran' : /\ ran'[i].call = toolUses[i].call
                               /\ ran'[i].args \in {<<>>, Whole(ran'[i].call)}
    BY <1>3, <1>4, <1>6 DEF StreamsInd, RanOwn
  <1>8. Len(ran') <= Len(toolUses') /\ (agent' = "acting" => Len(ran') < Len(toolUses'))
        /\ agent' # "reading"
    BY <1>1, <1>3, <1>6
  <1>9. RanOwn'
    BY <1>1, <1>6, <1>7, <1>8 DEF RanOwn
  <1> QED
    BY <1>2, <1>9 DEF StreamsInd

(* A reply that comes whole: its arguments are its own, however much of    *)
(* them there is.                                                          *)
LEMMA ArgumentsAreOwn ==
    ASSUME NEW c \in Calls, NEW a \in Arguments(c)
    PROVE  a \in Seq(Calls \X Nat) /\ \A k \in DOMAIN a : a[k][1] = c
  <1>1. Whole(c) \in Seq(Calls \X Nat) /\ Len(Whole(c)) = Frags /\ \A k \in DOMAIN Whole(c) : Whole(c)[k][1] = c
    BY StreamsAssumption DEF Whole
  <1>2. CASE a \in ClaudeArguments(c)
    <2>1. CASE a = <<>>
      BY <2>1
    <2>2. CASE a = Whole(c)
      BY <1>1, <2>2
    <2> QED
      BY <1>2, <2>1, <2>2 DEF ClaudeArguments
  <1>3. ASSUME NEW n \in 0 .. Frags, a = SubSeq(Whole(c), 1, n)
        PROVE  a \in Seq(Calls \X Nat) /\ \A k \in DOMAIN a : a[k][1] = c
    <2>1. Frags \in Nat /\ n \in Nat /\ n <= Frags
      BY StreamsAssumption
    <2>2. /\ a \in Seq(Calls \X Nat) /\ Len(a) = n
          /\ \A k \in 1 .. n : a[k] = Whole(c)[k]
      BY <1>1, <1>3, <2>1
    <2>3. DOMAIN a = 1 .. n /\ 1 .. n \subseteq DOMAIN Whole(c)
      BY <1>1, <2>1, <2>2
    <2> QED
      BY <1>1, <2>2, <2>3
  <1> QED
    BY <1>2, <1>3 DEF Arguments, OpenAIArguments

LEMMA ReplyKeepsStreams ==
    ASSUME StreamsInd, CallReplies
    PROVE  StreamsInd'
  <1>1. /\ partial' = <<>> /\ toSend' = <<>> /\ events' = <<>> /\ ran' = <<>>
        /\ kind' = kind /\ agent' = IF toolUses' = <<>> THEN "idle" ELSE "acting"
    BY DEF CallReplies, ReplyEnds
  <1>2. PICK n \in {0} \cup Calls, args \in [Calls -> UNION {Arguments(c) : c \in Calls}] :
           /\ \A c \in Calls : args[c] \in Arguments(c)
           /\ opened' = [c \in 1..n |-> c]
           /\ written' = [c \in Calls |-> IF c <= n THEN Len(args[c]) ELSE 0]
           /\ toolUses' = [c \in 1..n |-> [call |-> c, args |-> args[c]]]
    BY DEF CallReplies, OllamaCalls
  <1>3. n \in Nat /\ 1 .. n \subseteq Calls
    BY StreamsAssumption DEF Calls
  <1>4. \A c \in Calls : /\ args[c] \in Seq(Calls \X Nat) /\ Len(args[c]) \in Nat
                         /\ \A k \in DOMAIN args[c] : args[c][k][1] = c
    BY <1>2, ArgumentsAreOwn
  <1>5. \A c \in Calls : [call |-> c, args |-> args[c]] \in OwnUses
    BY <1>4 DEF OwnUses
  <1>6. toolUses' \in Seq(OwnUses) /\ Len(toolUses') = n /\ DOMAIN toolUses' = 1 .. n
        /\ \A i \in 1 .. n : toolUses'[i].call = i
    BY <1>2, <1>3, <1>5
  <1>7. opened' \in Seq(Calls) /\ Len(opened') = n
    <2>1. opened' \in [1 .. n -> Calls]
      BY <1>2, <1>3
    <2> QED
      BY <1>3, <2>1
  <1>8. written' \in [Calls -> Nat]
    BY <1>2, <1>4
  <1>9. StreamTypes'
    BY <1>1, <1>6, <1>7, <1>8 DEF StreamsInd, StreamTypes
  <1>10. EachUseOnce(toolUses') /\ UseCalls(toolUses') \subseteq 1 .. n
    BY <1>6 DEF EachUseOnce, UseCalls
  <1>11. EachOnce' /\ Apart' /\ Begun'
    BY <1>1, <1>7, <1>10, NoEvents DEF EachOnce, Apart, Begun
  <1>12. RanOwn'
    <2>1. agent' = "acting" => Len(toolUses') > 0
      BY <1>1, <1>6
    <2> QED
      BY <1>1, <1>3, <1>6, <2>1 DEF RanOwn
  <1> QED
    BY <1>9, <1>11, <1>12 DEF StreamsInd

LEMMA StreamsStep == StreamsInd /\ [StreamsNext]_streamsVars => StreamsInd'
  <1> SUFFICES ASSUME StreamsInd, [StreamsNext]_streamsVars PROVE StreamsInd'
    OBVIOUS
  <1>1. CASE UNCHANGED streamsVars
    <2>1. UNCHANGED <<kind, reader, opened, written, partial, toSend, events, agent, toolUses, ran>>
      BY <1>1 DEF streamsVars, serverVars
    <2> QED
      BY <2>1 DEF StreamsInd, StreamTypes, EachOnce, Apart, Begun, RanOwn
  <1>2. CASE OpenStream \/ CallReplies \/ TextChunk \/ BlockStops \/ LastLine
    BY <1>2, OpenKeepsStreams, ReplyKeepsStreams, TextKeepsStreams, BlockKeepsStreams, LastKeepsStreams
  <1>3. CASE SendEvent \/ CloseEvents \/ TakeEvent \/ TakeClosed \/ ExecuteTool
    BY <1>3, SendKeepsStreams, CloseKeepsStreams, TakeKeepsStreams, ClosedKeepsStreams,
       ExecuteKeepsStreams
  <1>4. ASSUME NEW c \in Calls, CallBegins(c) \/ Fragment(c) PROVE StreamsInd'
    BY <1>4, BeginKeepsStreams, FragmentKeepsStreams
  <1> QED
    BY <1>1, <1>2, <1>3, <1>4 DEF StreamsNext

(* processStream and executeTool (openai.go:424, agent.go:456): whatever   *)
(* the interleaving of the fragments, the order in which openai's calls    *)
(* are sent and the place where the stream ended, a tool gets the          *)
(* arguments that were written for its call or none, and no call is        *)
(* executed twice.                                                         *)
THEOREM StreamsRunOwnArguments == StreamsSpec => []RunsOwnArguments
  <1>1. StreamsInd => RunsOwnArguments
    <2> SUFFICES ASSUME StreamsInd PROVE RunsOwnArguments
      OBVIOUS
    <2>1. \A i \in DOMAIN ran : ran[i].args \in {<<>>, Whole(ran[i].call)}
      BY DEF StreamsInd, RanOwn
    <2>2. ASSUME NEW i \in DOMAIN ran, NEW j \in DOMAIN ran, ran[i].call = ran[j].call PROVE i = j
      <3>1. i \in DOMAIN toolUses /\ j \in DOMAIN toolUses
        BY DEF StreamsInd, RanOwn, StreamTypes
      <3>2. toolUses[i].call = toolUses[j].call
        BY <2>2 DEF StreamsInd, RanOwn
      <3> QED
        BY <3>1, <3>2 DEF StreamsInd, EachOnce, EachUseOnce
    <2> QED
      BY <2>1, <2>2 DEF RunsOwnArguments
  <1> QED
    BY <1>1, StreamsStart, StreamsStep, PTL DEF StreamsSpec

-----------------------------------------------------------------------------
(***************************************************************************)
(* The other types of Weixin.  With or without a race, a loop that polls   *)
(* has a token to poll with, and no loop answers a message twice: a        *)
(* message was answered by loops whose place is past it and that do not    *)
(* hold it any more (AnsweredByLoops).                                     *)
(***************************************************************************)
OtherTypes ==
    /\ account \in BOOLEAN /\ ctx \in Contexts /\ cancelledCtx \subseteq Contexts
    /\ refreshes \in [Starters -> 0 .. MaxRefreshes] /\ commands \in 0 .. MaxLoginCommands
    /\ pollCtx \in [Pollers -> Contexts]

ClientKnown ==
    /\ \A s \in Starters : doing[s] \in {"client", "connected"} => client # NoToken
    /\ \A p \in Pollers : Live(p) => client # NoToken

HeldBy(m) == {p \in Pollers : m \in pending[p]}
PastIt(m) == {p \in Pollers : buf[p] >= m.place}

FetchedBefore ==
    \A p \in Pollers : /\ \A m \in pending[p] : m.place <= buf[p]
                       /\ polling[p] \in {"handle", "submit", "reply"} => pending[p] # {}

AnsweredByLoops ==
    \A m \in Messages : answers[m] + Cardinality(HeldBy(m)) <= Cardinality(PastIt(m))

FetchInd == Fetched /\ FetchedBefore /\ AnsweredByLoops

LEMMA CommandBounds == MaxLoginCommands \in Nat /\ MaxRefreshes \in Nat
  BY WeixinAssumption

LEMMA WeixinOtherStart == WeixinInit => OtherTypes /\ ClientKnown /\ FetchInd
  <1> SUFFICES ASSUME WeixinInit PROVE OtherTypes /\ ClientKnown /\ FetchInd
    OBVIOUS
  <1>1. OtherTypes
    <2>1. 0 \in Contexts /\ 0 \in 0 .. MaxRefreshes /\ 0 \in 0 .. MaxLoginCommands
      BY CommandBounds DEF Contexts
    <2> QED
      BY <2>1 DEF WeixinInit, OtherTypes
  <1>2. ClientKnown
    BY DEF WeixinInit, ClientKnown, Live, Starters
  <1>3. Fetched /\ FetchedBefore
    BY WeixinBounds DEF WeixinInit, Fetched, FetchedBefore
  <1>4. ASSUME NEW m \in Messages
        PROVE  answers[m] + Cardinality(HeldBy(m)) <= Cardinality(PastIt(m))
    <2>1. answers[m] = 0 /\ HeldBy(m) = {} /\ PastIt(m) = {}
      BY WeixinBounds DEF WeixinInit, HeldBy, PastIt, Messages
    <2> QED
      BY <2>1, FS_EmptySet
  <1> QED
    BY <1>1, <1>2, <1>3, <1>4 DEF FetchInd, AnsweredByLoops

LEMMA OtherTypesStep ==
    ASSUME OtherTypes, WeixinTypes, [WeixinNext]_weixinVars
    PROVE  OtherTypes'
  <1> DEFINE Kept == UNCHANGED <<account, contextVars, refreshes, commands, pollCtx>>
  <1> USE CommandBounds
  <1>1. CASE Kept
    BY <1>1 DEF contextVars, OtherTypes
  <1>2. CASE Start
    BY <1>2 DEF Start, OtherTypes, Contexts, StartContext, loginVars, pollVars
  <1>3. ASSUME NEW s \in Starters, LoginFails(s) \/ CodeExpires(s) \/ LoginConfirmed(s)
        PROVE  OtherTypes'
    <2>1. UNCHANGED <<contextVars, commands, pollCtx>> /\ account' \in {account, TRUE}
      BY <1>3 DEF LoginFails, CodeExpires, LoginConfirmed, pollVars, accountVars
    <2>2. refreshes' \in [Starters -> 0 .. MaxRefreshes]
      BY <1>3 DEF LoginFails, CodeExpires, LoginConfirmed, OtherTypes
    <2> QED
      BY <2>1, <2>2 DEF OtherTypes, contextVars
  <1>4. ASSUME NEW s \in Starters, SetConnected(s) \/ StartPolling(s) PROVE Kept
    BY <1>4 DEF SetConnected, StartPolling, accountVars, loginVars, pollVars
  <1>5. CASE Login \/ Logout
    <2>1. /\ UNCHANGED <<account, ctx, refreshes, pollCtx>> /\ commands' = commands + 1
          /\ commands < MaxLoginCommands /\ cancelledCtx' \in {cancelledCtx, cancelledCtx \cup {ctx}}
      BY <1>5 DEF Login, Logout, Command, NewCommand, accountVars, loginVars, pollVars
    <2> QED
      BY <2>1 DEF OtherTypes
  <1>6. CASE LoginStopped \/ LogoutStopped
    BY <1>1, <1>6 DEF LoginStopped, LogoutStopped, Stopped, accountVars, loginVars, pollVars
  <1>7. CASE StartLogin \/ LogoutEnds
    <2>1. UNCHANGED <<cancelledCtx, refreshes, commands, pollCtx>> /\ account' = FALSE /\ ctx' = commands
      BY <1>7 DEF StartLogin, LogoutEnds, Forget, loginVars, pollVars
    <2> QED
      <3>1. commands \in 0 .. MaxLoginCommands + 1
        BY DEF OtherTypes
      <3> QED
        BY <2>1, <3>1 DEF OtherTypes, Contexts
  <1>8. ASSUME NEW p \in Pollers, PollStep(p) PROVE OtherTypes'
    <2>1. UNCHANGED <<account, contextVars, refreshes, commands>>
      BY <1>8 DEF PollStep, CheckStop, GetNothing, GetUpdates, HandleMessage, SubmitReturns,
                  SendMessage, accountVars, loginVars
    <2>2. pollCtx' \in {pollCtx, [pollCtx EXCEPT ![p] = ctx]}
      BY <1>8 DEF PollStep, CheckStop, GetNothing, GetUpdates, HandleMessage, SubmitReturns,
                  SendMessage, pollVars
    <2> QED
      BY <2>1, <2>2 DEF OtherTypes, contextVars
  <1>9. CASE UserWrites \/ (\E m \in Messages : SaveLoads(m) \/ SaveWrites(m))
    BY <1>1, <1>9 DEF UserWrites, SaveLoads, SaveWrites, accountVars, loginVars, pollVars
  <1>10. CASE UNCHANGED weixinVars
    BY <1>1, <1>10 DEF weixinVars, accountVars, loginVars, pollVars
  <1> QED
    BY <1>1, <1>2, <1>3, <1>4, <1>5, <1>6, <1>7, <1>8, <1>9, <1>10 DEF WeixinNext, CommandStep

LEMMA ClientStep ==
    ASSUME ClientKnown, WeixinTypes, [WeixinNext]_weixinVars
    PROVE  ClientKnown'
  <1>1. ASSUME client' = client \/ client' # NoToken,
               \A s \in Starters : doing'[s] \in {"client", "connected"} =>
                                      doing[s] \in {"client", "connected"} \/ client' # NoToken,
               \A p \in Pollers : Live(p)' => Live(p) \/ client' # NoToken
        PROVE  ClientKnown'
    BY <1>1 DEF ClientKnown
  <1>2. CASE UNCHANGED <<client, doing, polling>>
    BY <1>2 DEF ClientKnown, Live
  <1>3. CASE Start
    <2>1. /\ client' = IF file # NoToken THEN file ELSE client
          /\ doing' = [doing EXCEPT !["start"] = IF file # NoToken THEN "client" ELSE "qr"]
          /\ polling' = polling
      BY <1>3 DEF Start, DoNext, pollVars
    <2> QED
      BY <1>1, <2>1 DEF WeixinTypes, Live
  <1>4. ASSUME NEW s \in Starters, LoginConfirmed(s) PROVE ClientKnown'
    <2>1. client' # NoToken
      BY <1>4 DEF LoginConfirmed, WeixinTypes, NoToken
    <2> QED
      BY <2>1 DEF ClientKnown
  <1>5. ASSUME NEW s \in Starters, LoginFails(s) \/ CodeExpires(s) \/ SetConnected(s)
        PROVE  ClientKnown'
    <2>1. UNCHANGED <<client, polling>>
      BY <1>5 DEF LoginFails, CodeExpires, SetConnected, pollVars
    <2>2. doing' \in {doing, [doing EXCEPT ![s] = "idle"], [doing EXCEPT ![s] = "connected"]}
          /\ (doing'[s] = "connected" => doing[s] \in {"client", "connected"})
      BY <1>5 DEF LoginFails, CodeExpires, SetConnected, DoNext, WeixinTypes
    <2> QED
      BY <1>1, <2>1, <2>2 DEF WeixinTypes, Live
  <1>6. ASSUME NEW s \in Starters, StartPolling(s) PROVE ClientKnown'
    <2>1. client' = client /\ doing[s] = "connected"
      BY <1>6 DEF StartPolling
    <2>2. client' # NoToken
      BY <2>1 DEF ClientKnown
    <2> QED
      BY <2>2 DEF ClientKnown
  <1>7. CASE Login \/ Logout \/ CommandStep
    <2>1. UNCHANGED <<client, polling>>
      BY <1>7 DEF Login, Logout, Command, CommandStep, LoginStopped, LogoutStopped, Stopped,
                  StartLogin, LogoutEnds, pollVars
    <2>2. \E what \in {"idle", "qr", "loginStop", "logoutStop", "loginWait", "logoutWait"} :
             doing' = [doing EXCEPT !["command"] = what]
      BY <1>7 DEF Login, Logout, Command, CommandStep, LoginStopped, LogoutStopped, Stopped,
                  StartLogin, LogoutEnds, DoNext
    <2> QED
      BY <1>1, <2>1, <2>2 DEF WeixinTypes, Live
  <1>8. ASSUME NEW p \in Pollers, PollStep(p) PROVE ClientKnown'
    <2>1. UNCHANGED <<client, doing>> /\ Live(p) /\ \E what : polling' = [polling EXCEPT ![p] = what]
      BY <1>8 DEF PollStep, CheckStop, GetNothing, GetUpdates, HandleMessage, SubmitReturns,
                  SendMessage, PollGoesTo, Live
    <2>2. \A q \in Pollers : Live(q)' => Live(q)
      BY <2>1 DEF Live, WeixinTypes
    <2> QED
      BY <1>1, <2>1, <2>2
  <1>9. CASE UserWrites \/ (\E m \in Messages : SaveLoads(m) \/ SaveWrites(m)) \/ UNCHANGED weixinVars
    BY <1>2, <1>9 DEF UserWrites, SaveLoads, SaveWrites, pollVars, weixinVars
  <1> QED
    BY <1>3, <1>4, <1>5, <1>6, <1>7, <1>8, <1>9 DEF WeixinNext

LEMMA LoopsFinite ==
    /\ IsFiniteSet(Pollers) /\ Cardinality(Pollers) = MaxLogins + 1
    /\ \A S \in SUBSET Pollers : /\ IsFiniteSet(S) /\ Cardinality(S) \in Nat
                                 /\ Cardinality(S) <= MaxLogins + 1
  <1>1. IsFiniteSet(Pollers) /\ Cardinality(Pollers) = MaxLogins + 1
    <2>1. 1 \in Int /\ MaxLogins + 1 \in Int /\ 1 <= MaxLogins + 1
      BY WeixinBounds
    <2> QED
      BY <2>1, FS_Interval, WeixinBounds DEF Pollers
  <1>2. ASSUME NEW S \in SUBSET Pollers
        PROVE  IsFiniteSet(S) /\ Cardinality(S) \in Nat /\ Cardinality(S) <= MaxLogins + 1
    BY <1>1, FS_Subset, FS_CardinalityType
  <1> QED
    BY <1>1, <1>2

(* A step that changes no place, no pending message and no answer.         *)
LEMMA FetchStays ==
    ASSUME FetchInd, UNCHANGED <<buf, pending, answers>>,
           \A p \in Pollers : polling'[p] \in {"handle", "submit", "reply"} =>
                                 polling[p] \in {"handle", "submit", "reply"}
    PROVE  FetchInd'
  <1>1. Fetched' /\ FetchedBefore'
    BY DEF FetchInd, Fetched, FetchedBefore
  <1>2. \A m : HeldBy(m)' = HeldBy(m) /\ PastIt(m)' = PastIt(m)
    BY DEF HeldBy, PastIt
  <1>3. AnsweredByLoops'
    BY <1>2 DEF FetchInd, AnsweredByLoops
  <1> QED
    BY <1>1, <1>3 DEF FetchInd

(* The messages a loop gets are past its place.                            *)
LEMMA GetKeepsFetch ==
    ASSUME FetchInd, ClientKnown, WeixinTypes, NEW p \in Pollers, GetUpdates(p)
    PROVE  FetchInd'
  <1> DEFINE new == [token : {client}, place : buf[p] + 1 .. sent[client]]
  <1>1. /\ polling[p] = "get" /\ sent[client] > buf[p]
        /\ pending' = [pending EXCEPT ![p] = new] /\ buf' = [buf EXCEPT ![p] = sent[client]]
        /\ polling' = [polling EXCEPT ![p] = "handle"] /\ answers' = answers
    BY DEF GetUpdates, PollGoesTo, messageVars
  <1>2. client \in Tokens /\ sent[client] \in 0 .. MaxWritten /\ buf[p] \in 0 .. MaxWritten
    <2>1. client \in Tokens
      <3>1. client # NoToken
        BY <1>1 DEF ClientKnown, Live
      <3> QED
        BY <3>1, WeixinBounds DEF WeixinTypes, NoToken, Tokens
    <2> QED
      BY <2>1 DEF WeixinTypes, FetchInd, Fetched
  <1>3. new \in SUBSET Messages /\ new # {}
    <2>1. buf[p] + 1 .. sent[client] \subseteq 1 .. MaxWritten
      BY <1>2, WeixinBounds
    <2>2. sent[client] \in buf[p] + 1 .. sent[client]
      BY <1>1, <1>2, WeixinBounds
    <2>3. [token |-> client, place |-> sent[client]] \in new
      BY <2>2
    <2>4. ASSUME NEW m \in new PROVE m \in Messages
      BY <1>2, <2>1 DEF Messages
    <2> QED
      BY <2>3, <2>4
  <1>4. \A m \in new : m.place > buf[p] /\ m.place <= sent[client]
    BY <1>2, WeixinBounds
  <1> HIDE DEF new
  <1>5. /\ DOMAIN pending = Pollers /\ DOMAIN buf = Pollers /\ DOMAIN polling = Pollers
        /\ \A q \in Pollers : /\ pending'[q] = IF q = p THEN new ELSE pending[q]
                              /\ buf'[q] = IF q = p THEN sent[client] ELSE buf[q]
                              /\ polling'[q] = IF q = p THEN "handle" ELSE polling[q]
    BY <1>1 DEF FetchInd, Fetched, WeixinTypes
  <1>6. Fetched'
    <2>1. buf' \in [Pollers -> 0 .. MaxWritten]
      BY <1>1, <1>2 DEF FetchInd, Fetched
    <2>2. pending' \in [Pollers -> SUBSET Messages]
      BY <1>1, <1>3 DEF FetchInd, Fetched
    <2> QED
      BY <2>1, <2>2 DEF Fetched
  <1>7. FetchedBefore'
    BY <1>3, <1>4, <1>5 DEF FetchInd, FetchedBefore
  <1>8. ASSUME NEW m \in Messages
        PROVE  answers'[m] + Cardinality(HeldBy(m)') <= Cardinality(PastIt(m)')
    <2>1. /\ m.place \in Nat /\ answers[m] \in Nat /\ answers'[m] = answers[m]
          /\ answers[m] + Cardinality(HeldBy(m)) <= Cardinality(PastIt(m))
      <3>1. m.place \in Nat
        BY WeixinBounds DEF Messages
      <3>2. answers[m] \in Nat
        BY DEF WeixinTypes
      <3> QED
        BY <1>1, <3>1, <3>2 DEF FetchInd, AnsweredByLoops
    <2>2. /\ HeldBy(m) \in SUBSET Pollers /\ HeldBy(m)' \in SUBSET Pollers
          /\ PastIt(m) \in SUBSET Pollers /\ PastIt(m)' \in SUBSET Pollers
      BY DEF HeldBy, PastIt
    <2>3. \A q \in Pollers : q # p => (q \in HeldBy(m)' <=> q \in HeldBy(m))
                                      /\ (q \in PastIt(m)' <=> q \in PastIt(m))
      BY <1>5 DEF HeldBy, PastIt
    <2>4. CASE m \in new
      <3>1. p \notin PastIt(m) /\ p \in PastIt(m)' /\ p \in HeldBy(m)'
        BY <1>2, <1>4, <1>5, <2>1, <2>4 DEF HeldBy, PastIt
      <3>2. p \notin HeldBy(m)
        BY <1>2, <1>4, <2>1, <2>4 DEF HeldBy, FetchInd, FetchedBefore
      <3>3. HeldBy(m)' = HeldBy(m) \cup {p} /\ PastIt(m)' = PastIt(m) \cup {p}
        BY <2>2, <2>3, <3>1, <3>2
      <3>4. /\ Cardinality(HeldBy(m)') = Cardinality(HeldBy(m)) + 1
            /\ Cardinality(PastIt(m)') = Cardinality(PastIt(m)) + 1
        BY <2>2, <3>1, <3>2, <3>3, LoopsFinite, FS_AddElement
      <3> QED
        BY <2>1, <2>2, <3>4, LoopsFinite
    <2>5. CASE m \notin new
      <3>1. p \notin HeldBy(m)'
        BY <1>5, <2>5 DEF HeldBy
      <3>2. p \in PastIt(m) => p \in PastIt(m)'
        BY <1>1, <1>2, <1>5, <2>1 DEF PastIt
      <3>3. HeldBy(m)' \subseteq HeldBy(m) /\ PastIt(m) \subseteq PastIt(m)'
        BY <2>2, <2>3, <3>1, <3>2
      <3>4. /\ Cardinality(HeldBy(m)') <= Cardinality(HeldBy(m))
            /\ Cardinality(PastIt(m)) <= Cardinality(PastIt(m)')
        BY <2>2, <3>3, LoopsFinite, FS_Subset
      <3> QED
        BY <2>1, <2>2, <3>4, LoopsFinite
    <2> QED
      BY <2>4, <2>5
  <1> QED
    BY <1>6, <1>7, <1>8 DEF FetchInd, AnsweredByLoops

(* The message a loop has done with, answered or not, is one it held.      *)
LEMMA DropKeepsFetch ==
    ASSUME FetchInd, WeixinTypes, NEW p \in Pollers,
           polling[p] \in {"handle", "reply"}, buf' = buf,
           answers' \in {answers, [answers EXCEPT ![First(p)] = @ + 1]},
           pending' = [pending EXCEPT ![p] = @ \ {First(p)}],
           \A q \in Pollers : q # p => polling'[q] = polling[q],
           polling'[p] = IF Cardinality(pending[p]) = 1 THEN "check" ELSE "handle"
    PROVE  FetchInd'
  <1> DEFINE m == First(p)
  <1>1. pending[p] # {} /\ pending[p] \in SUBSET Messages
    BY DEF FetchInd, Fetched, FetchedBefore
  <1>2. m \in pending[p]
    BY <1>1, FirstIsPending
  <1>3. /\ answers' \in {answers, [answers EXCEPT ![m] = @ + 1]}
        /\ pending' = [pending EXCEPT ![p] = @ \ {m}]
    OBVIOUS
  <1> HIDE DEF m
  <1>4. \A q \in Pollers : pending'[q] = IF q = p THEN pending[p] \ {m} ELSE pending[q]
    BY <1>3 DEF FetchInd, Fetched
  <1>5. Fetched'
    BY <1>3 DEF FetchInd, Fetched
  <1>6. FetchedBefore'
    <2>1. polling'[p] \in {"handle", "submit", "reply"} => pending'[p] # {}
      BY <1>2, <1>4, OneOfMany
    <2>2. \A q \in Pollers : \A n \in pending'[q] : n.place <= buf'[q]
      BY <1>4 DEF FetchInd, FetchedBefore
    <2> QED
      BY <1>4, <2>1, <2>2 DEF FetchInd, FetchedBefore
  <1>7. ASSUME NEW n \in Messages
        PROVE  answers'[n] + Cardinality(HeldBy(n)') <= Cardinality(PastIt(n)')
    <2>1. answers[n] \in Nat /\ answers[n] + Cardinality(HeldBy(n)) <= Cardinality(PastIt(n))
      BY DEF WeixinTypes, FetchInd, AnsweredByLoops
    <2>2. PastIt(n)' = PastIt(n) /\ HeldBy(n) \in SUBSET Pollers /\ PastIt(n) \in SUBSET Pollers
      BY DEF PastIt, HeldBy
    <2>3. CASE n = m
      <3>1. HeldBy(n)' = HeldBy(n) \ {p} /\ p \in HeldBy(n)
        BY <1>2, <1>4, <2>3 DEF HeldBy
      <3>2. Cardinality(HeldBy(n)') = Cardinality(HeldBy(n)) - 1
        BY <2>2, <3>1, LoopsFinite, FS_RemoveElement
      <3>3. answers'[n] <= answers[n] + 1 /\ answers'[n] \in Nat
        BY <1>3, <2>1, <2>3 DEF WeixinTypes
      <3> QED
        BY <2>1, <2>2, <3>2, <3>3, LoopsFinite
    <2>4. CASE n # m
      <3>1. HeldBy(n)' = HeldBy(n)
        BY <1>4, <2>4 DEF HeldBy
      <3>2. answers'[n] = answers[n]
        BY <1>3, <2>4 DEF WeixinTypes
      <3> QED
        BY <2>1, <2>2, <3>1, <3>2
    <2> QED
      BY <2>3, <2>4
  <1> QED
    BY <1>5, <1>6, <1>7 DEF FetchInd, AnsweredByLoops

LEMMA FetchStep ==
    ASSUME FetchInd, ClientKnown, WeixinTypes, [WeixinNext]_weixinVars
    PROVE  FetchInd'
  <1>1. CASE UNCHANGED <<polling, buf, pending, answers>>
    BY <1>1, FetchStays
  <1>2. ASSUME NEW s \in Starters, StartPolling(s) PROVE FetchInd'
    <2>1. PICK p \in Pollers : polling' = [polling EXCEPT ![p] = "check"]
      BY <1>2 DEF StartPolling
    <2>2. UNCHANGED <<buf, pending, answers>>
      BY <1>2 DEF StartPolling, messageVars
    <2> QED
      BY <2>1, <2>2, FetchStays DEF WeixinTypes
  <1>3. ASSUME NEW p \in Pollers, PollStep(p) PROVE FetchInd'
    <2>1. CASE CheckStop(p) \/ GetNothing(p) \/ SubmitReturns(p)
      <3>1. UNCHANGED <<buf, pending, answers>>
        BY <2>1 DEF CheckStop, GetNothing, SubmitReturns, messageVars
      <3>2. \/ polling' = [polling EXCEPT ![p] = "over"] \/ polling' = [polling EXCEPT ![p] = "get"]
            \/ polling' = [polling EXCEPT ![p] = "check"]
            \/ polling' = [polling EXCEPT ![p] = "reply"] /\ polling[p] = "submit"
        BY <2>1 DEF CheckStop, GetNothing, SubmitReturns, PollGoesTo
      <3> QED
        BY <3>1, <3>2, FetchStays DEF WeixinTypes
    <2>2. CASE GetUpdates(p)
      BY <2>2, GetKeepsFetch
    <2>3. CASE HandleMessage(p) /\ Busy
      <3>1. /\ polling[p] = "handle" /\ UNCHANGED <<buf, answers>>
            /\ pending' = [pending EXCEPT ![p] = @ \ {First(p)}]
            /\ polling' = [polling EXCEPT ![p] =
                              IF Cardinality(pending[p]) = 1 THEN "check" ELSE "handle"]
        BY <2>3 DEF HandleMessage, PollGoesTo
      <3>2. /\ \A q \in Pollers : q # p => polling'[q] = polling[q]
            /\ polling'[p] = IF Cardinality(pending[p]) = 1 THEN "check" ELSE "handle"
        BY <3>1 DEF WeixinTypes
      <3> QED
        BY <3>1, <3>2, DropKeepsFetch
    <2>4. CASE HandleMessage(p) /\ ~Busy
      <3>1. /\ polling[p] = "handle" /\ UNCHANGED <<buf, answers>>
            /\ polling' = [polling EXCEPT ![p] = "submit"]
            /\ pending' = [pending EXCEPT ![p] = @]
        BY <2>4 DEF HandleMessage, PollGoesTo
      <3>2. pending' = pending
        BY <3>1 DEF FetchInd, Fetched
      <3> QED
        BY <3>1, <3>2, FetchStays DEF WeixinTypes
    <2>5. CASE SendMessage(p)
      <3>1. /\ polling[p] = "reply" /\ buf' = buf
            /\ pending' = [pending EXCEPT ![p] = @ \ {First(p)}]
            /\ answers' \in {answers, [answers EXCEPT ![First(p)] = @ + 1]}
            /\ polling' = [polling EXCEPT ![p] =
                              IF Cardinality(pending[p]) = 1 THEN "check" ELSE "handle"]
        BY <2>5 DEF SendMessage, PollGoesTo
      <3>2. /\ \A q \in Pollers : q # p => polling'[q] = polling[q]
            /\ polling'[p] = IF Cardinality(pending[p]) = 1 THEN "check" ELSE "handle"
        BY <3>1 DEF WeixinTypes
      <3> QED
        BY <3>1, <3>2, DropKeepsFetch
    <2> QED
      BY <1>3, <2>1, <2>2, <2>3, <2>4, <2>5 DEF PollStep
  <1>4. ASSUME NEW s \in Starters,
               LoginFails(s) \/ CodeExpires(s) \/ LoginConfirmed(s) \/ SetConnected(s)
        PROVE  UNCHANGED <<polling, buf, pending, answers>>
    BY <1>4 DEF LoginFails, CodeExpires, LoginConfirmed, SetConnected, pollVars, messageVars
  <1>5. CASE Start \/ Login \/ Logout \/ CommandStep
    BY <1>1, <1>5 DEF Start, Login, Logout, Command, CommandStep, LoginStopped, LogoutStopped,
                      Stopped, StartLogin, LogoutEnds, pollVars, messageVars
  <1>6. CASE UserWrites \/ (\E m \in Messages : SaveLoads(m) \/ SaveWrites(m)) \/ UNCHANGED weixinVars
    BY <1>1, <1>6 DEF UserWrites, SaveLoads, SaveWrites, pollVars, messageVars, weixinVars
  <1> QED
    BY <1>1, <1>2, <1>3, <1>4, <1>5, <1>6 DEF WeixinNext

(* The types of Weixin, for any number of logins, commands and messages, also when a
   command races with Start's login: however loops, clients and contexts cross, a loop
   that polls has a token, and answers a message once at most. *)
THEOREM WeixinTypeCorrect == WeixinSpec => []WeixinTypeOK
  <1> DEFINE Ind == WeixinInd /\ OtherTypes /\ ClientKnown /\ FetchInd
  <1>1. WeixinInit => Ind
    BY WeixinStarts, WeixinOtherStart
  <1>2. Ind /\ [WeixinNext]_weixinVars => Ind'
    BY WeixinStep, OtherTypesStep, ClientStep, FetchStep DEF WeixinInd
  <1>3. Ind => WeixinTypeOK
    <2> SUFFICES ASSUME Ind PROVE WeixinTypeOK
      OBVIOUS
    <2>1. WeixinTypes /\ OtherTypes /\ Fetched /\ AnsweredByLoops
      BY DEF WeixinInd, FetchInd
    <2>2. ASSUME NEW m \in Messages PROVE answers[m] \in 0 .. MaxLogins + 1
      <3>1. HeldBy(m) \in SUBSET Pollers /\ PastIt(m) \in SUBSET Pollers
        BY DEF HeldBy, PastIt
      <3>2. answers[m] \in Nat /\ answers[m] + Cardinality(HeldBy(m)) <= Cardinality(PastIt(m))
        BY <2>1 DEF AnsweredByLoops, WeixinTypes
      <3> QED
        BY <3>1, <3>2, LoopsFinite, WeixinBounds
    <2>3. answers \in [Messages -> 0 .. MaxLogins + 1]
      BY <2>1, <2>2 DEF WeixinTypes
    <2>4. /\ 0 .. logins \subseteq Tokens \cup {NoToken}
          /\ 0 .. MaxLogins = Tokens \cup {NoToken}
      BY <2>1, WeixinBounds DEF WeixinTypes, Tokens, NoToken
    <2>5. saver \in [Messages -> [at : {"none", "load", "write", "over"}, token : Tokens \cup {NoToken}]]
      BY <2>1, <2>4 DEF WeixinTypes
    <2>6. /\ {account, connected, raced} \subseteq BOOLEAN
          /\ file \in Tokens \cup {NoToken} /\ client \in Tokens \cup {NoToken}
      BY <2>1, <2>4 DEF WeixinTypes, OtherTypes
    <2>7. /\ ctx \in Contexts /\ cancelledCtx \subseteq Contexts
          /\ refreshes \in [Starters -> 0 .. MaxRefreshes]
          /\ commands \in 0 .. MaxLoginCommands /\ pollCtx \in [Pollers -> Contexts]
      BY <2>1 DEF OtherTypes
    <2>8. /\ logins \in 0 .. MaxLogins /\ sent \in [Tokens -> 0 .. MaxWritten]
          /\ doing \in [Starters -> {"idle", "begin", "qr", "client", "connected",
                                     "loginStop", "logoutStop", "loginWait", "logoutWait"}]
          /\ polling \in [Pollers -> {"none", "check", "get", "handle", "submit", "reply", "over"}]
      BY <2>1 DEF WeixinTypes
    <2>9. buf \in [Pollers -> 0 .. MaxWritten] /\ pending \in [Pollers -> SUBSET Messages]
      BY <2>1 DEF Fetched
    <2> QED
      BY <2>3, <2>5, <2>6, <2>7, <2>8, <2>9, Zenon DEF WeixinTypeOK
  <1> HIDE DEF Ind
  <1> QED
    BY <1>1, <1>2, <1>3, PTL DEF WeixinSpec

-----------------------------------------------------------------------------
(***************************************************************************)
(* The other types of Models: RateInv and RotationInv have those of the    *)
(* buckets and of the rotation.                                            *)
(***************************************************************************)
TimeTypes ==
    /\ clock \in 0..MaxTime
    /\ lastRefill \in [Names -> 0..MaxTime] /\ made \in [Names -> 0..MaxTime]

RestingTypes ==
    /\ until \in [Pooled -> [KeyIds -> 0..MaxTime + Cooldown]] /\ marks \in 0..MaxMarks

ChoiceTypes ==
    /\ running \in BOOLEAN
    /\ default \in Names \cup {NoModel} /\ agentModel \in Names \cup {NoModel}
    /\ saved \in Names \cup {NoModel} /\ switches \in 0..MaxSwitches

CallTypes ==
    /\ registered \subseteq Names /\ left \subseteq DOMAIN Order
    /\ outcome \in {"idle", "busy", "ok", "failed", "none"}
    /\ hasCause \in BOOLEAN /\ calls \in 0..MaxCalls

OtherModelTypes == TimeTypes /\ RestingTypes /\ ChoiceTypes /\ CallTypes

LEMMA ModelBounds ==
    /\ MaxTime \in Nat /\ MaxMarks \in Nat /\ MaxSwitches \in Nat /\ MaxCalls \in Nat
    /\ Cooldown \in Nat /\ Configured \in Names \cup {NoModel}
  BY ModelsAssumption

LEMMA ModelTypesStart == ModelsInit => OtherModelTypes
  <1> SUFFICES ASSUME ModelsInit PROVE OtherModelTypes
    OBVIOUS
  <1>1. TimeTypes
    BY ModelBounds DEF ModelsInit, TimeTypes
  <1>2. RestingTypes
    BY ModelBounds DEF ModelsInit, RestingTypes
  <1>3. ChoiceTypes
    <2>1. 0 \in 0..MaxSwitches
      BY ModelBounds
    <2> QED
      BY <2>1, ModelBounds DEF ModelsInit, ChoiceTypes
  <1>4. CallTypes
    <2>1. 0 \in 0..MaxCalls
      BY ModelBounds
    <2> QED
      BY <2>1 DEF ModelsInit, CallTypes
  <1> QED
    BY <1>1, <1>2, <1>3, <1>4 DEF OtherModelTypes

(* A selection may see the clock move on.                                  *)
LEMMA SwitchMoves ==
    ASSUME clock \in 0..MaxTime, NEW n, SwitchModel(n)
    PROVE  /\ clock' \in 0..MaxTime /\ UNCHANGED <<until, marks, routerVars, running>>
           /\ switches < MaxSwitches /\ switches' = switches + 1
           /\ \/ n \in Names /\ agentModel' = n /\ default' = n /\ saved' \in {saved, n}
              \/ UNCHANGED <<agentModel, default, saved>>
  <1>1. PICK ok \in BOOLEAN :
           /\ Build(n, ok)
           /\ IF ok THEN agentModel' = n /\ default' = n /\ saved' \in {saved, n}
              ELSE UNCHANGED <<agentModel, default, saved>>
    BY DEF SwitchModel
  <1>2. /\ UNCHANGED <<running, routerVars>> /\ switches < MaxSwitches
        /\ switches' = switches + 1
    BY DEF SwitchModel
  <1>3. n \notin Names => ok = FALSE
    BY <1>1 DEF Build
  <1>4. clock' \in 0..MaxTime
    BY <1>1 DEF Build
  <1>5. UNCHANGED <<until, marks>>
    BY <1>1 DEF Build, Select, poolVars
  <1> QED
    BY <1>1, <1>2, <1>3, <1>4, <1>5

LEMMA OrderLength ==
    ASSUME NEW d
    PROVE  DOMAIN ResolveOrder(d) = 1..Len(ResolveOrder(d)) /\ Len(ResolveOrder(d)) \in Nat
  <1>1. <<d>> \in Seq({d} \cup Names) /\ Chain \in Seq({d} \cup Names)
    BY ModelsAssumption
  <1>2. <<d>> \o Chain \in Seq({d} \cup Names)
    BY <1>1
  <1> QED
    BY <1>2 DEF ResolveOrder

(* What a start takes is a model there is a configuration for.             *)
LEMMA StartChoiceIsName == \A d : StartChoice(d) \subseteq Names
  <1> SUFFICES ASSUME NEW d, NEW n \in StartChoice(d) PROVE n \in Names
    OBVIOUS
  <1> DEFINE order == ResolveOrder(d)
             startable == {i \in DOMAIN order : Startable(order[i])}
  <1>1. ASSUME startable # {} PROVE Startable(order[FirstPlace(startable)])
    <2>1. startable \subseteq DOMAIN order /\ DOMAIN order = 1..Len(order) /\ Len(order) \in Nat
      BY OrderLength
    <2>2. startable \subseteq 0..Len(order)
      BY <2>1
    <2>3. \E i \in startable : \A j \in startable : i <= j
      BY <1>1, <2>1, <2>2, SmallestNumber
    <2>4. FirstPlace(startable) \in startable
      BY <2>3 DEF FirstPlace
    <2> QED
      BY <2>4
  <1>2. CASE startable # {}
    <2>1. n = order[FirstPlace(startable)]
      BY <1>2 DEF StartChoice
    <2> QED
      BY <1>1, <1>2, <2>1 DEF Startable
  <1>3. CASE startable = {}
    BY <1>3 DEF StartChoice
  <1> QED
    BY <1>2, <1>3

LEMMA TimeTypesStep ==
    ASSUME TimeTypes, [ModelsNext]_modelsVars
    PROVE  TimeTypes'
  <1>1. CASE clock' \in 0..MaxTime /\ UNCHANGED <<lastRefill, made>>
    BY <1>1 DEF TimeTypes
  <1>2. CASE AdvanceClock
    BY <1>1, <1>2, ModelBounds DEF AdvanceClock, routerVars, TimeTypes
  <1>3. ASSUME NEW n \in Names \cup {NoModel}, SwitchModel(n) PROVE TimeTypes'
    BY <1>1, <1>3, SwitchMoves DEF routerVars, TimeTypes
  <1>4. ASSUME NEW n \in Names, Register(n) PROVE TimeTypes'
    BY <1>4 DEF Register, TimeTypes
  <1>5. CASE TryCandidate
    BY <1>5 DEF TryCandidate, Allow, TimeTypes
  <1>6. CASE BeginCall \/ StartProgram \/ StopProgram \/ UNCHANGED modelsVars
    BY <1>1, <1>6 DEF BeginCall, StartProgram, StopProgram, routerVars, modelsVars, TimeTypes
  <1>7. ASSUME NEW n \in Pooled, NEW k \in KeyIds, MarkExhausted(n, k) PROVE TimeTypes'
    BY <1>1, <1>7 DEF MarkExhausted, routerVars, TimeTypes
  <1>8. ASSUME NEW n \in Pooled, Recover(n) PROVE TimeTypes'
    BY <1>1, <1>8 DEF Recover, routerVars, TimeTypes
  <1> QED
    BY <1>2, <1>3, <1>4, <1>5, <1>6, <1>7, <1>8 DEF ModelsNext, KeysNext, RouterNext

LEMMA RestTypesStep ==
    ASSUME TimeTypes, RestingTypes, [ModelsNext]_modelsVars
    PROVE  RestingTypes'
  <1>1. CASE UNCHANGED <<until, marks>>
    BY <1>1 DEF RestingTypes
  <1>2. ASSUME NEW n \in Pooled, NEW k \in KeyIds, MarkExhausted(n, k) PROVE RestingTypes'
    <2>1. /\ until' = [until EXCEPT ![n][k] = clock + Cooldown]
          /\ marks < MaxMarks /\ marks' = marks + 1
      BY <1>2 DEF MarkExhausted
    <2>2. clock + Cooldown \in 0..MaxTime + Cooldown
      BY ModelBounds DEF TimeTypes
    <2>3. until' \in [Pooled -> [KeyIds -> 0..MaxTime + Cooldown]]
      BY <2>1, <2>2 DEF RestingTypes
    <2> QED
      BY <2>1, <2>3, ModelBounds DEF RestingTypes
  <1>3. CASE StartProgram
    BY <1>3, ModelBounds DEF StartProgram, RestingTypes
  <1>4. ASSUME NEW n \in Names \cup {NoModel}, SwitchModel(n) PROVE RestingTypes'
    BY <1>1, <1>4, SwitchMoves DEF TimeTypes
  <1>5. ASSUME NEW n \in Pooled, Recover(n) PROVE RestingTypes'
    BY <1>1, <1>5 DEF Recover
  <1>6. CASE AdvanceClock \/ StopProgram \/ RouterNext \/ UNCHANGED modelsVars
    BY <1>1, <1>6 DEF AdvanceClock, StopProgram, RouterNext, Register, BeginCall, TryCandidate,
                      poolVars, modelsVars
  <1> QED
    BY <1>2, <1>3, <1>4, <1>5, <1>6 DEF ModelsNext, KeysNext

LEMMA ChoiceTypesStep ==
    ASSUME TimeTypes, ChoiceTypes, [ModelsNext]_modelsVars
    PROVE  ChoiceTypes'
  <1>1. CASE UNCHANGED choiceVars
    BY <1>1 DEF choiceVars, ChoiceTypes
  <1>2. CASE StartProgram
    <2>1. /\ running' = TRUE /\ default' = saved /\ UNCHANGED <<saved, switches>>
          /\ agentModel' \in StartChoice(saved)
      BY <1>2 DEF StartProgram
    <2> QED
      BY <2>1, StartChoiceIsName DEF ChoiceTypes
  <1>3. ASSUME NEW n \in Names \cup {NoModel}, SwitchModel(n) PROVE ChoiceTypes'
    <2>1. switches' \in 0..MaxSwitches /\ running' = running
      BY <1>3, SwitchMoves, ModelBounds DEF TimeTypes, ChoiceTypes
    <2>2. \/ n \in Names /\ agentModel' = n /\ default' = n /\ saved' \in {saved, n}
          \/ UNCHANGED <<agentModel, default, saved>>
      BY <1>3, SwitchMoves DEF TimeTypes
    <2> QED
      BY <2>1, <2>2 DEF ChoiceTypes
  <1>4. CASE StopProgram
    BY <1>4 DEF StopProgram, ChoiceTypes
  <1>5. ASSUME NEW n \in Pooled, NEW k \in KeyIds, MarkExhausted(n, k) \/ Recover(n)
        PROVE  ChoiceTypes'
    BY <1>1, <1>5 DEF MarkExhausted, Recover
  <1>6. ASSUME NEW n \in Pooled, Recover(n) PROVE ChoiceTypes'
    BY <1>1, <1>6 DEF Recover
  <1>7. CASE AdvanceClock \/ RouterNext \/ UNCHANGED modelsVars
    BY <1>1, <1>7 DEF AdvanceClock, RouterNext, Register, BeginCall, TryCandidate, modelsVars
  <1> QED
    BY <1>2, <1>3, <1>4, <1>5, <1>6, <1>7 DEF ModelsNext, KeysNext

LEMMA CallTypesStep ==
    ASSUME TimeTypes, CallTypes, [ModelsNext]_modelsVars
    PROVE  CallTypes'
  <1>1. CASE UNCHANGED <<registered, left, outcome, hasCause, calls>>
    BY <1>1 DEF CallTypes, Order
  <1>2. ASSUME NEW n \in Names, Register(n) PROVE CallTypes'
    BY <1>2 DEF Register, CallTypes, Order
  <1>3. CASE BeginCall
    <2>1. Candidates \subseteq DOMAIN Order
      BY DEF Candidates
    <2>2. /\ left' = Candidates /\ outcome' \in {"none", "busy"} /\ hasCause' = FALSE
          /\ calls < MaxCalls /\ calls' = calls + 1 /\ registered' = registered
      BY <1>3 DEF BeginCall
    <2>3. calls' \in 0..MaxCalls
      BY <2>2, ModelBounds DEF CallTypes
    <2>4. Order' = Order
      BY DEF Order
    <2> QED
      BY <2>1, <2>2, <2>3, <2>4 DEF CallTypes
  <1>4. CASE TryCandidate
    <2>1. /\ left' \subseteq left /\ UNCHANGED <<registered, calls>>
          /\ outcome' \in {"ok", "failed", "busy"} /\ hasCause' \in BOOLEAN
      BY <1>4 DEF TryCandidate, CallTypes
    <2> QED
      BY <2>1 DEF CallTypes, Order
  <1>5. ASSUME NEW n \in Names \cup {NoModel}, SwitchModel(n) PROVE CallTypes'
    BY <1>1, <1>5, SwitchMoves DEF routerVars, TimeTypes
  <1>6. ASSUME NEW n, NEW k, MarkExhausted(n, k) \/ Recover(n) PROVE CallTypes'
    BY <1>1, <1>6 DEF MarkExhausted, Recover, routerVars
  <1>7. CASE AdvanceClock \/ StartProgram \/ StopProgram \/ UNCHANGED modelsVars
    BY <1>1, <1>7 DEF AdvanceClock, StartProgram, StopProgram, routerVars, modelsVars
  <1> QED
    BY <1>2, <1>3, <1>4, <1>5, <1>6, <1>7 DEF ModelsNext, KeysNext, RouterNext

(* The types of Models, for any models, any number of keys and any length of the
   chain: the program's model is one there is a configuration for, and a bucket never
   holds more than its size (router.go:46, main.go:1440). *)
THEOREM ModelsTypeCorrect == ModelsSpec => []ModelsTypeOK
  <1> DEFINE Ind == RateInv /\ RotationInv /\ OtherModelTypes
  <1>1. ModelsInit => Ind
    BY RateInit, RotationStart, ModelTypesStart
  <1>2. Ind /\ [ModelsNext]_modelsVars => Ind'
    BY RateNext, RotationStep, TimeTypesStep, RestTypesStep, ChoiceTypesStep, CallTypesStep
       DEF OtherModelTypes
  <1>3. Ind => ModelsTypeOK
    <2> SUFFICES ASSUME Ind PROVE ModelsTypeOK
      OBVIOUS
    <2>1. tokens \in [Names -> 0..BucketSize]
      BY ModelsAssumption DEF RateInv, PaidFor
    <2> QED
      BY <2>1 DEF RateInv, RotationInv, OtherModelTypes, TimeTypes, RestingTypes, ChoiceTypes,
                  CallTypes, ModelsTypeOK
  <1> HIDE DEF Ind
  <1> QED
    BY <1>1, <1>2, <1>3, PTL DEF ModelsSpec

-----------------------------------------------------------------------------
(***************************************************************************)
(* The other types of Streams: StreamsInd has those of the calls on their  *)
(* way.                                                                    *)
(***************************************************************************)
FlowTypes ==
    /\ kind \in Providers
    /\ reader \in {"off", "reading", "closing", "closed"}
    /\ agent \in {"idle", "reading", "acting"}
    /\ texts \in 0..MaxText /\ replies \in 0..MaxReplies
    /\ written \in [Calls -> 0..Frags] /\ Len(events) <= EventCap

LEMMA FlowBounds ==
    /\ MaxText \in Nat /\ MaxReplies \in Nat /\ Frags \in Nat /\ EventCap \in Nat
    /\ 0 \in 0..MaxText /\ 0 \in 0..MaxReplies /\ 0 \in 0..Frags
  BY StreamsAssumption

LEMMA FlowStarts == StreamsInit => FlowTypes
  BY FlowBounds DEF StreamsInit, FlowTypes

(* A whole reply's arguments have at most so many fragments.               *)
LEMMA ArgumentsLength ==
    ASSUME NEW c \in Calls, NEW a \in Arguments(c)
    PROVE  Len(a) \in 0..Frags
  <1>1. Whole(c) \in Seq({c} \X (1..Frags)) /\ Len(Whole(c)) = Frags
    BY FlowBounds DEF Whole
  <1>2. CASE a \in {<<>>, Whole(c)}
    BY <1>1, <1>2, FlowBounds
  <1>3. ASSUME NEW n \in 0..Frags, a = SubSeq(Whole(c), 1, n) PROVE Len(a) \in 0..Frags
    BY <1>1, <1>3, FlowBounds, SubSeqProperties
  <1> QED
    BY <1>2, <1>3 DEF Arguments, OpenAIArguments, ClaudeArguments

LEMMA FlowStep ==
    ASSUME StreamsInd, FlowTypes, [StreamsNext]_streamsVars
    PROVE  FlowTypes'
  <1> USE FlowBounds
  <1>1. CASE OpenStream
    <2>1. /\ kind' = kind /\ reader' = "reading" /\ agent' = "reading" /\ texts' = 0
          /\ events' = <<>> /\ replies < MaxReplies /\ replies' = replies + 1
          /\ written' = [c \in Calls |-> 0]
      BY <1>1 DEF OpenStream
    <2> QED
      BY <2>1 DEF FlowTypes
  <1>2. CASE CallReplies
    <2>1. PICK n \in {0} \cup Calls, args \in [Calls -> UNION {Arguments(c) : c \in Calls}] :
             /\ \A c \in Calls : args[c] \in Arguments(c)
             /\ written' = [c \in Calls |-> IF c <= n THEN Len(args[c]) ELSE 0]
      BY <1>2 DEF CallReplies, OllamaCalls
    <2>2. written' \in [Calls -> 0..Frags]
      BY <2>1, ArgumentsLength
    <2>3. /\ UNCHANGED <<kind, reader>> /\ agent' \in {"idle", "acting"} /\ texts' = 0
          /\ events' = <<>> /\ replies < MaxReplies /\ replies' = replies + 1
      BY <1>2 DEF CallReplies, ReplyEnds
    <2> QED
      BY <2>2, <2>3 DEF FlowTypes
  <1>3. CASE TextChunk
    BY <1>3 DEF TextChunk, FlowTypes
  <1>4. CASE LastLine \/ BlockStops \/ CloseEvents
    BY <1>4 DEF LastLine, BlockStops, CloseEvents, serverVars, FlowTypes
  <1>5. CASE SendEvent
    <2>1. /\ Len(events) < EventCap /\ events' = Append(events, Head(toSend))
          /\ UNCHANGED <<kind, reader, agent, texts, replies, written>>
      BY <1>5 DEF SendEvent, serverVars
    <2>2. Len(events') = Len(events) + 1 /\ Len(events) \in Nat
      BY <2>1 DEF StreamsInd, StreamTypes
    <2> QED
      BY <2>1, <2>2 DEF FlowTypes
  <1>6. CASE TakeEvent
    <2>1. /\ events # <<>> /\ events' = Tail(events) /\ agent' \in {agent, "idle", "acting"}
          /\ UNCHANGED <<kind, reader, texts, replies, written>>
      BY <1>6 DEF TakeEvent, ReplyEnds, serverVars
    <2>2. Len(events') = Len(events) - 1 /\ Len(events) \in Nat
      BY <2>1 DEF StreamsInd, StreamTypes
    <2> QED
      BY <2>1, <2>2 DEF FlowTypes
  <1>7. CASE TakeClosed \/ ExecuteTool
    <2>1. /\ agent' \in {"idle", "acting"}
          /\ UNCHANGED <<kind, reader, texts, replies, written, events>>
      BY <1>7 DEF TakeClosed, ExecuteTool, ReplyEnds, serverVars
    <2> QED
      BY <2>1 DEF FlowTypes
  <1>8. ASSUME NEW c \in Calls, CallBegins(c) PROVE FlowTypes'
    BY <1>8 DEF CallBegins, FlowTypes
  <1>9. ASSUME NEW c \in Calls, Fragment(c) PROVE FlowTypes'
    <2>1. /\ written[c] < Frags /\ written' = [written EXCEPT ![c] = @ + 1]
          /\ UNCHANGED <<kind, reader, agent, texts, replies, events>>
      BY <1>9 DEF Fragment
    <2>2. written' \in [Calls -> 0..Frags]
      BY <2>1 DEF FlowTypes
    <2> QED
      BY <2>1, <2>2 DEF FlowTypes
  <1>10. CASE UNCHANGED streamsVars
    BY <1>10 DEF streamsVars, serverVars, FlowTypes
  <1> QED
    BY <1>1, <1>2, <1>3, <1>4, <1>5, <1>6, <1>7, <1>8, <1>9, <1>10 DEF StreamsNext

(* The types of Streams, for any number of calls, fragments and replies: the channel
   keeps to its capacity, and no more calls are executed than were collected. *)
THEOREM StreamsTypeCorrect == StreamsSpec => []StreamsTypeOK
  <1>1. StreamsInd /\ FlowTypes => StreamsTypeOK
    <2> SUFFICES ASSUME StreamsInd, FlowTypes PROVE StreamsTypeOK
      OBVIOUS
    <2>1. Range(opened) \subseteq Calls
      <3>1. opened \in Seq(Calls)
        BY DEF StreamsInd, StreamTypes
      <3>2. \A i \in DOMAIN opened : opened[i] \in Calls
        BY <3>1
      <3> QED
        BY <3>2 DEF Range
    <2> QED
      BY <2>1 DEF StreamsInd, RanOwn, FlowTypes, StreamsTypeOK
  <1>2. StreamsInd /\ FlowTypes /\ [StreamsNext]_streamsVars => StreamsInd' /\ FlowTypes'
    BY StreamsStep, FlowStep
  <1> QED
    BY <1>1, <1>2, StreamsStart, FlowStarts, PTL DEF StreamsSpec

===============================================================================
