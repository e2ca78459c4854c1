------------------------ MODULE EvidenceCacheProofs ------------------------
(* The safety properties of EvidenceCache, for every set of keys, every    *)
(* wiring of builders and every host.                                      *)
EXTENDS EvidenceCache, FiniteSetTheorems, SequenceTheorems, TLAPS

(* The frame on top of the stack is a key, and popping it leaves the rest. *)
LEMMA PopFacts ==
  ASSUME stack \in Seq(Keys), Building
  PROVE  /\ Len(stack) \in Nat \ {0}
         /\ Top \in Keys
         /\ SubSeq(stack, 1, Len(stack) - 1) \in Seq(Keys)
         /\ Len(SubSeq(stack, 1, Len(stack) - 1)) = Len(stack) - 1
         /\ \A i \in 1 .. Len(stack) - 1 :
              SubSeq(stack, 1, Len(stack) - 1)[i] = stack[i]
<1>1. Len(stack) \in Nat \ {0}
  BY EmptySeq, LenProperties DEF Building
<1>2. \A i \in 1 .. Len(stack) : stack[i] \in Keys
  BY ElementOfSeq
<1>3. Len(stack) - 1 \in Int
  BY <1>1
<1>4. \A i \in 1 .. Len(stack) - 1 : stack[i] \in Keys
  BY <1>1, <1>2
<1>5. /\ SubSeq(stack, 1, Len(stack) - 1) \in Seq(Keys)
      /\ Len(SubSeq(stack, 1, Len(stack) - 1))
           = IF 1 <= Len(stack) - 1 THEN (Len(stack) - 1) - 1 + 1 ELSE 0
      /\ \A i \in 1 .. (Len(stack) - 1) - 1 + 1 :
           SubSeq(stack, 1, Len(stack) - 1)[i] = stack[1 + i - 1]
  BY <1>1, <1>3, <1>4, SubSeqProperties
<1>6. Len(SubSeq(stack, 1, Len(stack) - 1)) = Len(stack) - 1
  <2>1. \A n \in Nat \ {0} : (IF 1 <= n - 1 THEN (n - 1) - 1 + 1 ELSE 0) = n - 1
    OBVIOUS
  <2> QED
    BY <1>1, <1>5, <2>1, Zenon
<1>7. ASSUME NEW i \in 1 .. Len(stack) - 1
      PROVE  SubSeq(stack, 1, Len(stack) - 1)[i] = stack[i]
  <2>1. i \in 1 .. (Len(stack) - 1) - 1 + 1 /\ 1 + i - 1 = i
    BY <1>1
  <2> QED
    BY <2>1, <1>5
<1>8. Top \in Keys
  BY <1>1, <1>2 DEF Top
<1> QED
  BY <1>1, <1>5, <1>6, <1>7, <1>8

(* The key being built has no answer yet.                                  *)
LEMMA TopIsOpen ==
  ASSUME CacheTypeOK, NoReentry, Building
  PROVE  Top \in Keys /\ cache[Top] = Absent
<1>1. Len(stack) \in Nat \ {0} /\ Top \in Keys /\ Top = stack[Len(stack)]
  BY PopFacts DEF CacheTypeOK, Top
<1> QED
  BY <1>1 DEF NoReentry

(* Pushing a key leaves the frames below it in place.                      *)
LEMMA PushFacts ==
  ASSUME stack \in Seq(Keys), NEW k \in Keys
  PROVE  /\ Append(stack, k) \in Seq(Keys)
         /\ Len(Append(stack, k)) = Len(stack) + 1
         /\ Append(stack, k)[Len(stack) + 1] = k
         /\ \A i \in 1 .. Len(stack) : Append(stack, k)[i] = stack[i]
  OBVIOUS

(* Every step keeps every variable in its type.                            *)
LEMMA TypeStep == ASSUME CacheTypeOK, [CacheNext]_cacheVars PROVE CacheTypeOK'
<1> USE SentinelsDistinct, WiringAssumption DEF CacheTypeOK, Answers
<1>1. ASSUME NEW k \in Keys, Hit(k) PROVE CacheTypeOK'
  BY <1>1 DEF Hit, Use, Throw, Tell, tallies
<1>2. ASSUME NEW k \in Keys, Miss(k) PROVE CacheTypeOK'
  BY <1>2, PushFacts DEF Miss, Use, Push, tallies
<1>3. ASSUME NEW v \in Values, Succeed(v) PROVE CacheTypeOK'
  <2>1. Top \in Keys /\ CollectorOf[Top] \in Collectors /\ stack' \in Seq(Keys)
    BY <1>3, PopFacts DEF Succeed, Pop
  <2> QED
    BY <1>3, <2>1 DEF Succeed, Tell
<1>4. CASE Fail
  <2>1. Top \in Keys /\ CollectorOf[Top] \in Collectors /\ stack' \in Seq(Keys)
    BY <1>4, PopFacts DEF Fail, Pop
  <2> QED
    BY <1>4, <2>1 DEF Fail, Throw, Tell
<1>5. CASE Blow
  <2>1. Top \in Keys /\ CollectorOf[Top] \in Collectors /\ stack' \in Seq(Keys)
    BY <1>5, PopFacts DEF Blow, Pop
  <2> QED
    BY <1>5, <2>1 DEF Blow, Throw, Tell
<1>6. ASSUME NEW s \in Sources, NEW a \in Answers, ReadHost(s, a) PROVE CacheTypeOK'
  BY <1>6 DEF ReadHost, Use, tallies
<1>7. ASSUME NEW e \in Reasons \cup {Crash}, Raise(e) PROVE CacheTypeOK'
  BY <1>7 DEF Raise, Throw, tallies
<1>8. CASE Tolerate
  BY <1>8 DEF Tolerate, Throw, tallies
<1>9. CASE Client
  BY <1>9 DEF Client, BeginTracking, EndTracking, Handle, Throw, tallies
<1>10. CASE UNCHANGED cacheVars
  BY <1>10 DEF cacheVars, tallies
<1>11. ASSUME NEW s \in Commands, NEW error \in SUBSET {CommandError}, RunCommand(s, error) PROVE CacheTypeOK'
  BY <1>11 DEF RunCommand, Use
<1> QED
  BY <1>1, <1>2, <1>3, <1>4, <1>5, <1>6, <1>7, <1>8, <1>9, <1>10, <1>11 DEF CacheNext, Gather

(* The variables keep their types (CacheTypeOK).                  *)
THEOREM TypeCorrect == CacheSpec => []CacheTypeOK
<1>1. CacheInit => CacheTypeOK
  BY SentinelsDistinct DEF CacheInit, CacheTypeOK
<1>2. CacheTypeOK /\ [CacheNext]_cacheVars => CacheTypeOK'
  BY TypeStep
<1> QED
  BY <1>1, <1>2, PTL DEF CacheSpec

-----------------------------------------------------------------------------
(* The stack only ever descends in the call graph of the builders.         *)

Rank ==
  CHOOSE rank \in [Keys -> 0 .. Cardinality(Keys)] :
    \A k \in Keys : \A j \in Asks[k] : rank[j] < rank[k]

Ordered ==
  \A i, j \in 1 .. Len(stack) : i < j => Rank[stack[j]] < Rank[stack[i]]

(* Whatever a builder asks for ranks below it.                             *)
LEMMA RankDecreases ==
  /\ \A k \in Keys : Rank[k] \in Nat
  /\ \A k \in Keys : \A j \in Asks[k] : Rank[j] < Rank[k]
<1>1. /\ Rank \in [Keys -> 0 .. Cardinality(Keys)]
      /\ \A k \in Keys : \A j \in Asks[k] : Rank[j] < Rank[k]
  BY AcyclicAssumption, Zenon DEF Rank
<1>2. Cardinality(Keys) \in Nat
  BY WiringAssumption, FS_CardinalityType
<1> QED
  BY <1>1, <1>2

(* What a step may do to the stack and to the settled keys: push a key that *)
(* is not settled, pop the top and perhaps settle it, or leave both alone.  *)
LEMMA StackSteps ==
  ASSUME CacheTypeOK, [CacheNext]_cacheVars
  PROVE  \/ \E k \in Keys : /\ MayAsk(k)
                            /\ cache[k] = Absent
                            /\ stack' = Append(stack, k)
                            /\ cache' = cache
         \/ /\ Building
            /\ stack' = SubSeq(stack, 1, Len(stack) - 1)
            /\ \/ \E a \in Answers : cache' = [cache EXCEPT ![Top] = a]
               \/ cache' = cache
         \/ stack' = stack /\ cache' = cache
<1>1. ASSUME NEW k \in Keys, Miss(k)
      PROVE  /\ MayAsk(k) /\ cache[k] = Absent
             /\ stack' = Append(stack, k) /\ cache' = cache
  BY <1>1 DEF Miss, Push
<1>2. ASSUME NEW v \in Values, Succeed(v)
      PROVE  /\ Building /\ stack' = SubSeq(stack, 1, Len(stack) - 1)
             /\ v \in Answers /\ cache' = [cache EXCEPT ![Top] = v]
  BY <1>2 DEF Succeed, Pop, Answers
<1>3. ASSUME Fail
      PROVE  /\ Building /\ stack' = SubSeq(stack, 1, Len(stack) - 1)
             /\ raised \in Answers /\ cache' = [cache EXCEPT ![Top] = raised]
  BY <1>3 DEF Fail, Pop, Answers
<1>4. ASSUME Blow
      PROVE  Building /\ stack' = SubSeq(stack, 1, Len(stack) - 1) /\ cache' = cache
  BY <1>4 DEF Blow, Pop
<1>5. ASSUME \/ \E k \in Keys : Hit(k)
             \/ \E s \in Sources, a \in Answers : ReadHost(s, a)
             \/ \E s \in Commands, error \in SUBSET {CommandError} : RunCommand(s, error)
             \/ \E e \in Reasons \cup {Crash} : Raise(e)
             \/ Tolerate
             \/ Client
             \/ UNCHANGED cacheVars
      PROVE  stack' = stack /\ cache' = cache
  BY <1>5, Zenon DEF Hit, ReadHost, RunCommand, Raise, Tolerate, Client, BeginTracking, EndTracking, Handle, cacheVars
<1> QED
  BY <1>1, <1>2, <1>3, <1>4, <1>5, Zenon DEF CacheNext, Gather

(* No key is rebuilt inside its own build, and what is being built has no  *)
(* answer yet (EvidenceCache!NoReentry).                                   *)
THEOREM NoReentryHolds == CacheSpec => []NoReentry
<1> DEFINE Inv == NoReentry /\ Ordered
<1>1. CacheInit => Inv
  BY DEF CacheInit, NoReentry, Ordered
<1>2. CacheTypeOK /\ Inv /\ [CacheNext]_cacheVars => Inv'
  <2> SUFFICES ASSUME CacheTypeOK, Inv, [CacheNext]_cacheVars PROVE NoReentry' /\ Ordered'
    OBVIOUS
  <2>1. stack \in Seq(Keys) /\ Len(stack) \in Nat /\ \A i \in 1 .. Len(stack) : stack[i] \in Keys
    BY LenProperties, ElementOfSeq DEF CacheTypeOK
  <2>2. CASE stack' = stack /\ cache' = cache
    BY <2>2 DEF NoReentry, Ordered
  <2>3. ASSUME NEW k \in Keys, MayAsk(k), cache[k] = Absent,
               stack' = Append(stack, k), cache' = cache
        PROVE  NoReentry' /\ Ordered'
    <3>1. /\ Len(stack') = Len(stack) + 1
          /\ stack'[Len(stack) + 1] = k
          /\ \A i \in 1 .. Len(stack) : stack'[i] = stack[i]
      BY <2>1, <2>3, PushFacts
    <3>2. \A i \in 1 .. Len(stack) : Rank[k] < Rank[stack[i]]
      <4> SUFFICES ASSUME NEW i \in 1 .. Len(stack) PROVE Rank[k] < Rank[stack[i]]
        OBVIOUS
      <4>1. Building
        BY <2>1, EmptySeq DEF Building
      <4>2. Len(stack) \in Nat \ {0} /\ Top = stack[Len(stack)] /\ Top \in Keys
        BY <2>1, <4>1, PopFacts DEF Top
      <4>3. Rank[k] < Rank[Top]
        BY <2>3, <4>1, <4>2, RankDecreases DEF MayAsk
      <4>4. i = Len(stack) \/ Rank[Top] < Rank[stack[i]]
        BY <2>1, <4>2 DEF Ordered
      <4>5. Rank[k] \in Nat /\ Rank[Top] \in Nat /\ Rank[stack[i]] \in Nat
        BY <2>1, <4>2, RankDecreases
      <4> QED
        BY <4>2, <4>3, <4>4, <4>5
    <3>3. Ordered'
      BY <2>1, <3>1, <3>2 DEF Ordered
    <3>4. \A i \in 1 .. Len(stack) : stack[i] # k
      BY <2>1, <3>2, RankDecreases
    <3>5. NoReentry'
      BY <2>1, <2>3, <3>1, <3>4 DEF NoReentry
    <3> QED
      BY <3>3, <3>5
  <2>4. ASSUME Building, stack' = SubSeq(stack, 1, Len(stack) - 1),
               \/ \E a \in Answers : cache' = [cache EXCEPT ![Top] = a]
               \/ cache' = cache
        PROVE  NoReentry' /\ Ordered'
    <3>1. /\ Len(stack) \in Nat \ {0} /\ Len(stack') = Len(stack) - 1
          /\ Top \in Keys /\ Top = stack[Len(stack)]
          /\ \A i \in 1 .. Len(stack') : stack'[i] = stack[i]
      BY <2>1, <2>4, PopFacts, Zenon DEF Top
    <3>2. Ordered'
      BY <2>1, <3>1 DEF Ordered
    <3>3. \A i \in 1 .. Len(stack') : stack[i] # Top /\ stack[i] \in Keys
      BY <2>1, <3>1 DEF NoReentry
    <3>4. \A i \in 1 .. Len(stack') : cache'[stack[i]] = cache[stack[i]]
      BY <2>4, <3>1, <3>3 DEF CacheTypeOK
    <3>5. NoReentry'
      BY <2>1, <3>1, <3>4 DEF NoReentry
    <3> QED
      BY <3>2, <3>5
  <2> QED
    BY <2>2, <2>3, <2>4, StackSteps
<1>3. Inv => NoReentry
  OBVIOUS
<1> QED
  BY <1>1, <1>2, <1>3, TypeCorrect, PTL DEF CacheSpec

-----------------------------------------------------------------------------
(* All callers that get an answer get the same one, the one in the cache   *)
(* (EvidenceCache!SameAnswer).  What makes it inductive is that the key a  *)
(* build settles has not been answered before, which NoReentry provides.   *)
THEOREM SameAnswerHolds == CacheSpec => []SameAnswer
<1>1. CacheInit => SameAnswer
  BY DEF CacheInit, SameAnswer
<1>2. CacheTypeOK /\ NoReentry /\ SameAnswer /\ [CacheNext]_cacheVars => SameAnswer'
  <2> SUFFICES ASSUME CacheTypeOK, NoReentry, SameAnswer, [CacheNext]_cacheVars,
                      NEW k \in Keys
               PROVE  (told[k] \ {Crash} \subseteq {cache[k]})'
    BY DEF SameAnswer
  <2>1. /\ told[k] \ {Crash} \subseteq {cache[k]}
        /\ told[k] \subseteq Answers \cup {Crash}
        /\ cache \in [Keys -> Answers \cup {Absent}]
        /\ told \in [Keys -> SUBSET (Answers \cup {Crash})]
    BY DEF SameAnswer, CacheTypeOK
  <2>2. Building => Top \in Keys /\ cache[Top] = Absent
    BY TopIsOpen
  <2>3. Building /\ k = Top => told[k] \subseteq {Crash}
    BY <2>1, <2>2, SentinelsDistinct
  <2>4. ASSUME told'[k] = told[k], cache'[k] = cache[k]
        PROVE  (told[k] \ {Crash} \subseteq {cache[k]})'
    BY <2>1, <2>4
  <2>5. ASSUME NEW j \in Keys, Hit(j) PROVE (told[k] \ {Crash} \subseteq {cache[k]})'
    BY <2>1, <2>5 DEF Hit, Tell
  <2>6. ASSUME NEW j \in Keys, Miss(j) PROVE (told[k] \ {Crash} \subseteq {cache[k]})'
    BY <2>4, <2>6 DEF Miss
  <2>7. ASSUME NEW v \in Values, Succeed(v)
        PROVE  (told[k] \ {Crash} \subseteq {cache[k]})'
    BY <2>1, <2>2, <2>3, <2>7 DEF Succeed, Tell
  <2>8. CASE Fail
    BY <2>1, <2>2, <2>3, <2>8 DEF Fail, Tell
  <2>9. CASE Blow
    BY <2>1, <2>2, <2>9 DEF Blow, Tell
  <2>10. ASSUME NEW s \in Sources, NEW a \in Answers, ReadHost(s, a)
         PROVE  (told[k] \ {Crash} \subseteq {cache[k]})'
    BY <2>4, <2>10 DEF ReadHost
  <2>11. ASSUME NEW e \in Reasons \cup {Crash}, Raise(e)
         PROVE  (told[k] \ {Crash} \subseteq {cache[k]})'
    BY <2>4, <2>11 DEF Raise
  <2>12. CASE Tolerate \/ Client \/ UNCHANGED cacheVars
    BY <2>4, <2>12 DEF Tolerate, Client, BeginTracking, EndTracking, Handle, cacheVars
  <2>13. ASSUME NEW s \in Commands, NEW error \in SUBSET {CommandError}, RunCommand(s, error)
         PROVE  (told[k] \ {Crash} \subseteq {cache[k]})'
    BY <2>4, <2>13 DEF RunCommand
  <2> QED
    BY <2>5, <2>6, <2>7, <2>8, <2>9, <2>10, <2>11, <2>12, <2>13 DEF CacheNext, Gather
<1> QED
  BY <1>1, <1>2, TypeCorrect, NoReentryHolds, PTL DEF CacheSpec

(* Evidence once settled is never replaced or forgotten.                   *)
LEMMA SettledIsFinal ==
  ASSUME CacheTypeOK, NoReentry, [CacheNext]_cacheVars, NEW k \in Keys, cache[k] # Absent
  PROVE  cache'[k] = cache[k]
<1>1. Building => Top \in Keys /\ cache[Top] = Absent
  BY TopIsOpen
<1>2. cache \in [Keys -> Answers \cup {Absent}]
  BY DEF CacheTypeOK
<1>3. CASE cache' = cache
  BY <1>3
<1>4. CASE Building /\ \E a \in Answers : cache' = [cache EXCEPT ![Top] = a]
  BY <1>1, <1>2, <1>4
<1> QED
  BY <1>3, <1>4, StackSteps

(* Whatever is settled has been told to the caller it was settled for.     *)
SettledWasTold == \A k \in Keys : cache[k] # Absent => cache[k] \in told[k]

LEMMA SettledWasToldHolds == CacheSpec => []SettledWasTold
<1>1. CacheInit => SettledWasTold
  BY DEF CacheInit, SettledWasTold
<1>2. CacheTypeOK /\ NoReentry /\ SettledWasTold /\ [CacheNext]_cacheVars => SettledWasTold'
  <2> SUFFICES ASSUME CacheTypeOK, NoReentry, SettledWasTold, [CacheNext]_cacheVars,
                      NEW k \in Keys
               PROVE  cache'[k] # Absent => cache'[k] \in told'[k]
    BY DEF SettledWasTold
  <2>1. /\ cache[k] # Absent => cache[k] \in told[k]
        /\ cache \in [Keys -> Answers \cup {Absent}]
        /\ told \in [Keys -> SUBSET (Answers \cup {Crash})]
    BY DEF SettledWasTold, CacheTypeOK
  <2>2. Building => Top \in Keys /\ cache[Top] = Absent
    BY TopIsOpen
  <2>3. ASSUME cache' = cache, told[k] \subseteq told'[k]
        PROVE  cache'[k] # Absent => cache'[k] \in told'[k]
    BY <2>1, <2>3
  <2>4. ASSUME (\E v \in Values : Succeed(v)) \/ Fail
        PROVE  cache'[k] # Absent => cache'[k] \in told'[k]
    BY <2>1, <2>2, <2>4 DEF Succeed, Fail, Tell
  <2>5. ASSUME (\E j \in Keys : Hit(j)) \/ Blow
        PROVE  cache' = cache /\ told[k] \subseteq told'[k]
    BY <2>1, <2>2, <2>5 DEF Hit, Blow, Tell
  <2>6. ASSUME \/ \E j \in Keys : Miss(j)
               \/ \E s \in Sources, a \in Answers : ReadHost(s, a)
               \/ \E s \in Commands, error \in SUBSET {CommandError} : RunCommand(s, error)
               \/ \E e \in Reasons \cup {Crash} : Raise(e)
               \/ Tolerate \/ Client \/ UNCHANGED cacheVars
        PROVE  cache' = cache /\ told' = told
    BY <2>6, Zenon DEF Miss, ReadHost, RunCommand, Raise, Tolerate, Client, BeginTracking, EndTracking, Handle, cacheVars
  <2> QED
    BY <2>3, <2>4, <2>5, <2>6 DEF CacheNext, Gather
<1> QED
  BY <1>1, <1>2, TypeCorrect, NoReentryHolds, PTL DEF CacheSpec

-----------------------------------------------------------------------------
(* What a step does to one collector's counters: a build that ends settles *)
(* or crashes adds one to one of them, and only a settled build changes    *)
(* the set of settled keys, by the one key it built.                       *)
LEMMA TallySteps ==
  ASSUME CacheTypeOK, NoReentry, [CacheNext]_cacheVars, NEW c \in Collectors
  PROVE  \/ /\ Building /\ CollectorOf[Top] = c /\ Top \notin Settled(c)
            /\ Settled(c)' = Settled(c) \cup {Top}
            /\ successes'[c] + failures'[c] = successes[c] + failures[c] + 1
            /\ failures'[c] >= failures[c] /\ errors'[c] = errors[c]
         \/ /\ Settled(c)' = Settled(c)
            /\ successes'[c] = successes[c] /\ failures'[c] = failures[c]
            /\ errors'[c] >= errors[c]
<1>1. /\ Building => Top \in Keys /\ cache[Top] = Absent
      /\ cache \in [Keys -> Answers \cup {Absent}]
      /\ CollectorOf \in [Keys -> Collectors]
      /\ successes \in [Collectors -> Nat] /\ failures \in [Collectors -> Nat]
      /\ errors \in [Collectors -> Nat]
  <2>1. Building => Top \in Keys /\ cache[Top] = Absent
    BY TopIsOpen
  <2> QED
    BY <2>1, WiringAssumption DEF CacheTypeOK
<1>2. ASSUME Building, NEW a \in Answers, cache' = [cache EXCEPT ![Top] = a]
      PROVE  Settled(c)' = IF CollectorOf[Top] = c THEN Settled(c) \cup {Top} ELSE Settled(c)
  BY <1>1, <1>2, SentinelsDistinct DEF Settled
<1>3. Building => Top \notin Settled(c)
  BY <1>1 DEF Settled
<1>4. ASSUME NEW v \in Values, Succeed(v)
      PROVE  /\ Building /\ v \in Answers /\ cache' = [cache EXCEPT ![Top] = v]
             /\ successes'[c] = IF CollectorOf[Top] = c THEN successes[c] + 1 ELSE successes[c]
             /\ failures' = failures /\ errors' = errors
  BY <1>1, <1>4 DEF Succeed, Answers
<1>5. ASSUME Fail
      PROVE  /\ Building /\ raised \in Answers /\ cache' = [cache EXCEPT ![Top] = raised]
             /\ failures'[c] = IF CollectorOf[Top] = c THEN failures[c] + 1 ELSE failures[c]
             /\ successes' = successes /\ errors' = errors
  BY <1>1, <1>5 DEF Fail, Answers
<1>6. ASSUME Blow
      PROVE  /\ cache' = cache /\ successes' = successes /\ failures' = failures
             /\ errors'[c] \in {errors[c], errors[c] + 1}
  BY <1>1, <1>6 DEF Blow
<1>7. ASSUME ~ \E v \in Values : Succeed(v), ~ Fail, ~ Blow
      PROVE  /\ cache' = cache /\ successes' = successes
             /\ failures' = failures /\ errors' = errors
  BY <1>7, Zenon DEF CacheNext, Gather, Hit, Miss, ReadHost, RunCommand, Raise, Tolerate, Client,
     BeginTracking, EndTracking, Handle, tallies, cacheVars
<1>8. cache' = cache => Settled(c)' = Settled(c)
  BY DEF Settled
<1>9. CASE \E v \in Values : Succeed(v)
  BY <1>1, <1>2, <1>3, <1>4, <1>9
<1>10. CASE Fail
  BY <1>1, <1>2, <1>3, <1>5, <1>10
<1>11. CASE Blow
  BY <1>1, <1>6, <1>8, <1>11
<1> QED
  BY <1>1, <1>7, <1>8, <1>9, <1>10, <1>11

(* A collector's successes and failures count exactly its settled keys     *)
(* (EvidenceCache!TallyMatchesCache).                                      *)
THEOREM TallyHolds == CacheSpec => []TallyMatchesCache
<1>1. CacheInit => TallyMatchesCache
  <2> SUFFICES ASSUME CacheInit, NEW c \in Collectors
               PROVE  successes[c] + failures[c] = Cardinality(Settled(c))
    BY DEF TallyMatchesCache
  <2>1. Settled(c) = {} /\ successes[c] = 0 /\ failures[c] = 0
    BY DEF CacheInit, Settled
  <2> QED
    BY <2>1, FS_EmptySet
<1>2. CacheTypeOK /\ NoReentry /\ TallyMatchesCache /\ [CacheNext]_cacheVars => TallyMatchesCache'
  <2> SUFFICES ASSUME CacheTypeOK, NoReentry, TallyMatchesCache, [CacheNext]_cacheVars,
                      NEW c \in Collectors
               PROVE  successes'[c] + failures'[c] = Cardinality(Settled(c)')
    BY DEF TallyMatchesCache
  <2>1. successes[c] + failures[c] = Cardinality(Settled(c))
    BY DEF TallyMatchesCache
  <2>2. IsFiniteSet(Settled(c))
    <3>1. Settled(c) \subseteq Keys
      BY DEF Settled
    <3> QED
      BY <3>1, WiringAssumption, FS_Subset
  <2>3. Top \notin Settled(c)
          => Cardinality(Settled(c) \cup {Top}) = Cardinality(Settled(c)) + 1
    BY <2>2, FS_AddElement
  <2> QED
    BY <2>1, <2>3, TallySteps
<1> QED
  BY <1>1, <1>2, TypeCorrect, NoReentryHolds, PTL DEF CacheSpec

(* No step clears a blemish.                                               *)
LEMMA BlemishStep ==
  ASSUME CacheTypeOK, NoReentry, [CacheNext]_cacheVars, NEW c \in Collectors,
         CollectorStatus(c) # "SUCCESS"
  PROVE  CollectorStatus(c)' # "SUCCESS"
<1>1. /\ successes[c] \in Nat /\ failures[c] \in Nat /\ errors[c] \in Nat
      /\ failures[c] + errors[c] > 0
  BY DEF CollectorStatus, CacheTypeOK
<1>2. failures'[c] >= failures[c] /\ errors'[c] >= errors[c]
  BY <1>1, TallySteps
<1>3. CacheTypeOK'
  BY TypeStep
<1> QED
  BY <1>1, <1>2, <1>3 DEF CollectorStatus, CacheTypeOK

(* Once a collector is reported as anything but SUCCESS it stays so        *)
(* (EvidenceCache!BlemishIsKept).                                          *)
THEOREM BlemishHolds == CacheSpec => BlemishIsKept
<1>1. CacheTypeOK /\ NoReentry /\ [CacheNext]_cacheVars
        => [\A c \in Collectors :
              CollectorStatus(c) # "SUCCESS" => CollectorStatus(c)' # "SUCCESS"]_cacheVars
  BY BlemishStep
<1> QED
  BY <1>1, TypeCorrect, NoReentryHolds, PTL DEF CacheSpec, BlemishIsKept

-----------------------------------------------------------------------------
(* The strengthening behind FailureIsAttributed, part by part.             *)

(* No blame is left over once an exception has been handled.               *)
NoStaleBlame == Running => raisedBy = Absent

(* A build in a tracking window is a build the window knows of.            *)
BuildersTracked ==
  tracking # Absent => \A i \in 1 .. Len(stack) : CollectorOf[stack[i]] \in tracking

(* A stored failure has been counted and has left a reason.                *)
ReasonsCounted ==
  \A k \in Keys :
    cache[k] \in Reasons => /\ failures[CollectorOf[k]] > 0
                           /\ limitation[CollectorOf[k]] # Absent

(* The reason a collector states is one a key of it still gives.           *)
ReasonsExplained ==
  \A c \in Collectors :
    limitation[c] # Absent => \E k \in Settled(c) : cache[k] = limitation[c]

(* The failure on its way to a caller is the stored one, of a collector in *)
(* the window.                                                             *)
BlameStands ==
  raised \in Reasons /\ raisedBy # Absent =>
    /\ cache[raisedBy] = raised
    /\ tracking # Absent => CollectorOf[raisedBy] \in tracking

Attribution ==
  NoStaleBlame /\ BuildersTracked /\ ReasonsCounted /\ ReasonsExplained /\ BlameStands

(* NoStaleBlame is kept: whatever clears the exception clears the blame.   *)
LEMMA NoStaleBlameStep ==
  ASSUME CacheTypeOK, NoStaleBlame, [CacheNext]_cacheVars
  PROVE  NoStaleBlame'
<1> USE SentinelsDistinct DEF NoStaleBlame, Running, Answers
<1>1. ASSUME NEW k \in Keys, Hit(k) \/ Miss(k) PROVE NoStaleBlame'
  BY <1>1 DEF Hit, Miss, Throw
<1>2. ASSUME NEW v \in Values, Succeed(v) PROVE NoStaleBlame'
  BY <1>2 DEF Succeed
<1>3. CASE Fail \/ Blow \/ Tolerate
  BY <1>3 DEF Fail, Blow, Tolerate, Throw
<1>4. ASSUME NEW s \in Sources, NEW a \in Answers, ReadHost(s, a) PROVE NoStaleBlame'
  BY <1>4 DEF ReadHost
<1>5. ASSUME NEW e \in Reasons \cup {Crash}, Raise(e) PROVE NoStaleBlame'
  BY <1>5 DEF Raise, Throw
<1>6. CASE Client \/ UNCHANGED cacheVars
  BY <1>6 DEF Client, BeginTracking, EndTracking, Handle, Throw, cacheVars
<1>7. ASSUME NEW s \in Commands, NEW error \in SUBSET {CommandError}, RunCommand(s, error) PROVE NoStaleBlame'
  BY <1>7 DEF RunCommand
<1> QED
  BY <1>1, <1>2, <1>3, <1>4, <1>5, <1>6, <1>7 DEF CacheNext, Gather

(* BuildersTracked is kept: a window opens and closes around whole builds, *)
(* and a build enters the window before it starts.                         *)
LEMMA BuildersTrackedStep ==
  ASSUME CacheTypeOK, BuildersTracked, [CacheNext]_cacheVars
  PROVE  BuildersTracked'
<1>1. /\ stack \in Seq(Keys) /\ Len(stack) \in Nat
      /\ \A i \in 1 .. Len(stack) : stack[i] \in Keys
      /\ tracking \in (SUBSET Collectors) \cup {Absent}
  BY LenProperties, ElementOfSeq DEF CacheTypeOK
<1>2. ASSUME stack' = stack,
             tracking' = tracking \/ \E c \in Collectors : Use(c)
      PROVE  BuildersTracked'
  BY <1>1, <1>2 DEF BuildersTracked, Use
<1>3. ASSUME NEW k \in Keys, Hit(k) PROVE BuildersTracked'
  BY <1>2, <1>3, WiringAssumption DEF Hit
<1>4. ASSUME NEW k \in Keys, Miss(k) PROVE BuildersTracked'
  <2>1. /\ Len(stack') = Len(stack) + 1 /\ stack'[Len(stack) + 1] = k
        /\ \A i \in 1 .. Len(stack) : stack'[i] = stack[i]
    BY <1>1, <1>4, PushFacts DEF Miss, Push
  <2>2. tracking' # Absent => tracking # Absent /\ tracking' = tracking \cup {CollectorOf[k]}
    BY <1>4 DEF Miss, Use
  <2> QED
    BY <1>1, <2>1, <2>2 DEF BuildersTracked
<1>5. ASSUME Building, stack' = SubSeq(stack, 1, Len(stack) - 1), tracking' = tracking
      PROVE  BuildersTracked'
  <2>1. /\ Len(stack') = Len(stack) - 1
        /\ \A i \in 1 .. Len(stack') : stack'[i] = stack[i]
    BY <1>1, <1>5, PopFacts
  <2> QED
    BY <1>1, <1>5, <2>1 DEF BuildersTracked
<1>6. ASSUME (\E v \in Values : Succeed(v)) \/ Fail \/ Blow PROVE BuildersTracked'
  BY <1>5, <1>6 DEF Succeed, Fail, Blow, Pop
<1>7. ASSUME NEW s \in Sources, NEW a \in Answers, ReadHost(s, a) PROVE BuildersTracked'
  BY <1>2, <1>7, WiringAssumption DEF ReadHost
<1>8. ASSUME NEW e \in Reasons \cup {Crash}, Raise(e) PROVE BuildersTracked'
  BY <1>2, <1>8 DEF Raise
<1>9. CASE Tolerate \/ Handle \/ UNCHANGED cacheVars
  BY <1>2, <1>9 DEF Tolerate, Handle, cacheVars
<1>10. CASE BeginTracking \/ EndTracking
  <2>1. stack' = <<>> /\ Len(<<>>) = 0
    BY <1>10 DEF BeginTracking, EndTracking, Building
  <2> QED
    BY <2>1 DEF BuildersTracked
<1>11. ASSUME NEW s \in Commands, NEW error \in SUBSET {CommandError}, RunCommand(s, error) PROVE BuildersTracked'
  BY <1>2, <1>11, WiringAssumption DEF RunCommand
<1> QED
  BY <1>3, <1>4, <1>6, <1>7, <1>8, <1>9, <1>10, <1>11 DEF CacheNext, Gather, Client

(* The two parts about stored reasons are kept: the step that stores one   *)
(* counts it and leaves a reason, and settled keys keep their answer.      *)
LEMMA ReasonsStep ==
  ASSUME CacheTypeOK, NoReentry, ReasonsCounted, ReasonsExplained, [CacheNext]_cacheVars
  PROVE  ReasonsCounted' /\ ReasonsExplained'
<1>1. /\ cache \in [Keys -> Answers \cup {Absent}]
      /\ failures \in [Collectors -> Nat]
      /\ limitation \in [Collectors -> Reasons \cup {Absent}]
      /\ CollectorOf \in [Keys -> Collectors]
      /\ Absent \notin Reasons
  BY WiringAssumption, SentinelsDistinct DEF CacheTypeOK, Answers
<1>2. Building => Top \in Keys /\ cache[Top] = Absent
  BY TopIsOpen
<1>3. ASSUME cache' = cache, failures' = failures, limitation' = limitation
      PROVE  ReasonsCounted' /\ ReasonsExplained'
  BY <1>3 DEF ReasonsCounted, ReasonsExplained, Settled
<1>4. ASSUME NEW v \in Values, Succeed(v) PROVE ReasonsCounted' /\ ReasonsExplained'
  <2>1. /\ v \notin Reasons /\ Top \in Keys /\ cache[Top] = Absent
        /\ cache' = [cache EXCEPT ![Top] = v]
        /\ failures' = failures /\ limitation' = limitation
    BY <1>2, <1>4, SentinelsDistinct DEF Succeed
  <2>2. ReasonsCounted'
    BY <1>1, <2>1 DEF ReasonsCounted
  <2>3. \A k \in Keys : cache[k] # Absent => cache'[k] = cache[k]
    BY <1>1, <2>1
  <2>4. ReasonsExplained'
    BY <1>1, <2>1, <2>3 DEF ReasonsExplained, Settled
  <2> QED
    BY <2>2, <2>4
<1>5. CASE Fail
  <2> DEFINE d == CollectorOf[Top]
  <2>1. /\ Top \in Keys /\ cache[Top] = Absent /\ raised \in Reasons /\ d \in Collectors
        /\ cache' = [cache EXCEPT ![Top] = raised]
        /\ failures' = [failures EXCEPT ![d] = @ + 1]
        /\ limitation' = [limitation EXCEPT ![d] = IF @ = Absent THEN raised ELSE @]
    BY <1>1, <1>2, <1>5 DEF Fail
  <2>2. ReasonsCounted'
    BY <1>1, <2>1 DEF ReasonsCounted
  <2>3. \A k \in Keys : cache[k] # Absent => cache'[k] = cache[k]
    BY <1>1, <2>1
  <2>4. cache'[Top] = raised /\ raised # Absent
    BY <1>1, <2>1
  <2>5. \A c \in Collectors : limitation[c] # Absent => limitation'[c] = limitation[c]
    BY <1>1, <2>1
  <2>6. \A c \in Collectors : limitation[c] = Absent /\ limitation'[c] # Absent
          => c = d /\ limitation'[c] = raised
    BY <1>1, <2>1
  <2>7. ReasonsExplained'
    BY <1>1, <2>1, <2>3, <2>4, <2>5, <2>6 DEF ReasonsExplained, Settled
  <2> QED
    BY <2>2, <2>7
<1>6. ASSUME ~ \E v \in Values : Succeed(v), ~ Fail
      PROVE  cache' = cache /\ failures' = failures /\ limitation' = limitation
  BY <1>6, Zenon DEF CacheNext, Gather, Hit, Miss, Blow, ReadHost, RunCommand, Raise, Tolerate, Client,
     BeginTracking, EndTracking, Handle, tallies, cacheVars
<1> QED
  BY <1>3, <1>4, <1>5, <1>6

(* BlameStands is kept: blame is put on a key as its stored failure is     *)
(* raised, and nothing else happens until someone handles it.              *)
LEMMA BlameStandsStep ==
  ASSUME CacheTypeOK, NoStaleBlame, BuildersTracked, BlameStands, [CacheNext]_cacheVars
  PROVE  BlameStands'
<1> USE SentinelsDistinct DEF BlameStands
<1>1. /\ cache \in [Keys -> Answers \cup {Absent}] /\ CollectorOf \in [Keys -> Collectors]
      /\ Building => Top \in Keys
      /\ Building /\ tracking # Absent => CollectorOf[Top] \in tracking
  <2>1. Building => Len(stack) \in Nat \ {0} /\ Top \in Keys /\ Top = stack[Len(stack)]
    BY PopFacts DEF CacheTypeOK, Top
  <2>2. Building /\ tracking # Absent => CollectorOf[Top] \in tracking
    BY <2>1 DEF BuildersTracked
  <2> QED
    BY <2>1, <2>2, WiringAssumption DEF CacheTypeOK
<1>2. ASSUME NEW k \in Keys, Hit(k) PROVE BlameStands'
  BY <1>1, <1>2 DEF Hit, Use, Throw
<1>3. ASSUME NEW k \in Keys, Miss(k) PROVE BlameStands'
  BY <1>3 DEF Miss, Running, Answers
<1>4. ASSUME NEW v \in Values, Succeed(v) PROVE BlameStands'
  BY <1>4 DEF Succeed, Running, Answers
<1>5. CASE Fail
  BY <1>1, <1>5 DEF Fail, Throw
<1>6. CASE Blow
  BY <1>6 DEF Blow, Throw, Answers
<1>7. ASSUME NEW s \in Sources, NEW a \in Answers, ReadHost(s, a) PROVE BlameStands'
  BY <1>7 DEF ReadHost, NoStaleBlame
<1>8. ASSUME NEW e \in Reasons \cup {Crash}, Raise(e) PROVE BlameStands'
  BY <1>8 DEF Raise, Throw
<1>9. CASE Tolerate \/ Client
  BY <1>9 DEF Tolerate, Client, BeginTracking, EndTracking, Handle, Throw, Running, Answers
<1>10. CASE UNCHANGED cacheVars
  BY <1>10 DEF cacheVars
<1>11. ASSUME NEW s \in Commands, NEW error \in SUBSET {CommandError}, RunCommand(s, error) PROVE BlameStands'
  BY <1>11 DEF RunCommand, NoStaleBlame
<1> QED
  BY <1>2, <1>3, <1>4, <1>5, <1>6, <1>7, <1>8, <1>9, <1>10, <1>11 DEF CacheNext, Gather

(* Unavailable evidence reaching a caller through the cache is always laid *)
(* at the door of a tracked, blemished collector with a reason to give     *)
(* (EvidenceCache!FailureIsAttributed).                                    *)
THEOREM AttributionHolds == CacheSpec => []FailureIsAttributed
<1>1. CacheInit => Attribution
  <2> SUFFICES ASSUME CacheInit PROVE Attribution
    OBVIOUS
  <2>1. Len(stack) = 0 /\ \A k \in Keys : cache[k] = Absent
    BY DEF CacheInit
  <2>2. \A c \in Collectors : limitation[c] = Absent
    BY DEF CacheInit
  <2> QED
    BY <2>1, <2>2, SentinelsDistinct DEF CacheInit, Attribution, NoStaleBlame, BuildersTracked,
       ReasonsCounted, ReasonsExplained, BlameStands, Answers
<1>2. CacheTypeOK /\ NoReentry /\ Attribution /\ [CacheNext]_cacheVars => Attribution'
  BY NoStaleBlameStep, BuildersTrackedStep, ReasonsStep, BlameStandsStep, Zenon DEF Attribution
<1>3. CacheTypeOK /\ Attribution => FailureIsAttributed
  <2> SUFFICES ASSUME CacheTypeOK, Attribution, raised \in Reasons, raisedBy # Absent
               PROVE  LET c == CollectorOf[raisedBy]
                      IN /\ tracking # Absent => c \in tracking
                         /\ CollectorStatus(c) # "SUCCESS"
                         /\ cache[raisedBy] = raised
                         /\ \E k \in Settled(c) : cache[k] = limitation[c]
    BY DEF FailureIsAttributed
  <2>1. raisedBy \in Keys /\ CollectorOf[raisedBy] \in Collectors
    BY WiringAssumption DEF CacheTypeOK
  <2>2. /\ cache[raisedBy] = raised
        /\ tracking # Absent => CollectorOf[raisedBy] \in tracking
    BY DEF Attribution, BlameStands
  <2>3. failures[CollectorOf[raisedBy]] > 0 /\ limitation[CollectorOf[raisedBy]] # Absent
    BY <2>1, <2>2 DEF Attribution, ReasonsCounted
  <2>4. \E k \in Settled(CollectorOf[raisedBy]) : cache[k] = limitation[CollectorOf[raisedBy]]
    BY <2>1, <2>3 DEF Attribution, ReasonsExplained
  <2>5. CollectorStatus(CollectorOf[raisedBy]) # "SUCCESS"
    BY <2>1, <2>3 DEF CollectorStatus, CacheTypeOK
  <2> QED
    BY <2>2, <2>4, <2>5
<1> QED
  BY <1>1, <1>2, <1>3, TypeCorrect, NoReentryHolds, PTL DEF CacheSpec
=============================================================================
