-------------------------- MODULE AssessmentProofs --------------------------
(* The benchmark selected is the right one, what is assessed of it fits the *)
(* kind of host, and the document adds up, for every host, catalog of       *)
(* benchmarks and command line.                                             *)
EXTENDS Assessment, FiniteSetTheorems, TLAPS

(* Of the levels from 1 to n, 1 is one. *)
LEMMA OneIsLevel == \A n \in Nat \ {0} : 1 \in 1 .. n /\ 1 <= n
OBVIOUS

(* The levels of a kind are of that kind, as records with every field named. *)
LEMMA LevelsOfKind ==
  \A levels, kind : \A p \in {[level |-> l, kind |-> kind] : l \in levels} : p.kind = kind
OBVIOUS
LEMMA OneOfKind ==
  \A levels, kind : 1 \in levels =>
    [level |-> 1, kind |-> kind] \in {[level |-> l, kind |-> kind] : l \in levels}
OBVIOUS

(* The profiles to assess, for a request without a kind of host, are those  *)
(* of the kind of host or of no kind, Level 1 among them.                    *)
LEMMA AllowedFits ==
  ASSUME NEW requested, requested.level \in Nat \ {0}, requested.kind = "",
         NEW type, NEW profiles, Uniform(profiles)
  PROVE  LET allowed1 == resolve_profile(requested, type, profiles).allowed
             kind == IF type = "Workstation" THEN "Workstation" ELSE "Server"
         IN  /\ \A p \in profiles : (p.level = 1 /\ p.kind \in {"", kind}) => p \in allowed1
             /\ \A p \in allowed1 : p.kind \in {"", kind}
<1> DEFINE kind == IF type = "Workstation" THEN "Workstation" ELSE "Server"
           allowed1 == resolve_profile(requested, type, profiles).allowed
<1>1. requested.level \in Nat \ {0} /\ requested.kind = ""
  OBVIOUS
<1>2. kind \in Kinds /\ kind # ""
  BY DEF Kinds
<1>3. CASE \E p \in profiles : p.kind \in Kinds
  <2>1. profiles \subseteq [level : Nat \ {0}, kind : Kinds]
    BY <1>3 DEF Uniform, Kinds
  <2>2. Named(requested, type).kind = kind
    BY <1>1 DEF Named
  <2>3. allowed1 = {[level |-> l, kind |-> Named(requested, type).kind] : l \in 1 .. requested.level}
    BY <1>3 DEF resolve_profile
  <2> HIDE DEF kind, allowed1
  <2>4. allowed1 = {[level |-> l, kind |-> kind] : l \in 1 .. requested.level}
    BY <2>2, <2>3, Zenon
  <2>5. \A p \in allowed1 : p.kind = kind
    BY <2>4, LevelsOfKind, Zenon
  <2>6. ASSUME NEW p \in profiles, p.level = 1, p.kind \in {"", kind}
        PROVE  p \in allowed1
    <3>1. p.kind = kind
      BY <2>1, <2>6 DEF Kinds
    <3>2. p = [level |-> 1, kind |-> kind]
      BY <2>1, <2>6, <3>1
    <3>3. 1 \in 1 .. requested.level
      BY <1>1, OneIsLevel, Zenon
    <3> QED
      BY <2>4, <3>2, <3>3, OneOfKind, Zenon
  <2> QED
    BY <2>5, <2>6 DEF kind, allowed1
<1>4. CASE ~ \E p \in profiles : p.kind \in Kinds
  <2>1. profiles \subseteq [level : Nat \ {0}, kind : {""}]
    BY <1>4 DEF Uniform
  <2>2. \/ allowed1 = {p \in profiles : p.level <= requested.level}
        \/ allowed1 = profiles
    BY <1>4 DEF resolve_profile
  <2> HIDE DEF kind, allowed1
  <2>3. \A p \in allowed1 : p \in profiles
    BY <2>2
  <2>4. ASSUME NEW p \in profiles, p.level = 1
        PROVE  p \in allowed1
    <3>1. 1 <= requested.level
      BY <1>1, OneIsLevel, Zenon
    <3> QED
      BY <2>2, <2>4, <3>1, Zenon
  <2> QED
    BY <2>1, <2>3, <2>4 DEF kind, allowed1
<1> QED
  BY <1>3, <1>4

------------------------------------------------------------------------------
(* What is settled at which stage: the platform after detection, a uniform  *)
(* benchmark after selection, its profiles before anything is judged; and   *)
(* what was judged so far respects them.                                    *)
SettledInv ==
  /\ host \in Hosts /\ options \in Options /\ catalog \in Catalogs
  /\ stage \in Stages
  /\ stage = "select" => info = detect_platform(host)
  /\ stage \in {"load", "confirm", "judge", "documented"} => Uniform(entry.profiles)
  /\ stage \in {"confirm", "judge", "documented"} =>
       /\ options.profile # Absent
       /\ allowed = resolve_profile(options.profile, info.type, entry.profiles).allowed
JudgedInv ==
  /\ results \in Seq(Statuses)
  /\ stage \in {"detect", "select", "load", "confirm"} => results = <<>>
  /\ stage \in {"judge", "documented"} =>
       \A j \in DOMAIN results : ~Selected(Items[j]) => results[j] = "NOT_APPLICABLE"
Inv == SettledInv /\ JudgedInv

LEMMA InitInv == Init => Inv
BY DEF Init, Inv, SettledInv, JudgedInv, Stages

(* A recommendation outside the selection is answered NOT_APPLICABLE, and   *)
(* no later step touches what was answered.                                 *)
LEMMA JudgeKeeps ==
  ASSUME Inv, Judge
  PROVE  JudgedInv'
<1>1. /\ stage = "judge" /\ stage' = stage
      /\ results \in Seq(Statuses) /\ Len(results) < Len(Items)
      /\ options' = options /\ entry' = entry /\ allowed' = allowed
  BY DEF Judge, Inv, JudgedInv
<1>2. PICK status : /\ status \in (IF ~Selected(Items[Len(results) + 1]) THEN {"NOT_APPLICABLE"}
                                   ELSE IF Items[Len(results) + 1].automated THEN Statuses ELSE {"NOT_ASSESSED"})
                    /\ results' = Append(results, status)
  BY DEF Judge
<1>3. status \in Statuses
  BY <1>2 DEF Statuses
<1>4. /\ results' \in Seq(Statuses)
      /\ DOMAIN results' = 1 .. Len(results) + 1
      /\ \A j \in 1 .. Len(results) : results'[j] = results[j]
      /\ results'[Len(results) + 1] = status
  BY <1>1, <1>2, <1>3
<1>5. Items' = Items
  BY <1>1 DEF Items
<1>6. \A item : Selected(item)' <=> Selected(item)
  BY <1>1 DEF Selected
<1>7. ASSUME NEW j \in DOMAIN results', ~Selected(Items[j])
      PROVE  results'[j] = "NOT_APPLICABLE"
  <2>1. CASE j \in 1 .. Len(results)
    BY <1>1, <1>4, <1>7, <2>1 DEF Inv, JudgedInv
  <2>2. CASE j = Len(results) + 1
    BY <1>2, <1>4, <1>7, <2>2
  <2> QED
    BY <1>4, <2>1, <2>2, <1>1
<1> QED
  BY <1>1, <1>4, <1>5, <1>7 DEF JudgedInv, Selected

LEMMA StepInv == Inv /\ [Next]_vars => Inv'
<1> SUFFICES ASSUME Inv, [Next]_vars PROVE Inv'
  OBVIOUS
<1>1. CASE Detect
  BY <1>1 DEF Detect, Inv, SettledInv, JudgedInv, Stages
<1>2. CASE Select
  <2> DEFINE chosen == select_benchmark(catalog, info, options.path)
  <2>1. /\ stage = "select" /\ info = detect_platform(host) /\ results = <<>>
        /\ host \in Hosts /\ options \in Options /\ catalog \in Catalogs
        /\ host' = host /\ options' = options /\ catalog' = catalog /\ results' = results
    BY <1>2 DEF Select, Refuse, Inv, SettledInv, JudgedInv
  <2>2. chosen = Absent \/ Uniform(chosen.profiles)
    BY <2>1, ProfilesAssumption
  <2>3. \/ stage' = "refused"
        \/ chosen # Absent /\ entry' = chosen /\ stage' = "load"
    BY <1>2 DEF Select, Refuse
  <2>4. stage' = "load" => Uniform(entry'.profiles)
    BY <2>2, <2>3
  <2> QED
    BY <2>1, <2>3, <2>4 DEF Inv, SettledInv, JudgedInv, Stages
<1>3. CASE Load
  BY <1>3 DEF Load, Refuse, Inv, SettledInv, JudgedInv, Stages
<1>4. CASE Confirm
  BY <1>4 DEF Confirm, Inv, SettledInv, JudgedInv, Stages
<1>5. CASE Judge
  <2>1. SettledInv'
    BY <1>5 DEF Judge, Inv, SettledInv
  <2> QED
    BY <1>5, <2>1, JudgeKeeps DEF Inv
<1>6. CASE Document
  BY <1>6 DEF Document, Inv, SettledInv, JudgedInv, Stages, Items, Selected
<1>7. CASE UNCHANGED vars
  BY <1>7 DEF vars, Inv, SettledInv, JudgedInv, Items, Selected
<1> QED
  BY <1>1, <1>2, <1>3, <1>4, <1>5, <1>6, <1>7 DEF Next

(* Unless a profile is asked for by its full name, the profiles assessed    *)
(* are those of the kind of host that was detected, its Level 1 among them, *)
(* and a recommendation for the other kind only is NOT_APPLICABLE.          *)
THEOREM ProfileFitsHostHolds == Spec => []ProfileFitsHost
<1>1. Inv => ProfileFitsHost
  <2> SUFFICES ASSUME Inv, stage \in {"judge", "documented"}, options.profile.kind = ""
               PROVE  /\ \A p \in entry.profiles : (p.level = 1 /\ p.kind \in {"", HostKind}) => p \in allowed
                      /\ \A p \in allowed : p.kind \in {"", HostKind}
                      /\ \A j \in DOMAIN results :
                           (\A p \in Items[j].profiles : p.kind \notin {"", HostKind}) => results[j] = "NOT_APPLICABLE"
    BY DEF ProfileFitsHost
  <2>1. /\ allowed = resolve_profile(options.profile, info.type, entry.profiles).allowed
        /\ Uniform(entry.profiles) /\ options \in Options /\ options.profile # Absent
    BY DEF Inv, SettledInv
  <2>2. options.profile \in [level : Nat \ {0}, kind : {""}]
    BY <2>1, ProfilesAssumption DEF Profiles
  <2>3. /\ \A p \in entry.profiles : (p.level = 1 /\ p.kind \in {"", HostKind}) => p \in allowed
        /\ \A p \in allowed : p.kind \in {"", HostKind}
    BY <2>1, <2>2, AllowedFits DEF HostKind
  <2>4. ASSUME NEW j \in DOMAIN results, \A p \in Items[j].profiles : p.kind \notin {"", HostKind}
        PROVE  results[j] = "NOT_APPLICABLE"
    <3>1. ~Selected(Items[j])
      BY <2>3, <2>4 DEF Selected
    <3> QED
      BY <3>1 DEF Inv, JudgedInv
  <2> QED
    BY <2>3, <2>4
<1> QED
  BY <1>1, InitInv, StepInv, PTL DEF Spec

------------------------------------------------------------------------------
(* Extremes: a finite set has an element that no other one beats.           *)

(* Below a strict order, what is below an element is below all above it, so  *)
(* that the element with the least below it has nothing below it.           *)
LEMMA Unbeaten ==
  ASSUME NEW S, IsFiniteSet(S), S # {}, NEW R,
         \A x \in S : <<x, x>> \notin R,
         \A x, y, z \in S : <<x, y>> \in R /\ <<y, z>> \in R => <<x, z>> \in R
  PROVE  \E x \in S : \A y \in S : <<y, x>> \notin R
<1> DEFINE below(x) == {y \in S : <<y, x>> \in R}
           Belows == {below(x) : x \in S}
<1>1. IsWellFoundedOn(StrictSubsetOrdering(S), SUBSET S)
  BY FS_StrictSubsetOrderingWellFounded, FS_FiniteSubsetsOfFinite
<1>2. Belows \subseteq SUBSET S /\ Belows # {}
  <2>1. PICK some \in S : TRUE
    OBVIOUS
  <2>2. below(some) \in Belows
    OBVIOUS
  <2>3. \A y \in S : below(y) \in SUBSET S
    OBVIOUS
  <2>4. \A c \in Belows : \E x \in S : c = below(x)
    OBVIOUS
  <2> HIDE DEF Belows, below
  <2> QED
    BY <2>2, <2>3, <2>4
<1>3. PICK b \in Belows : \A c \in Belows : <<c, b>> \notin StrictSubsetOrdering(S)
  BY <1>1, <1>2, WFMin
<1>4. PICK x \in S : b = below(x)
  OBVIOUS
<1>5. ASSUME NEW y \in S, <<y, x>> \in R
      PROVE  FALSE
  <2>1. below(y) \subseteq below(x)
    BY <1>5
  <2>2. y \in below(x) /\ y \notin below(y)
    BY <1>5
  <2>3. <<below(y), below(x)>> \in StrictSubsetOrdering(S)
    BY <2>1, <2>2 DEF StrictSubsetOrdering
  <2> QED
    BY <1>3, <1>4, <2>3
<1> QED
  BY <1>5

LEMMA LeastExists ==
  ASSUME NEW S, IsFiniteSet(S), S # {}, S \subseteq Int
  PROVE  Least(S) \in S /\ \A y \in S : Least(S) <= y
<1> DEFINE R == {p \in S \X S : p[1] < p[2]}
<1>1. \A x, y \in S : <<x, y>> \in R <=> x < y
  OBVIOUS
<1> HIDE DEF R
<1>2. \E x \in S : \A y \in S : <<y, x>> \notin R
  <2>1. \A x \in S : <<x, x>> \notin R
    BY <1>1
  <2>2. \A x, y, z \in S : <<x, y>> \in R /\ <<y, z>> \in R => <<x, z>> \in R
    BY <1>1
  <2> QED
    BY <2>1, <2>2, Unbeaten
<1>3. \E x \in S : \A y \in S : x <= y
  <2>1. PICK x \in S : \A y \in S : ~(y < x)
    BY <1>1, <1>2
  <2>2. \A y \in S : x \in Int /\ y \in Int
    OBVIOUS
  <2>3. \A y \in S : x <= y
    BY <2>1, <2>2
  <2> QED
    BY <2>3
<1> QED
  BY <1>3 DEF Least

LEMMA NewestExists ==
  ASSUME NEW S, IsFiniteSet(S), S # {}, S \subseteq Int
  PROVE  Newest(S) \in S
<1> DEFINE R == {p \in S \X S : p[1] > p[2]}
<1>1. \A x, y \in S : <<x, y>> \in R <=> x > y
  OBVIOUS
<1> HIDE DEF R
<1>2. \E x \in S : \A y \in S : <<y, x>> \notin R
  <2>1. \A x \in S : <<x, x>> \notin R
    BY <1>1
  <2>2. \A x, y, z \in S : <<x, y>> \in R /\ <<y, z>> \in R => <<x, z>> \in R
    BY <1>1
  <2> QED
    BY <2>1, <2>2, Unbeaten
<1>3. \E x \in S : \A y \in S : x >= y
  <2>1. PICK x \in S : \A y \in S : ~(y > x)
    BY <1>1, <1>2
  <2>2. \A y \in S : x \in Int /\ y \in Int
    OBVIOUS
  <2>3. \A y \in S : x >= y
    BY <2>1, <2>2
  <2> QED
    BY <2>3
<1> QED
  BY <1>3 DEF Newest

(* Python's order of tuples is a strict order. *)
LEMMA TupleIrreflexive == \A v \in Seq(Int) : ~TupleLess(v, v)
BY DEF TupleLess

LEMMA TupleTransitive ==
  ASSUME NEW u \in Seq(Int), NEW v \in Seq(Int), NEW w \in Seq(Int), TupleLess(u, v), TupleLess(v, w)
  PROVE  TupleLess(u, w)
<1>0. /\ Len(u) \in Nat /\ \A i \in 1 .. Len(u) : u[i] \in Int
      /\ Len(v) \in Nat /\ \A i \in 1 .. Len(v) : v[i] \in Int
      /\ Len(w) \in Nat /\ \A i \in 1 .. Len(w) : w[i] \in Int
  OBVIOUS
<1>1. ASSUME NEW j \in 1 .. Len(u), j <= Len(v), u[j] < v[j], \A i \in 1 .. j - 1 : u[i] = v[i],
             NEW k \in 1 .. Len(v), k <= Len(w), v[k] < w[k], \A i \in 1 .. k - 1 : v[i] = w[i]
      PROVE  TupleLess(u, w)
  <2>1. CASE j < k
    <3>1. j <= Len(w)
      BY <1>0, <1>1, <2>1
    <3>2. u[j] < w[j]
      BY <1>0, <1>1, <2>1
    <3>3. \A i \in 1 .. j - 1 : u[i] = w[i]
      BY <1>0, <1>1, <2>1
    <3> QED
      BY <3>1, <3>2, <3>3 DEF TupleLess
  <2>2. CASE j = k
    <3>1. j <= Len(w)
      BY <1>0, <1>1, <2>2
    <3>2. u[j] < w[j]
      BY <1>0, <1>1, <2>2
    <3>3. \A i \in 1 .. j - 1 : u[i] = w[i]
      BY <1>0, <1>1, <2>2
    <3> QED
      BY <3>1, <3>2, <3>3 DEF TupleLess
  <2>3. CASE j > k
    <3>1. k \in 1 .. Len(u) /\ k \in 1 .. j - 1
      BY <1>0, <1>1, <2>3
    <3>2. u[k] < w[k]
      BY <1>1, <3>1
    <3>3. \A i \in 1 .. k - 1 : u[i] = w[i]
      BY <1>0, <1>1, <2>3
    <3> QED
      BY <1>1, <3>1, <3>2, <3>3 DEF TupleLess
  <2> QED
    BY <1>1, <2>1, <2>2, <2>3
<1>2. ASSUME NEW j \in 1 .. Len(u), j <= Len(v), u[j] < v[j], \A i \in 1 .. j - 1 : u[i] = v[i],
             Len(v) < Len(w), \A i \in 1 .. Len(v) : v[i] = w[i]
      PROVE  TupleLess(u, w)
  <2>1. j <= Len(w) /\ u[j] < w[j] /\ \A i \in 1 .. j - 1 : u[i] = w[i]
    BY <1>0, <1>2
  <2> QED
    BY <2>1 DEF TupleLess
<1>3. ASSUME Len(u) < Len(v), \A i \in 1 .. Len(u) : u[i] = v[i],
             NEW k \in 1 .. Len(v), k <= Len(w), v[k] < w[k], \A i \in 1 .. k - 1 : v[i] = w[i]
      PROVE  TupleLess(u, w)
  <2>1. CASE k <= Len(u)
    <3>1. k \in 1 .. Len(u) /\ u[k] < w[k] /\ \A i \in 1 .. k - 1 : u[i] = w[i]
      BY <1>0, <1>3, <2>1
    <3> QED
      BY <1>3, <3>1 DEF TupleLess
  <2>2. CASE k > Len(u)
    <3>1. Len(u) < Len(w) /\ \A i \in 1 .. Len(u) : u[i] = w[i]
      BY <1>0, <1>3, <2>2
    <3> QED
      BY <3>1 DEF TupleLess
  <2> QED
    BY <1>0, <2>1, <2>2
<1>4. ASSUME Len(u) < Len(v), \A i \in 1 .. Len(u) : u[i] = v[i],
             Len(v) < Len(w), \A i \in 1 .. Len(v) : v[i] = w[i]
      PROVE  TupleLess(u, w)
  <2>1. Len(u) < Len(w) /\ \A i \in 1 .. Len(u) : u[i] = w[i]
    BY <1>0, <1>4
  <2> QED
    BY <2>1 DEF TupleLess
<1> QED
  BY <1>1, <1>2, <1>3, <1>4 DEF TupleLess

(* Python's min over places with tuples as keys: a place among them, whose   *)
(* key no other key is less than.                                           *)
LEMMA FirstOfLeast ==
  ASSUME NEW places, IsFiniteSet(places), places # {}, places \subseteq Nat,
         NEW key, \A j \in places : key[j] \in Seq(Int)
  PROVE  LET best == {j \in places : \A k \in places : ~TupleLess(key[k], key[j])}
         IN  Least(best) \in best
<1> DEFINE best == {j \in places : \A k \in places : ~TupleLess(key[k], key[j])}
           R == {p \in places \X places : TupleLess(key[p[1]], key[p[2]])}
<1>1. \A x, y \in places : <<x, y>> \in R <=> TupleLess(key[x], key[y])
  OBVIOUS
<1> HIDE DEF R
<1>2. \A x \in places : <<x, x>> \notin R
  BY <1>1, TupleIrreflexive
<1>3. \A x, y, z \in places : <<x, y>> \in R /\ <<y, z>> \in R => <<x, z>> \in R
  BY <1>1, TupleTransitive
<1>4. \E x \in places : \A y \in places : <<y, x>> \notin R
  BY <1>2, <1>3, Unbeaten
<1>5. best # {}
  BY <1>1, <1>4
<1>6. IsFiniteSet(best)
  BY FS_Subset
<1>7. best \subseteq Int
  <2>1. best \subseteq places
    OBVIOUS
  <2> HIDE DEF best
  <2> QED
    BY <2>1
<1> HIDE DEF best
<1>8. Least(best) \in best
  BY <1>5, <1>6, <1>7, LeastExists
<1> QED
  BY <1>8 DEF best

------------------------------------------------------------------------------
(* The selection *)
LEMMA MajorsAreNumbers ==
  ASSUME NEW e, Definition(e)
  PROVE  IsFiniteSet(Majors(e)) /\ Majors(e) \subseteq Int
<1> DEFINE f == [v \in e.version_ids |-> v[1]]
<1>1. IsFiniteSet(e.version_ids) /\ \A v \in e.version_ids : v \in Seq(Nat) /\ v # <<>>
  BY DEF Definition
<1>2. \A v \in e.version_ids : v[1] \in Nat
  BY <1>1
<1>3. f \in Surjection(e.version_ids, Majors(e))
  BY DEF Surjection, Majors
<1> QED
  BY <1>1, <1>2, <1>3, FS_Surjection DEF Majors

LEMMA DistanceIsLeast ==
  ASSUME NEW e, Definition(e), NEW version \in Seq(Nat), version # <<>>, Majors(e) # {}
  PROVE  LET apart == {Abs(m - version[1]) : m \in Majors(e)} IN
         /\ IsFiniteSet(apart) /\ apart \subseteq Int
         /\ distance(e, version) = Least(apart)
         /\ distance(e, version) \in apart
         /\ \A d \in apart : distance(e, version) <= d
<1> DEFINE apart == {Abs(m - version[1]) : m \in Majors(e)}
           f == [m \in Majors(e) |-> Abs(m - version[1])]
<1>1. IsFiniteSet(Majors(e)) /\ Majors(e) \subseteq Int /\ version[1] \in Int
  BY MajorsAreNumbers
<1>2. \A m \in Majors(e) : Abs(m - version[1]) \in Int
  BY <1>1 DEF Abs
<1>3. f \in Surjection(Majors(e), apart)
  BY DEF Surjection
<1>4. IsFiniteSet(apart)
  BY <1>1, <1>3, FS_Surjection
<1>5. apart \subseteq Int
  BY <1>2
<1>6. apart # {}
  OBVIOUS
<1>7. distance(e, version) = Least(apart)
  BY DEF distance
<1> HIDE DEF apart
<1>8. Least(apart) \in apart /\ \A d \in apart : Least(apart) <= d
  BY <1>4, <1>5, <1>6, LeastExists
<1>9. /\ IsFiniteSet(apart) /\ apart \subseteq Int
      /\ distance(e, version) = Least(apart)
      /\ distance(e, version) \in apart
      /\ \A d \in apart : distance(e, version) <= d
  BY <1>4, <1>5, <1>7, <1>8
<1> QED
  BY <1>9 DEF apart

LEMMA DistanceIsNumber ==
  ASSUME NEW e, Definition(e), NEW version \in Seq(Nat)
  PROVE  distance(e, version) \in Int
<1>1. CASE version # <<>> /\ Majors(e) # {}
  BY <1>1, DistanceIsLeast
<1>2. CASE version = <<>> \/ Majors(e) = {}
  BY <1>2 DEF distance
<1> QED
  BY <1>1, <1>2

LEMMA ClosenessIsTuple ==
  ASSUME NEW e, Definition(e), NEW version \in Seq(Nat)
  PROVE  /\ closeness(e, version) \in Seq(Int)
         /\ Len(closeness(e, version)) >= 1
         /\ closeness(e, version)[1] = distance(e, version)
<1> DEFINE newest == IF Majors(e) = {} THEN 0 ELSE -Newest(Majors(e))
           back == [j \in DOMAIN e.version |-> -e.version[j]]
<1>1. newest \in Int
  <2>1. CASE Majors(e) = {}
    BY <2>1
  <2>2. CASE Majors(e) # {}
    <3>1. Newest(Majors(e)) \in Int
      BY <2>2, MajorsAreNumbers, NewestExists
    <3> QED
      BY <2>2, <3>1
  <2> QED
    BY <2>1, <2>2
<1>2. back \in Seq(Int)
  <2>1. e.version \in Seq(Nat)
    BY DEF Definition
  <2>2. Len(e.version) \in Nat /\ DOMAIN e.version = 1 .. Len(e.version)
    BY <2>1
  <2>3. \A j \in DOMAIN e.version : -e.version[j] \in Int
    BY <2>1, <2>2
  <2>4. back \in [1 .. Len(e.version) -> Int]
    BY <2>2, <2>3
  <2> QED
    BY <2>2, <2>4
<1>3. closeness(e, version) = <<distance(e, version), newest>> \o back
  BY DEF closeness
<1> HIDE DEF newest, back
<1>4. <<distance(e, version), newest>> \in Seq(Int)
  BY <1>1, DistanceIsNumber
<1> QED
  BY <1>2, <1>3, <1>4

(* The first of a tuple counts first. *)
LEMMA NotLessFirst ==
  ASSUME NEW v \in Seq(Int), NEW w \in Seq(Int), Len(v) >= 1, Len(w) >= 1, ~TupleLess(v, w)
  PROVE  w[1] <= v[1]
<1>1. 1 \in 1 .. Len(v) /\ 1 <= Len(w) /\ \A i \in 1 .. 1 - 1 : v[i] = w[i]
  OBVIOUS
<1>2. v[1] \in Int /\ w[1] \in Int
  OBVIOUS
<1>3. ~(v[1] < w[1])
  BY <1>1 DEF TupleLess
<1> QED
  BY <1>2, <1>3

(* A version that is newer, as a reader has it, is the greater tuple. *)
LEMMA NewerIsGreater ==
  ASSUME NEW v \in Seq(Nat), NEW w \in Seq(Nat), Newer(v, w)
  PROVE  TupleLess(w, v)
<1>1. PICK j \in DOMAIN v \cup DOMAIN w :
        Part(v, j) > Part(w, j) /\ \A i \in 1 .. j - 1 : Part(v, i) = Part(w, i)
  BY DEF Newer
<1>2. /\ Len(v) \in Nat /\ DOMAIN v = 1 .. Len(v) /\ \A i \in 1 .. Len(v) : v[i] \in Nat
      /\ Len(w) \in Nat /\ DOMAIN w = 1 .. Len(w) /\ \A i \in 1 .. Len(w) : w[i] \in Nat
  OBVIOUS
<1>3. j \in 1 .. Len(v)
  <2>1. CASE j \notin 1 .. Len(v)
    <3>1. Part(v, j) = 0 /\ Part(w, j) = w[j] /\ w[j] \in Nat
      BY <1>2, <2>1 DEF Part
    <3> QED
      BY <1>1, <3>1
  <2> QED
    BY <2>1
<1>4. \A i \in 1 .. j - 1 : i \in 1 .. Len(v) /\ Part(v, i) = v[i]
  BY <1>2, <1>3 DEF Part
<1>5. CASE j \in 1 .. Len(w)
  <2>1. \A i \in 1 .. j - 1 : Part(w, i) = w[i]
    BY <1>2, <1>5 DEF Part
  <2>2. w[j] < v[j] /\ j <= Len(v) /\ \A i \in 1 .. j - 1 : w[i] = v[i]
    BY <1>1, <1>2, <1>3, <1>4, <1>5, <2>1 DEF Part
  <2> QED
    BY <1>5, <2>2 DEF TupleLess
<1>6. CASE j \notin 1 .. Len(w)
  <2>1. Len(w) < j
    BY <1>2, <1>3, <1>6
  <2>2. \A i \in 1 .. Len(w) : i \in 1 .. j - 1 /\ Part(w, i) = w[i]
    BY <1>2, <1>3, <2>1 DEF Part
  <2>3. Len(w) < Len(v) /\ \A i \in 1 .. Len(w) : w[i] = v[i]
    BY <1>1, <1>2, <1>3, <1>4, <2>1, <2>2
  <2> QED
    BY <2>3 DEF TupleLess
<1> QED
  BY <1>5, <1>6

LEMMA NumbersAreIntegers == \A v \in Seq(Nat) : v \in Seq(Int)
OBVIOUS

(* The catalogs are finite lists of definitions, the version of a host is   *)
(* known in numbers or not at all.                                          *)
LEMMA CatalogFacts ==
  ASSUME NEW c \in Catalogs
  PROVE  /\ IsFiniteSet(DOMAIN c) /\ DOMAIN c \subseteq Nat
         /\ \A j \in DOMAIN c : c[j] \in ToSet(c) /\ Definition(c[j])
         /\ \A e \in ToSet(c) : \E j \in DOMAIN c : e = c[j]
<1>1. c \in Seq({e \in ToSet(c) : Definition(e)})
  BY SelectionAssumption
<1>2. Len(c) \in Nat /\ DOMAIN c = 1 .. Len(c)
  BY <1>1
<1>3. IsFiniteSet(1 .. Len(c))
  BY <1>2, FS_Interval
<1>4. \A j \in DOMAIN c : c[j] \in {e \in ToSet(c) : Definition(e)}
  BY <1>1, <1>2
<1>5. \A e \in ToSet(c) : \E j \in DOMAIN c : e = c[j]
  BY DEF ToSet
<1> QED
  BY <1>2, <1>3, <1>4, <1>5

LEMMA HostFacts ==
  ASSUME NEW h \in Hosts
  PROVE  LET i == detect_platform(h) IN
         /\ i.version \in Seq(Nat)
         /\ "esxi" \in i.family <=> i.kind = "esxi"
         /\ i.kind \in {"esxi", "linux", "unknown"}
         /\ i.kind = "esxi" => i.family = {"esxi"}
         /\ i.kind # "unknown" => i.os_id \in i.family
         /\ i.kind = "unknown" => i.os_id = "" /\ i.family = {}
<1> DEFINE i == detect_platform(h)
<1>1. i.version \in Seq(Nat) /\ ("esxi" \in i.family <=> i.kind = "esxi")
  BY SelectionAssumption
<1>2. CASE is_esxi(h)
  BY <1>1, <1>2 DEF detect_platform
<1>3. CASE ~is_esxi(h) /\ h.os_release = Absent
  BY <1>1, <1>3 DEF detect_platform
<1>4. CASE ~is_esxi(h) /\ h.os_release # Absent
  BY <1>1, <1>4 DEF detect_platform
<1> QED
  BY <1>2, <1>3, <1>4

(* What select_benchmark answers without a path: of the exact definitions   *)
(* none has a greater version; without one, none of the family is closer.   *)
LEMMA ChoiceIsBest ==
  ASSUME NEW c \in Catalogs, NEW h \in Hosts,
         LET i == detect_platform(h) IN select_benchmark(c, i, Absent) # Absent
  PROVE  LET i == detect_platform(h)
             e == select_benchmark(c, i, Absent)
         IN  \/ \E j \in exact(c, i) :
                  /\ e = c[j]
                  /\ \A k \in exact(c, i) : ~TupleLess(c[j].version, c[k].version)
             \/ /\ exact(c, i) = {}
                /\ \E j \in family(c, i) :
                     /\ e = c[j]
                     /\ \A k \in family(c, i) : ~TupleLess(closeness(c[k], i.version), closeness(c[j], i.version))
<1> DEFINE i == detect_platform(h)
           e == select_benchmark(c, i, Absent)
<1>1. i.version \in Seq(Nat)
  BY HostFacts
<1>2. \A j \in DOMAIN c : Definition(c[j])
  BY CatalogFacts
<1>3. CASE exact(c, i) # {}
  <2> DEFINE places == exact(c, i)
             best == {j \in places : \A k \in places : ~TupleLess(c[j].version, c[k].version)}
             R == {p \in places \X places : TupleLess(c[p[2]].version, c[p[1]].version)}
  <2>1. places \subseteq DOMAIN c
    BY DEF exact
  <2>2. IsFiniteSet(places) /\ places \subseteq Int
    BY <2>1, CatalogFacts, FS_Subset
  <2>3. \A j \in places : c[j].version \in Seq(Int)
    BY <1>2, <2>1, NumbersAreIntegers DEF Definition
  <2>4. e = c[Least(best)]
    BY <1>3 DEF select_benchmark, FirstBest
  <2>5. \A x, y \in places : <<x, y>> \in R <=> TupleLess(c[y].version, c[x].version)
    OBVIOUS
  <2> HIDE DEF R, e
  <2>6. \E x \in places : \A y \in places : <<y, x>> \notin R
    <3>1. \A x \in places : <<x, x>> \notin R
      BY <2>3, <2>5, TupleIrreflexive
    <3>2. \A x, y, z \in places : <<x, y>> \in R /\ <<y, z>> \in R => <<x, z>> \in R
      BY <2>3, <2>5, TupleTransitive
    <3> HIDE DEF places
    <3> QED
      BY <1>3, <2>2, <3>1, <3>2, Unbeaten DEF places
  <2>7. best # {}
    BY <2>5, <2>6
  <2>8. IsFiniteSet(best) /\ best \subseteq Int
    BY <2>2, FS_Subset
  <2>9. Least(best) \in best
    <3> HIDE DEF best
    <3> QED
      BY <2>7, <2>8, LeastExists
  <2>10. \E j \in exact(c, i) : e = c[j] /\ \A k \in exact(c, i) : ~TupleLess(c[j].version, c[k].version)
    BY <2>4, <2>9
  <2> QED
    BY <2>10 DEF e
<1>4. CASE exact(c, i) = {}
  <2> DEFINE places == family(c, i)
             key == [j \in places |-> closeness(c[j], i.version)]
             best == {j \in places : \A k \in places : ~TupleLess(closeness(c[k], i.version), closeness(c[j], i.version))}
             bestByKey == {j \in places : \A k \in places : ~TupleLess(key[k], key[j])}
  <2>1. places \subseteq DOMAIN c
    BY DEF family
  <2>2. IsFiniteSet(places) /\ places \subseteq Nat
    BY <2>1, CatalogFacts, FS_Subset
  <2>3. \A j \in places : key[j] \in Seq(Int)
    BY <1>1, <1>2, <2>1, ClosenessIsTuple
  <2>4. places # {} /\ e = c[Least(best)]
    BY <1>4 DEF select_benchmark, FirstBest
  <2>5. bestByKey = best
    OBVIOUS
  <2> HIDE DEF key, e, places
  <2>6. Least(bestByKey) \in bestByKey
    BY <2>2, <2>3, <2>4, FirstOfLeast
  <2>7. Least(best) \in best
    BY <2>5, <2>6
  <2>8. \E j \in places :
          e = c[j] /\ \A k \in places : ~TupleLess(closeness(c[k], i.version), closeness(c[j], i.version))
    BY <2>4, <2>7
  <2> QED
    BY <1>4, <2>8 DEF e, places
<1> QED
  BY <1>3, <1>4

(* Distance caps what is unknown at 99, which keeps the order. *)
LEMMA CappedDistance ==
  ASSUME NEW d, Definition(d), NEW e, Definition(e), info.version \in Seq(Nat),
         distance(d, info.version) <= distance(e, info.version)
  PROVE  Distance(d) <= Distance(e)
<1> DEFINE v == info.version
           apart(x) == {Abs(m - v[1]) : m \in Majors(x)}
           Capped(x) == IF 99 < distance(x, v) THEN 99 ELSE distance(x, v)
<1>1. CASE v = <<>>
  BY <1>1 DEF Distance
<1>2. CASE v # <<>>
  <2>1. ASSUME NEW x, Definition(x)
        PROVE  Distance(x) = Capped(x)
    <3>1. Distance(x) = Least(apart(x) \cup {99})
      BY <1>2 DEF Distance
    <3>2. CASE Majors(x) = {}
      <4>1. distance(x, v) = 99
        BY <1>2, <3>2 DEF distance
      <4>2. apart(x) \cup {99} = {99}
        BY <3>2
      <4>3. IsFiniteSet({99}) /\ {99} # {} /\ {99} \subseteq Int
        <5>1. IsFiniteSet({99})
          BY FS_Singleton
        <5>2. {99} # {} /\ {99} \subseteq Int
          OBVIOUS
        <5> QED
          BY <5>1, <5>2
      <4>4. Least({99}) \in {99}
        BY <4>3, LeastExists
      <4> QED
        BY <3>1, <4>1, <4>2, <4>4
    <3>3. CASE Majors(x) # {}
      <4>1. /\ IsFiniteSet(apart(x)) /\ apart(x) \subseteq Int
            /\ distance(x, v) \in apart(x)
            /\ \A y \in apart(x) : distance(x, v) <= y
        BY <1>2, <2>1, <3>3, DistanceIsLeast
      <4> DEFINE all == apart(x) \cup {99}
      <4> HIDE DEF apart
      <4>2. IsFiniteSet(all)
        BY <4>1, FS_AddElement
      <4>3. all \subseteq Int /\ all # {}
        BY <4>1
      <4>4. Least(all) \in all /\ \A y \in all : Least(all) <= y
        <5> HIDE DEF all
        <5> QED
          BY <4>2, <4>3, LeastExists
      <4>5. Least(all) <= 99 /\ Least(all) <= distance(x, v) /\ (Least(all) = 99 \/ distance(x, v) <= Least(all))
        BY <4>1, <4>4
      <4>6. distance(x, v) \in Int /\ Least(all) \in Int
        BY <4>1, <4>3, <4>4
      <4> QED
        BY <3>1, <4>5, <4>6
    <3> QED
      BY <3>2, <3>3
  <2>2. Distance(d) = Capped(d) /\ Distance(e) = Capped(e)
    BY <2>1
  <2>3. distance(d, v) \in Int /\ distance(e, v) \in Int
    BY DistanceIsNumber
  <2> QED
    BY <2>2, <2>3
<1> QED
  BY <1>1, <1>2

(* What was selected stays selected. *)
SelectionInv ==
  /\ host \in Hosts /\ catalog \in Catalogs
  /\ stage \in {"detect", "select"} => entry = Absent
  /\ stage = "select" => info = detect_platform(host)
  /\ entry # Absent =>
       /\ info = detect_platform(host)
       /\ entry = select_benchmark(catalog, info, options.path)
       /\ warned <=> ~compatible(entry, info.os_id, info.version)

LEMMA SelectionIsKept == SelectionInv /\ [Next]_vars => SelectionInv'
<1> SUFFICES ASSUME SelectionInv, [Next]_vars PROVE SelectionInv'
  OBVIOUS
<1>1. CASE Detect
  BY <1>1 DEF Detect, SelectionInv
<1>2. CASE Select
  <2> DEFINE chosen == select_benchmark(catalog, info, options.path)
  <2>1. stage = "select" /\ info = detect_platform(host) /\ entry = Absent
    BY <1>2 DEF Select, SelectionInv
  <2>2. UNCHANGED <<host, options, catalog, info>>
    BY <1>2 DEF Select, Refuse
  <2>3. \/ stage' = "refused" /\ entry' = entry
        \/ stage' = "load" /\ entry' = chosen /\ warned' = ~compatible(chosen, info.os_id, info.version)
    BY <1>2 DEF Select, Refuse
  <2> QED
    BY <2>1, <2>2, <2>3 DEF SelectionInv
<1>3. CASE Load
  <2>1. stage' \in {"refused", "listed", "confirm"} /\ UNCHANGED <<host, options, catalog, info, entry, warned>>
    BY <1>3 DEF Load, Refuse
  <2> QED
    BY <2>1 DEF SelectionInv
<1>4. CASE Confirm
  <2>1. stage' \in {"judge", "refused", "cancelled"} /\ UNCHANGED <<host, options, catalog, info, entry, warned>>
    BY <1>4 DEF Confirm
  <2> QED
    BY <2>1 DEF SelectionInv
<1>5. CASE Judge
  BY <1>5 DEF Judge, SelectionInv
<1>6. CASE Document
  BY <1>6 DEF Document, SelectionInv
<1>7. CASE UNCHANGED vars
  BY <1>7 DEF vars, SelectionInv
<1> QED
  BY <1>1, <1>2, <1>3, <1>4, <1>5, <1>6, <1>7 DEF Next

(* The benchmark the tool picks by itself covers the host, in its newest    *)
(* version, when one that is installed does; when none does, the mismatch   *)
(* is recorded and the one picked is of the family of the host, if there is *)
(* one, and no farther from the host than the others.                       *)
THEOREM RightBenchmarkHolds == Spec => []RightBenchmark
<1>1. Init => SelectionInv
  BY DEF Init, SelectionInv
<1>2. SelectionInv => RightBenchmark
  <2> DEFINE fits == {e \in ToSet(catalog) : compatible(e, info.os_id, info.version)}
             kin(e) == e.os_id \in info.family
             others == {e \in ToSet(catalog) : (kin(e) <=> kin(entry)) /\ (e.os_id = "esxi" <=> info.kind = "esxi")}
  <2> SUFFICES ASSUME SelectionInv, entry # Absent, options.path = Absent
               PROVE  /\ entry \in ToSet(catalog)
                      /\ warned <=> fits = {}
                      /\ ~warned => entry \in fits /\ \A e \in fits : ~Newer(e.version, entry.version)
                      /\ entry.os_id = "esxi" <=> info.kind = "esxi"
                      /\ (\E e \in ToSet(catalog) : kin(e)) => kin(entry)
                      /\ warned => \A e \in others : Distance(entry) <= Distance(e)
    BY DEF RightBenchmark, Chosen
  <2>1. /\ host \in Hosts /\ catalog \in Catalogs /\ info = detect_platform(host)
        /\ entry = select_benchmark(catalog, info, Absent)
        /\ warned <=> ~compatible(entry, info.os_id, info.version)
    BY DEF SelectionInv
  <2>2. /\ \A j \in DOMAIN catalog : catalog[j] \in ToSet(catalog) /\ Definition(catalog[j])
        /\ \A e \in ToSet(catalog) : \E j \in DOMAIN catalog : e = catalog[j]
    BY <2>1, CatalogFacts
  <2>3. /\ info.version \in Seq(Nat)
        /\ "esxi" \in info.family <=> info.kind = "esxi"
        /\ info.kind \in {"esxi", "linux", "unknown"}
        /\ info.kind = "esxi" => info.family = {"esxi"}
        /\ info.kind # "unknown" => info.os_id \in info.family
        /\ info.kind = "unknown" => info.os_id = "" /\ info.family = {}
    BY <2>1, HostFacts
  <2>4. \A e \in ToSet(catalog) : Definition(e) /\ e.os_id # "" /\ e.version \in Seq(Nat)
    BY <2>2 DEF Definition
  <2>5. \A e \in fits : \E j \in exact(catalog, info) : e = catalog[j]
    BY <2>2 DEF exact
  <2>6. \A j \in exact(catalog, info) : catalog[j] \in fits
    BY <2>2 DEF exact
  <2>7. CASE exact(catalog, info) # {}
    <3>1. PICK j \in exact(catalog, info) :
            entry = catalog[j] /\ \A k \in exact(catalog, info) : ~TupleLess(catalog[j].version, catalog[k].version)
      BY <2>1, <2>7, ChoiceIsBest
    <3>2. entry \in fits /\ ~warned
      BY <2>1, <2>6, <3>1
    <3>3. \A e \in fits : ~Newer(e.version, entry.version)
      BY <2>4, <2>5, <3>1, <3>2, NewerIsGreater
    <3>4. entry.os_id = info.os_id /\ info.kind # "unknown" /\ kin(entry)
      BY <2>3, <2>4, <3>2 DEF compatible
    <3>5. entry.os_id = "esxi" <=> info.kind = "esxi"
      BY <2>3, <3>4
    <3> QED
      BY <3>2, <3>3, <3>4, <3>5
  <2>8. CASE exact(catalog, info) = {}
    <3>1. PICK j \in family(catalog, info) :
            /\ entry = catalog[j]
            /\ \A k \in family(catalog, info) :
                 ~TupleLess(closeness(catalog[k], info.version), closeness(catalog[j], info.version))
      BY <2>1, <2>8, ChoiceIsBest
    <3>2. family(catalog, info) \subseteq DOMAIN catalog
      BY DEF family
    <3>3. entry \in ToSet(catalog) /\ Definition(entry)
      BY <2>2, <3>1, <3>2
    <3>4. fits = {} /\ warned
      BY <2>1, <2>5, <2>8, <3>3
    <3>5. info.kind \in {"esxi", "linux"}
      BY <2>3, <3>1 DEF family
    <3>6. entry.os_id = "esxi" <=> info.kind = "esxi"
      BY <2>3, <3>1, <3>5 DEF family
    <3>7. ASSUME NEW e \in ToSet(catalog), kin(e)
          PROVE  kin(entry)
      BY <2>2, <2>3, <3>1, <3>5, <3>7 DEF family
    <3>8. \A e \in others : \E k \in family(catalog, info) : e = catalog[k]
      BY <2>2, <2>3, <3>1, <3>5, <3>7 DEF family
    <3>9. ASSUME NEW e \in others
          PROVE  Distance(entry) <= Distance(e)
      <4>1. PICK k \in family(catalog, info) : e = catalog[k]
        BY <3>8
      <4>2. Definition(e)
        BY <2>4
      <4>3. ~TupleLess(closeness(e, info.version), closeness(entry, info.version))
        BY <3>1, <4>1
      <4>4. closeness(entry, info.version)[1] <= closeness(e, info.version)[1]
        BY <2>3, <3>3, <4>2, <4>3, ClosenessIsTuple, NotLessFirst
      <4>5. distance(entry, info.version) <= distance(e, info.version)
        BY <2>3, <3>3, <4>2, <4>4, ClosenessIsTuple
      <4> QED
        BY <2>3, <3>3, <4>2, <4>5, CappedDistance
    <3> QED
      BY <3>3, <3>4, <3>6, <3>7, <3>9
  <2> QED
    BY <2>7, <2>8
<1> QED
  BY <1>1, <1>2, SelectionIsKept, PTL DEF Spec

------------------------------------------------------------------------------
(* Types *)
LEMMA LevelsAreNumbers == \A n \in Nat \ {0} : n \in Int
OBVIOUS
LEMMA OfSomeKind ==
  ASSUME NEW K, K \subseteq Kinds \cup {""}, NEW p \in [level : Nat \ {0}, kind : K]
  PROVE  p \in Profiles /\ p.level \in Int
<1>1. p = [level |-> p.level, kind |-> p.kind] /\ p.level \in Nat \ {0} /\ p.kind \in K
  OBVIOUS
<1>2. p.kind \in Kinds \cup {""}
  BY <1>1, Zenon
<1>3. p.level \in Int
  BY <1>1, LevelsAreNumbers, Zenon
<1> QED
  BY <1>1, <1>2, <1>3 DEF Profiles

(* The profile named in the reports is one: that of the level asked for, or *)
(* the highest there is.                                                    *)
LEMMA NameIsProfile ==
  ASSUME NEW requested \in Profiles, NEW type, NEW profiles, Uniform(profiles)
  PROVE  resolve_profile(requested, type, profiles).name \in Profiles
<1>1. profiles \subseteq Profiles /\ \A p \in profiles : p.level \in Int
  <2>1. CASE profiles \subseteq [level : Nat \ {0}, kind : Kinds]
    <3>1. \A p \in [level : Nat \ {0}, kind : Kinds] : p \in Profiles /\ p.level \in Int
      BY OfSomeKind DEF Kinds
    <3> QED
      BY <2>1, <3>1
  <2>2. CASE profiles \subseteq [level : Nat \ {0}, kind : {""}]
    <3>1. \A p \in [level : Nat \ {0}, kind : {""}] : p \in Profiles /\ p.level \in Int
      BY OfSomeKind DEF Kinds
    <3> QED
      BY <2>2, <3>1
  <2> QED
    BY <2>1, <2>2 DEF Uniform
<1>2. CASE \E p \in profiles : p.kind \in Kinds
  <2>1. resolve_profile(requested, type, profiles).name = Named(requested, type)
    BY <1>2 DEF resolve_profile
  <2>2. requested.level \in Nat \ {0} /\ requested.kind \in Kinds \cup {""}
    BY DEF Profiles
  <2>3. Named(requested, type) \in Profiles
    BY <2>2 DEF Named, Profiles, Kinds
  <2> QED
    BY <2>1, <2>3
<1>3. CASE ~ \E p \in profiles : p.kind \in Kinds
  <2> DEFINE highest == CHOOSE p \in profiles : \A q \in profiles : q.level <= p.level
             asked == CHOOSE p \in profiles : p.level = requested.level
             R == {p \in profiles \X profiles : p[1].level > p[2].level}
  <2>1. resolve_profile(requested, type, profiles).name =
          IF \E p \in profiles : p.level = requested.level THEN asked ELSE highest
    BY <1>3 DEF resolve_profile
  <2>2. \A x, y \in profiles : <<x, y>> \in R <=> x.level > y.level
    OBVIOUS
  <2> HIDE DEF R
  <2>3. \E x \in profiles : \A y \in profiles : <<y, x>> \notin R
    <3>1. \A x \in profiles : <<x, x>> \notin R
      BY <1>1, <2>2
    <3>2. \A x, y, z \in profiles : <<x, y>> \in R /\ <<y, z>> \in R => <<x, z>> \in R
      BY <1>1, <2>2
    <3> QED
      BY <3>1, <3>2, Unbeaten DEF Uniform
  <2>4. \E p \in profiles : \A q \in profiles : q.level <= p.level
    <3>1. PICK x \in profiles : \A y \in profiles : ~(y.level > x.level)
      BY <2>2, <2>3
    <3>2. \A y \in profiles : y.level <= x.level
      BY <1>1, <3>1
    <3> QED
      BY <3>2
  <2>5. highest \in profiles
    BY <2>4
  <2>6. (\E p \in profiles : p.level = requested.level) => asked \in profiles
    OBVIOUS
  <2> QED
    BY <1>1, <2>1, <2>5, <2>6
<1> QED
  BY <1>2, <1>3

TypeInv == TypeOK /\ (stage = "load" => entry # Absent)

LEMMA TypesAreKept == Inv /\ TypeInv /\ [Next]_vars => TypeInv'
<1> SUFFICES ASSUME Inv, TypeInv, [Next]_vars PROVE TypeInv'
  OBVIOUS
<1>1. CASE Detect
  BY <1>1 DEF Detect, TypeInv, TypeOK, Stages
<1>2. CASE Select
  <2> DEFINE chosen == select_benchmark(catalog, info, options.path)
  <2>1. stage = "select" /\ UNCHANGED <<host, options, catalog, info, profile, document, results>>
    BY <1>2 DEF Select, Refuse
  <2>2. \/ stage' = "refused" /\ UNCHANGED <<entry, warned>>
        \/ stage' = "load" /\ chosen # Absent /\ entry' = chosen
           /\ warned' = ~compatible(chosen, info.os_id, info.version)
    BY <1>2 DEF Select, Refuse
  <2>3. warned' \in BOOLEAN
    <3>1. compatible(chosen, info.os_id, info.version) \in BOOLEAN
      BY DEF compatible
    <3> QED
      BY <2>2, <3>1 DEF TypeInv, TypeOK
  <2> QED
    BY <2>1, <2>2, <2>3 DEF TypeInv, TypeOK, Stages
<1>3. CASE Load
  <2>1. stage = "load" /\ UNCHANGED <<host, options, catalog, info, entry, warned, results, document>>
    BY <1>3 DEF Load, Refuse
  <2>2. \/ stage' = "refused" /\ UNCHANGED profile
        \/ /\ stage' \in {"listed", "confirm"} /\ options.profile # Absent
           /\ profile' = resolve_profile(options.profile, info.type, entry.profiles).name
    BY <1>3 DEF Load, Refuse
  <2>3. Uniform(entry.profiles) /\ options \in Options
    BY <2>1 DEF Inv, SettledInv
  <2>4. stage' # "refused" => profile' \in Profiles
    BY <2>2, <2>3, NameIsProfile, ProfilesAssumption
  <2> QED
    BY <2>1, <2>2, <2>4 DEF TypeInv, TypeOK, Stages
<1>4. CASE Confirm
  BY <1>4 DEF Confirm, TypeInv, TypeOK, Stages
<1>5. CASE Judge
  <2>1. JudgedInv'
    BY <1>5, JudgeKeeps
  <2>2. results' \in Seq(Statuses)
    BY <2>1 DEF JudgedInv
  <2> QED
    BY <1>5, <2>2 DEF Judge, TypeInv, TypeOK
<1>6. CASE Document
  BY <1>6 DEF Document, TypeInv, TypeOK, Stages
<1>7. CASE UNCHANGED vars
  BY <1>7 DEF vars, TypeInv, TypeOK
<1> QED
  BY <1>1, <1>2, <1>3, <1>4, <1>5, <1>6, <1>7 DEF Next

(* Every variable keeps its type, and what a stage presupposes is there: the *)
(* platform after detection, the profile from its resolution on, a document  *)
(* exactly at the end.                                                      *)
THEOREM TypeCorrect == Spec => []TypeOK
<1>1. Init => TypeInv
  <2> SUFFICES ASSUME Init PROVE TypeInv
    OBVIOUS
  <2>1. stage = "detect" /\ results \in Seq(Statuses)
    BY InitInv DEF Init, Inv, JudgedInv
  <2>2. warned \in BOOLEAN
    BY DEF Init
  <2> QED
    BY <2>1, <2>2 DEF Init, TypeInv, TypeOK, Stages
<1>2. TypeInv => TypeOK
  BY DEF TypeInv
<1> QED
  BY <1>1, <1>2, InitInv, StepInv, TypesAreKept, PTL DEF Spec

------------------------------------------------------------------------------
(* Sums and orders over finite sets, and the document that is made of them.   *)

(* Of a family of subsets of a finite set, one includes no other one: the    *)
(* form in which sums and orders over finite sets are reasoned about.        *)
LEMMA MinimalSubset ==
  ASSUME NEW D, IsFiniteSet(D), NEW B, B \subseteq SUBSET D, B # {}
  PROVE  \E s \in B : \A t \in B : t \subseteq s => t = s
<1>1. IsWellFoundedOn(StrictSubsetOrdering(D), SUBSET D)
  BY FS_StrictSubsetOrderingWellFounded, FS_FiniteSubsetsOfFinite
<1>2. PICK s \in B : \A t \in B : <<t, s>> \notin StrictSubsetOrdering(D)
  BY <1>1, WFMin
<1> QED
  BY <1>2 DEF StrictSubsetOrdering

(* The element the sum takes first.                                          *)
Pick(s) == CHOOSE x \in s : TRUE
(* The sum takes one element after the other, when some function does.       *)
LEMMA SumUnfolds ==
  ASSUME NEW f, NEW g,
         g \in [SUBSET DOMAIN f -> Nat],
         \A s \in SUBSET DOMAIN f : g[s] = IF s = {} THEN 0 ELSE f[Pick(s)] + g[s \ {Pick(s)}]
  PROVE  \E h : /\ \A s \in SUBSET DOMAIN f : h[s] = IF s = {} THEN 0 ELSE f[Pick(s)] + h[s \ {Pick(s)}]
                /\ Sum(f) = h[DOMAIN f]
<1> DEFINE Fold(h) ==
             h = [s \in SUBSET DOMAIN f |-> IF s = {} THEN 0 ELSE LET x == CHOOSE x \in s : TRUE IN f[x] + h[s \ {x}]]
           fold == CHOOSE h : Fold(h)
<1>1. Fold(g)
  <2>1. g = [s \in SUBSET DOMAIN f |-> IF s = {} THEN 0 ELSE f[Pick(s)] + g[s \ {Pick(s)}]]
    OBVIOUS
  <2> QED
    BY <2>1 DEF Pick
<1>2. Sum(f) = fold[DOMAIN f]
  BY DEF Sum, MapThenSumSet, MapThenFoldSet
<1>3. Fold(fold)
  <2> HIDE DEF Fold
  <2> QED
    BY <1>1
<1>4. \A s \in SUBSET DOMAIN f : fold[s] = IF s = {} THEN 0 ELSE f[Pick(s)] + fold[s \ {Pick(s)}]
  <2> HIDE DEF fold
  <2> QED
    BY <1>3 DEF Pick
<1> HIDE DEF Fold, fold
<1> QED
  BY <1>2, <1>4

(* The sum of the sizes of parts that do not overlap is the size of the whole.*)
LEMMA SumOfParts ==
  ASSUME NEW U, IsFiniteSet(U), NEW D, IsFiniteSet(D), NEW A \in [D -> SUBSET U],
         \A x, y \in D : x # y => A[x] \cap A[y] = {}
  PROVE  Sum([x \in D |-> Cardinality(A[x])]) = Cardinality(UNION {A[x] : x \in D})
<1> DEFINE f == [x \in D |-> Cardinality(A[x])]
           All(s) == UNION {A[x] : x \in s}
           g == [s \in SUBSET D |-> Cardinality(All(s))]
<1>1. \A s \in SUBSET D : IsFiniteSet(All(s))
  <2>1. \A s \in SUBSET D : All(s) \subseteq U
    OBVIOUS
  <2> QED
    BY <2>1, FS_Subset
<1>2. \A s \in SUBSET D, x \in D : x \in s => Cardinality(All(s)) = Cardinality(A[x]) + Cardinality(All(s \ {x}))
  <2> SUFFICES ASSUME NEW s \in SUBSET D, NEW x \in D, x \in s
               PROVE  Cardinality(All(s)) = Cardinality(A[x]) + Cardinality(All(s \ {x}))
    OBVIOUS
  <2>1. All(s) = A[x] \cup All(s \ {x})
    OBVIOUS
  <2>2. A[x] \cap All(s \ {x}) = {}
    OBVIOUS
  <2>3. IsFiniteSet(A[x]) /\ IsFiniteSet(All(s \ {x}))
    <3>1. A[x] \subseteq U /\ s \ {x} \in SUBSET D
      OBVIOUS
    <3> HIDE DEF All
    <3> QED
      BY <1>1, <3>1, FS_Subset
  <2> HIDE DEF All
  <2>4. Cardinality(A[x] \cup All(s \ {x})) = Cardinality(A[x]) + Cardinality(All(s \ {x})) - Cardinality(A[x] \cap All(s \ {x}))
    BY <2>3, FS_Union
  <2>5. Cardinality({}) = 0 /\ Cardinality(A[x]) \in Nat /\ Cardinality(All(s \ {x})) \in Nat
    BY <2>3, FS_EmptySet, FS_CardinalityType
  <2>6. Cardinality(All(s)) = Cardinality(A[x] \cup All(s \ {x})) /\ Cardinality(A[x] \cap All(s \ {x})) = 0
    BY <2>1, <2>2, <2>5, Zenon
  <2> QED
    BY <2>4, <2>5, <2>6
<1>3. Cardinality(All({})) = 0
  <2>1. All({}) = {}
    OBVIOUS
  <2> QED
    BY <2>1, FS_EmptySet
<1>4. \A s \in SUBSET D : s # {} => Pick(s) \in s /\ s \ {Pick(s)} \in SUBSET D
  BY DEF Pick
<1>5. \A x \in D : f[x] = Cardinality(A[x])
  OBVIOUS
<1>6. DOMAIN f = D
  OBVIOUS
<1> HIDE DEF f, All
<1>7. \A s \in SUBSET D : g[s] = IF s = {} THEN 0 ELSE f[Pick(s)] + g[s \ {Pick(s)}]
  <2> TAKE s \in SUBSET D
  <2>1. CASE s = {}
    BY <1>3, <2>1
  <2>2. CASE s # {}
    <3>1. Pick(s) \in s /\ Pick(s) \in D /\ s \ {Pick(s)} \in SUBSET D
      BY <1>4, <2>2
    <3>2. g[s] = Cardinality(All(s)) /\ g[s \ {Pick(s)}] = Cardinality(All(s \ {Pick(s)}))
      BY <3>1
    <3> HIDE DEF g
    <3> QED
      BY <1>2, <1>5, <2>2, <3>1, <3>2
  <2> QED
    BY <2>1, <2>2
<1>12. g \in [SUBSET D -> Nat]
  BY <1>1, FS_CardinalityType
<1>8. \A s \in SUBSET D : g[s] = Cardinality(All(s))
  OBVIOUS
<1> HIDE DEF g
<1>9. PICK h : /\ \A s \in SUBSET DOMAIN f : h[s] = IF s = {} THEN 0 ELSE f[Pick(s)] + h[s \ {Pick(s)}]
               /\ Sum(f) = h[DOMAIN f]
  <2>1. \A s \in SUBSET DOMAIN f : g[s] = IF s = {} THEN 0 ELSE f[Pick(s)] + g[s \ {Pick(s)}]
    BY <1>6, <1>7
  <2>2. g \in [SUBSET DOMAIN f -> Nat]
    BY <1>6, <1>12
  <2> QED
    BY <2>1, <2>2, SumUnfolds
<1>10. \A s \in SUBSET D : h[s] = g[s]
  <2> DEFINE B == {s \in SUBSET D : h[s] # g[s]}
  <2> SUFFICES ASSUME B # {} PROVE FALSE
    OBVIOUS
  <2>1. PICK s \in B : \A t \in B : t \subseteq s => t = s
    <3>1. B \subseteq SUBSET D
      OBVIOUS
    <3> HIDE DEF B
    <3> QED
      BY <3>1, MinimalSubset
  <2>2. s \in SUBSET D /\ h[s] # g[s]
    OBVIOUS
  <2>3. /\ h[s] = IF s = {} THEN 0 ELSE f[Pick(s)] + h[s \ {Pick(s)}]
        /\ g[s] = IF s = {} THEN 0 ELSE f[Pick(s)] + g[s \ {Pick(s)}]
    BY <1>6, <1>7, <1>9, <2>2
  <2>4. s # {}
    BY <2>2, <2>3
  <2>5. Pick(s) \in s /\ s \ {Pick(s)} \in SUBSET D /\ s \ {Pick(s)} # s
    BY <1>4, <2>2, <2>4
  <2>6. s \ {Pick(s)} \notin B
    BY <2>1, <2>5
  <2>7. h[s \ {Pick(s)}] = g[s \ {Pick(s)}]
    BY <2>5, <2>6
  <2> QED
    BY <2>2, <2>3, <2>7
<1>11. Sum(f) = Cardinality(All(D))
  BY <1>6, <1>8, <1>9, <1>10
<1> QED
  BY <1>11 DEF f, All

(* The sequences in which the elements of S follow R.                        *)
Orders(S, R) == {f \in [1 .. Cardinality(S) -> S] : \A i, j \in DOMAIN f : i < j => <<f[i], f[j]>> \in R}
(* A finite set has one, for a strict total order: the place of an element is*)
(* the number of those below it.                                             *)
LEMMA OrderExists ==
  ASSUME NEW S, IsFiniteSet(S), NEW R,
         \A x \in S : <<x, x>> \notin R,
         \A x, y, z \in S : <<x, y>> \in R /\ <<y, z>> \in R => <<x, z>> \in R,
         \A x, y \in S : x # y => <<x, y>> \in R \/ <<y, x>> \in R
  PROVE  Orders(S, R) # {}
<1> DEFINE n == Cardinality(S)
           below(x) == {y \in S : <<y, x>> \in R}
           q == [x \in S |-> Cardinality(below(x)) + 1]
           f == [i \in 1 .. n |-> CHOOSE x \in S : q[x] = i]
<1>1. n \in Nat /\ IsFiniteSet(1 .. n) /\ Cardinality(1 .. n) = n
  BY FS_CardinalityType, FS_Interval
<1>2. \A x \in S : IsFiniteSet(below(x)) /\ Cardinality(below(x)) \in Nat /\ Cardinality(below(x)) < n
  <2> TAKE x \in S
  <2>1. below(x) \subseteq S /\ below(x) # S
    OBVIOUS
  <2> HIDE DEF below
  <2>2. IsFiniteSet(below(x)) /\ Cardinality(below(x)) <= n /\ Cardinality(below(x)) # n
    BY <2>1, FS_Subset
  <2> QED
    BY <1>1, <2>2, FS_CardinalityType
<1>3. \A x, y \in S : <<x, y>> \in R => Cardinality(below(x)) < Cardinality(below(y))
  <2> SUFFICES ASSUME NEW x \in S, NEW y \in S, <<x, y>> \in R
               PROVE  Cardinality(below(x)) < Cardinality(below(y))
    OBVIOUS
  <2>1. below(x) \subseteq below(y) /\ below(x) # below(y)
    OBVIOUS
  <2> HIDE DEF below
  <2>2. Cardinality(below(x)) <= Cardinality(below(y)) /\ Cardinality(below(x)) # Cardinality(below(y))
    BY <1>2, <2>1, FS_Subset
  <2> QED
    BY <1>2, <2>2
<1> HIDE DEF below
<1>4. \A x \in S : q[x] \in 1 .. n
  BY <1>1, <1>2
<1>5. q \in [S -> 1 .. n]
  BY <1>1, <1>2
<1>6. \A x, y \in S : <<x, y>> \in R => q[x] < q[y]
  BY <1>2, <1>3
<1> HIDE DEF q, n
<1>7. \A x, y \in S : q[x] = q[y] => x = y
  <2> SUFFICES ASSUME NEW x \in S, NEW y \in S, q[x] = q[y], x # y PROVE FALSE
    OBVIOUS
  <2>1. <<x, y>> \in R \/ <<y, x>> \in R
    OBVIOUS
  <2>2. q[x] \in Nat /\ q[y] \in Nat
    BY <1>1, <1>5
  <2> QED
    BY <1>6, <2>1, <2>2
<1>8. \A w \in 1 .. n : \E v \in S : q[v] = w
  <2>1. q \in Injection(S, 1 .. n)
    BY <1>5, <1>7 DEF Injection, IsInjective
  <2>2. q \in Surjection(S, 1 .. n)
    BY <1>1, <2>1, FS_Injection DEF n
  <2> QED
    BY <2>2 DEF Surjection
<1>9. \A i \in 1 .. n : f[i] \in S /\ q[f[i]] = i
  BY <1>8
<1>10. f \in [1 .. n -> S]
  BY <1>9
<1> HIDE DEF f
<1>11. \A i, j \in 1 .. n : i < j => <<f[i], f[j]>> \in R
  <2> SUFFICES ASSUME NEW i \in 1 .. n, NEW j \in 1 .. n, i < j, <<f[i], f[j]>> \notin R PROVE FALSE
    OBVIOUS
  <2>1. i \in Nat /\ j \in Nat
    BY <1>1
  <2>2. f[i] # f[j] /\ f[i] \in S /\ f[j] \in S
    BY <1>9, <2>1
  <2>3. <<f[j], f[i]>> \in R
    BY <2>2
  <2>4. q[f[j]] < q[f[i]]
    BY <1>6, <2>2, <2>3
  <2> QED
    BY <1>9, <2>1, <2>4
<1> QED
  BY <1>10, <1>11 DEF n, Orders

(* Least and greatest of a finite set of numbers, as the community modules choose them.*)
LEMMA ExtremesAreIn ==
  ASSUME NEW S, IsFiniteSet(S), S # {}, S \subseteq Int
  PROVE  /\ Min(S) \in S /\ \A y \in S : Min(S) <= y
         /\ Max(S) \in S /\ \A y \in S : Max(S) >= y
<1>1. Least(S) \in S /\ \A y \in S : Least(S) <= y
  BY LeastExists
<1>2. Newest(S) \in S /\ \A y \in S : Newest(S) >= y
  <2> DEFINE R == {p \in S \X S : p[1] > p[2]}
  <2>1. \A x, y \in S : <<x, y>> \in R <=> x > y
    OBVIOUS
  <2> HIDE DEF R
  <2>2. \E x \in S : \A y \in S : <<y, x>> \notin R
    <3>1. \A x \in S : <<x, x>> \notin R
      BY <2>1
    <3>2. \A x, y, z \in S : <<x, y>> \in R /\ <<y, z>> \in R => <<x, z>> \in R
      BY <2>1
    <3> QED
      BY <3>1, <3>2, Unbeaten
  <2>3. PICK x \in S : \A y \in S : x >= y
    <3>1. PICK x \in S : \A y \in S : ~(y > x)
      BY <2>1, <2>2
    <3>2. \A y \in S : y \in Int /\ x \in Int
      OBVIOUS
    <3>3. \A y \in S : x >= y
      BY <3>1, <3>2
    <3> QED
      BY <3>3
  <2> QED
    BY <2>3 DEF Newest
<1>3. \E x \in S : \A y \in S : x <= y
  BY <1>1
<1>4. \E x \in S : \A y \in S : x >= y
  BY <1>2
<1> QED
  BY <1>3, <1>4 DEF Min, Max

(* Pairs are ordered by the first part, then by the second.                  *)
LEMMA PairLess ==
  ASSUME NEW a \in Int, NEW b \in Int, NEW c \in Int, NEW d \in Int
  PROVE  TupleLess(<<a, b>>, <<c, d>>) <=> (a < c \/ (a = c /\ b < d))
BY DEF TupleLess

(* What the document presupposes: a sound definition, an answer to each of its*)
(* recommendations, and of the manual ones none but that nobody looked.      *)
DocumentInv ==
  /\ stage \in {"load", "confirm", "judge", "documented"} =>
       /\ entry.controls \in Seq(ToSet(entry.controls))
       /\ entry.manuals \in Seq({m \in ToSet(entry.manuals) : ~m.automated})
  /\ stage \in {"confirm", "judge", "documented"} => load_definition(entry)
  /\ stage \in {"judge", "documented"} =>
       /\ Len(results) <= Len(Items)
       /\ \A j \in DOMAIN results : ~Items[j].automated => results[j] \in {"NOT_ASSESSED", "NOT_APPLICABLE"}
  /\ stage = "documented" =>
       /\ Len(results) = Len(Items)
       /\ document = [coverage |-> build_coverage, summary |-> summary, findings |-> findings, scope |-> scope]
  /\ stage # "documented" => document = Absent

(* The items are the controls, then the manual recommendations.              *)
ItemsFacts ==
  /\ Items \in Seq(ToSet(Items))
  /\ Len(entry.controls) \in Nat /\ Len(Items) \in Nat
  /\ \A j \in 1 .. Len(Items) :
       \/ j \in 1 .. Len(entry.controls) /\ Items[j] = entry.controls[j] /\ Items[j].automated
       \/ j > Len(entry.controls) /\ ~Items[j].automated /\ Items[j] \in ToSet(entry.manuals)
LEMMA ItemsAre ==
  ASSUME entry.controls \in Seq(ToSet(entry.controls)), load_definition(entry),
         entry.manuals \in Seq({m \in ToSet(entry.manuals) : ~m.automated})
  PROVE  ItemsFacts
<1> DEFINE c == entry.controls
           m == entry.manuals
           n == IF options.manual THEN m ELSE <<>>
<1>1. c \in Seq(ToSet(c)) /\ \A j \in 1 .. Len(c) : c[j].automated
  BY DEF load_definition, ToSet
<1>2. n \in Seq(ToSet(m)) /\ \A j \in 1 .. Len(n) : ~n[j].automated /\ n[j] \in ToSet(m)
  BY DEF ToSet
<1>3. Items = c \o n
  BY DEF Items
<1> HIDE DEF c, m, n
<1>4. Items \in Seq(ToSet(c) \cup ToSet(m))
  BY <1>1, <1>2, <1>3
<1>5. Items \in Seq(ToSet(Items))
  BY <1>4 DEF ToSet
<1>6. /\ Len(Items) = Len(c) + Len(n) /\ Len(c) \in Nat /\ Len(n) \in Nat
      /\ \A j \in 1 .. Len(c) + Len(n) : Items[j] = IF j <= Len(c) THEN c[j] ELSE n[j - Len(c)]
  BY <1>1, <1>2, <1>3
<1>7. \A j \in 1 .. Len(Items) :
       \/ j \in 1 .. Len(c) /\ Items[j] = c[j] /\ Items[j].automated
       \/ j > Len(c) /\ ~Items[j].automated /\ Items[j] \in ToSet(m)
  <2> TAKE j \in 1 .. Len(Items)
  <2>1. CASE j <= Len(c)
    BY <1>1, <1>6, <2>1
  <2>2. CASE ~(j <= Len(c))
    <3>1. j - Len(c) \in 1 .. Len(n) /\ j > Len(c)
      BY <1>6, <2>2
    <3> QED
      BY <1>2, <1>6, <2>2, <3>1
  <2> QED
    BY <2>1, <2>2
<1> QED
  BY <1>5, <1>6, <1>7 DEF ItemsFacts, c, m

(* Sequences have finitely many members.                                     *)
LEMMA MembersAreFinite ==
  ASSUME NEW T, NEW s \in Seq(T)
  PROVE  IsFiniteSet(ToSet(s))
<1>1. s \in Surjection(1 .. Len(s), ToSet(s))
  BY DEF Surjection, ToSet
<1>2. IsFiniteSet(1 .. Len(s))
  BY FS_Interval
<1> QED
  BY <1>1, <1>2, FS_Surjection

LEMMA UpTo == \A n \in Nat : IsFiniteSet(1 .. n) /\ Cardinality(1 .. n) = n
BY FS_Interval

LEMMA DisjointUnion ==
  ASSUME NEW S, IsFiniteSet(S), NEW T, IsFiniteSet(T), S \cap T = {}
  PROVE  Cardinality(S \cup T) = Cardinality(S) + Cardinality(T)
<1>1. Cardinality(S) \in Nat /\ Cardinality(T) \in Nat /\ Cardinality(S \cap T) = 0
  BY FS_CardinalityType, FS_EmptySet, Zenon
<1>2. Cardinality(S \cup T) = Cardinality(S) + Cardinality(T) - Cardinality(S \cap T)
  BY FS_Union
<1> QED
  BY <1>1, <1>2

(* Every item has an answer.                                                 *)
Answered ==
  /\ results \in Seq(Statuses)
  /\ Len(results) = Len(Items)
  /\ ItemsFacts

(* The answers, and what is counted of them, are finitely many.              *)
LEMMA AnswersAre ==
  ASSUME Answered
  PROVE  /\ DOMAIN results = 1 .. Len(Items) /\ Len(Items) \in Nat
         /\ IsFiniteSet(DOMAIN results) /\ Cardinality(DOMAIN results) = Len(results)
         /\ \A j \in DOMAIN results : results[j] \in Statuses
         /\ \A j \in DOMAIN results : Items[j].section \in coverage_sections
         /\ IsFiniteSet(coverage_sections)
         /\ \A S : IsFiniteSet(With(S)) /\ Cardinality(With(S)) \in Nat
         /\ \A s, S : IsFiniteSet(Of(s) \cap With(S)) /\ Cardinality(Of(s) \cap With(S)) \in Nat
<1>1. /\ DOMAIN results = 1 .. Len(Items) /\ Len(Items) \in Nat /\ Items \in Seq(ToSet(Items))
      /\ \A j \in DOMAIN results : results[j] \in Statuses
  BY DEF Answered, ItemsFacts
<1>2. IsFiniteSet(DOMAIN results) /\ Cardinality(DOMAIN results) = Len(results)
  <2>1. DOMAIN results = 1 .. Len(results) /\ Len(results) \in Nat
    BY DEF Answered
  <2>2. IsFiniteSet(1 .. Len(results)) /\ Cardinality(1 .. Len(results)) = Len(results)
    BY <2>1, UpTo
  <2> QED
    BY <2>1, <2>2
<1>3. \A j \in DOMAIN results : Items[j].section \in coverage_sections
  BY <1>1 DEF coverage_sections, ToSet
<1>4. IsFiniteSet(coverage_sections)
  <2> DEFINE sections == [j \in 1 .. Len(Items) |-> Items[j].section]
  <2>1. sections \in Seq(coverage_sections)
    BY <1>1, <1>3
  <2>2. ToSet(sections) = coverage_sections
    BY <1>1 DEF ToSet, coverage_sections
  <2> QED
    BY <2>1, <2>2, MembersAreFinite
<1>5. \A S : With(S) \subseteq DOMAIN results
  BY DEF With
<1>6. \A S : IsFiniteSet(With(S)) /\ Cardinality(With(S)) \in Nat
  BY <1>2, <1>5, FS_Subset, FS_CardinalityType
<1>7. \A s, S : IsFiniteSet(Of(s) \cap With(S)) /\ Cardinality(Of(s) \cap With(S)) \in Nat
  BY <1>6, FS_Intersection, FS_CardinalityType
<1> QED
  BY <1>1, <1>2, <1>3, <1>4, <1>6, <1>7

(* Every answer is counted in the summary once.                              *)
LEMMA CountsAddUp ==
  ASSUME Answered
  PROVE  Sum([s \in Statuses |-> Cardinality(With({s}))]) = Len(results)
<1> DEFINE A == [s \in Statuses |-> With({s})]
<1>1. A \in [Statuses -> SUBSET (DOMAIN results)] /\ \A s, t \in Statuses : s # t => A[s] \cap A[t] = {}
  BY DEF With
<1>2. UNION {A[s] : s \in Statuses} = DOMAIN results
  <2>1. \A j \in DOMAIN results : results[j] \in Statuses /\ j \in With({results[j]})
    BY AnswersAre DEF With
  <2> QED
    BY <2>1 DEF With
<1>3. IsFiniteSet(Statuses)
  <2>1. Statuses = ToSet(<<"PASS", "FAIL", "WARNING", "NOT_APPLICABLE", "NOT_ASSESSED", "ERROR">>)
    BY DEF Statuses, ToSet
  <2>2. <<"PASS", "FAIL", "WARNING", "NOT_APPLICABLE", "NOT_ASSESSED", "ERROR">> \in Seq(Statuses)
    BY DEF Statuses
  <2> QED
    BY <2>1, <2>2, MembersAreFinite
<1>4. [s \in Statuses |-> Cardinality(A[s])] = [s \in Statuses |-> Cardinality(With({s}))]
  OBVIOUS
<1> HIDE DEF A
<1>5. Sum([s \in Statuses |-> Cardinality(A[s])]) = Cardinality(UNION {A[s] : s \in Statuses})
  BY <1>1, <1>3, AnswersAre, SumOfParts
<1> QED
  BY <1>2, <1>4, <1>5, AnswersAre

(* Over the areas, the answers of some statuses are all that have them.      *)
LEMMA AreasAddUp ==
  ASSUME Answered, NEW S
  PROVE  Sum([s \in coverage_sections |-> Cardinality(Of(s) \cap With(S))]) = Cardinality(With(S))
<1> DEFINE A == [s \in coverage_sections |-> Of(s) \cap With(S)]
<1>1. A \in [coverage_sections -> SUBSET With(S)] /\ \A s, t \in coverage_sections : s # t => A[s] \cap A[t] = {}
  BY DEF Of
<1>2. UNION {A[s] : s \in coverage_sections} = With(S)
  <2>1. \A j \in With(S) : Items[j].section \in coverage_sections /\ j \in Of(Items[j].section)
    BY AnswersAre DEF With, Of
  <2> QED
    BY <2>1
<1>4. [s \in coverage_sections |-> Cardinality(A[s])] = [s \in coverage_sections |-> Cardinality(Of(s) \cap With(S))]
  OBVIOUS
<1> HIDE DEF A
<1>5. Sum([s \in coverage_sections |-> Cardinality(A[s])]) = Cardinality(UNION {A[s] : s \in coverage_sections})
  BY <1>1, AnswersAre, SumOfParts
<1> QED
  BY <1>2, <1>4, <1>5

(* Over the severities, the failures and warnings are all of them.           *)
LEMMA SeveritiesAddUp ==
  ASSUME Answered, \A j \in With({"FAIL", "WARNING"}) : Items[j].severity \in ToSet(Severities)
  PROVE  Sum([v \in ToSet(Severities) |-> Cardinality({j \in With({"FAIL", "WARNING"}) : Items[j].severity = v})])
           = Cardinality(With({"FAIL", "WARNING"}))
<1> DEFINE bad == With({"FAIL", "WARNING"})
           A == [v \in ToSet(Severities) |-> {j \in bad : Items[j].severity = v}]
<1>1. A \in [ToSet(Severities) -> SUBSET bad] /\ \A s, t \in ToSet(Severities) : s # t => A[s] \cap A[t] = {}
  OBVIOUS
<1>2. UNION {A[s] : s \in ToSet(Severities)} = bad
  OBVIOUS
<1>3. IsFiniteSet(ToSet(Severities))
  <2>1. Severities \in Seq({"Critical", "High", "Medium"})
    BY DEF Severities
  <2> QED
    BY <2>1, MembersAreFinite
<1>4. [v \in ToSet(Severities) |-> Cardinality(A[v])] = [v \in ToSet(Severities) |-> Cardinality({j \in bad : Items[j].severity = v})]
  OBVIOUS
<1> HIDE DEF A
<1>5. Sum([s \in ToSet(Severities) |-> Cardinality(A[s])]) = Cardinality(UNION {A[s] : s \in ToSet(Severities)})
  BY <1>1, <1>3, AnswersAre, SumOfParts
<1> QED
  BY <1>2, <1>4, <1>5

(* Assessed are the passes, failures and warnings, and everything applies    *)
(* that is not answered NOT_APPLICABLE.                                      *)
LEMMA StatusesAddUp ==
  ASSUME Answered
  PROVE  /\ Cardinality(With(Assessed)) = Cardinality(With({"PASS"})) + Cardinality(With({"FAIL"})) + Cardinality(With({"WARNING"}))
         /\ Cardinality(With(Assessed \cup Unevaluated)) = Len(results) - Cardinality(With({"NOT_APPLICABLE"}))
<1>1. With(Assessed) = (With({"PASS"}) \cup With({"FAIL"})) \cup With({"WARNING"})
  BY DEF With, Assessed
<1>2. With({"PASS"}) \cap With({"FAIL"}) = {} /\ (With({"PASS"}) \cup With({"FAIL"})) \cap With({"WARNING"}) = {}
  BY DEF With
<1>3. IsFiniteSet(With({"PASS"}) \cup With({"FAIL"}))
  BY AnswersAre, FS_Union
<1>4. /\ Cardinality(With({"PASS"}) \cup With({"FAIL"})) = Cardinality(With({"PASS"})) + Cardinality(With({"FAIL"}))
      /\ Cardinality((With({"PASS"}) \cup With({"FAIL"})) \cup With({"WARNING"}))
           = Cardinality(With({"PASS"}) \cup With({"FAIL"})) + Cardinality(With({"WARNING"}))
  BY <1>2, <1>3, AnswersAre, DisjointUnion
<1>5. With(Assessed \cup Unevaluated) = DOMAIN results \ With({"NOT_APPLICABLE"})
  BY AnswersAre DEF With, Assessed, Unevaluated, Statuses
<1>6. DOMAIN results \cap With({"NOT_APPLICABLE"}) = With({"NOT_APPLICABLE"})
  BY DEF With
<1>7. Cardinality(DOMAIN results \ With({"NOT_APPLICABLE"})) = Cardinality(DOMAIN results) - Cardinality(DOMAIN results \cap With({"NOT_APPLICABLE"}))
  BY AnswersAre, FS_Difference
<1>8. Cardinality(With(Assessed \cup Unevaluated)) = Len(results) - Cardinality(With({"NOT_APPLICABLE"}))
  BY <1>5, <1>6, <1>7, AnswersAre
<1> QED
  BY <1>1, <1>4, <1>8

(* The place of an item is that of the last one with its ID.                 *)
LEMMA PlaceIs ==
  ASSUME ItemsFacts, NEW j \in 1 .. Len(Items)
  PROVE  /\ Place(j) \in 1 .. Len(Items) /\ Items[Place(j)].id = Items[j].id /\ j <= Place(j)
         /\ Items[Place(j)] # Items[j] => Place(j) > j
<1> DEFINE Same == {i \in 1 .. Len(Items) : Items[i].id = Items[j].id}
<1>1. Place(j) = IF Same # {} THEN Max(Same) ELSE 0
  BY DEF Place, SelectLastInSeq
<1>2. j \in Same /\ Same \subseteq 1 .. Len(Items) /\ Same \subseteq Int
  OBVIOUS
<1>3. \A i \in Same : i \in 1 .. Len(Items) /\ Items[i].id = Items[j].id
  OBVIOUS
<1> HIDE DEF Same
<1>4. Len(Items) \in Nat
  BY DEF ItemsFacts
<1>5. IsFiniteSet(Same)
  BY <1>2, <1>4, UpTo, FS_Subset
<1>6. Max(Same) \in Same /\ Max(Same) >= j
  BY <1>2, <1>5, ExtremesAreIn
<1>7. Place(j) = Max(Same)
  BY <1>1, <1>2
<1>8. Place(j) \in 1 .. Len(Items) /\ Items[Place(j)].id = Items[j].id /\ j <= Place(j)
  BY <1>3, <1>6, <1>7
<1> QED
  BY <1>8

LEMMA RankIsNumber ==
  ASSUME NEW j, Items[j].severity \in ToSet(Severities)
  PROVE  Rank(j) \in Int
<1> DEFINE Same == {i \in 1 .. Len(Severities) : Severities[i] = Items[j].severity}
<1>1. Rank(j) = IF Same # {} THEN Min(Same) ELSE 0
  BY DEF Rank, SelectInSeq
<1>2. Len(Severities) \in Nat
  BY DEF Severities
<1>3. Same \subseteq 1 .. Len(Severities) /\ Same \subseteq Int
  BY <1>2
<1> HIDE DEF Same
<1>5. IsFiniteSet(Same)
  BY <1>2, <1>3, UpTo, FS_Subset
<1>6. Same # {} => Min(Same) \in Int
  BY <1>3, <1>5, ExtremesAreIn
<1> QED
  BY <1>1, <1>6

(* Failures and warnings are answers to controls.                            *)
FoundAmongControls ==
  \A j \in With({"FAIL", "WARNING"}) : j \in 1 .. Len(entry.controls) /\ j \in 1 .. Len(Items) /\ Items[j] = entry.controls[j]

(* The findings are the failures and warnings, each once, in the order of the*)
(* report: the numbers of controls are unique.                               *)
LEMMA FindingsInOrder ==
  ASSUME Answered, load_definition(entry), FoundAmongControls
  PROVE  /\ ToSet(findings) = With({"FAIL", "WARNING"}) /\ IsInjective(findings)
         /\ \A j, k \in DOMAIN findings :
              j < k => \/ Rank(findings[j]) < Rank(findings[k])
                       \/ /\ Rank(findings[j]) = Rank(findings[k])
                          /\ \/ findings[j] < findings[k]
                             \/ Items[findings[k]].id \in {m.id : m \in ToSet(entry.manuals)}
<1> DEFINE bad == With({"FAIL", "WARNING"})
           n == Cardinality(bad)
           R == {p \in bad \X bad : Before(p[1], p[2])}
<1>1. /\ bad \subseteq 1 .. Len(Items) /\ Len(Items) \in Nat /\ Len(entry.controls) \in Nat
      /\ \A j \in bad : j \in 1 .. Len(entry.controls) /\ Items[j] = entry.controls[j] /\ j \in Int
  BY DEF FoundAmongControls, Answered, ItemsFacts
<1>2. \A j \in bad : Rank(j) \in Int
  <2> TAKE j \in bad
  <2>1. Items[j].severity \in ToSet(Severities)
    BY <1>1 DEF load_definition, ToSet
  <2> QED
    BY <2>1, RankIsNumber
<1>3. \A j \in bad : /\ Place(j) \in 1 .. Len(Items) /\ Place(j) \in Int /\ j <= Place(j)
                     /\ Items[Place(j)].id = Items[j].id
  <2> TAKE j \in bad
  <2>1. Place(j) \in 1 .. Len(Items) /\ Items[Place(j)].id = Items[j].id /\ j <= Place(j)
    BY <1>1, PlaceIs DEF Answered
  <2> QED
    BY <1>1, <2>1
<1>4. \A j, k \in bad : Items[j].id = Items[k].id => j = k
  <2> SUFFICES ASSUME NEW j \in bad, NEW k \in bad, Items[j].id = Items[k].id, j # k PROVE FALSE
    OBVIOUS
  <2>1. j \in DOMAIN entry.controls /\ k \in DOMAIN entry.controls
    BY <1>1 DEF FoundAmongControls
  <2> QED
    BY <1>1, <2>1 DEF load_definition
<1> HIDE DEF bad
<1>5. \A j, k \in bad : Before(j, k) <=> (Rank(j) < Rank(k) \/ (Rank(j) = Rank(k) /\ Place(j) < Place(k)))
  BY <1>2, <1>3, PairLess DEF Before
<1>6. \A j, k \in bad : Place(j) = Place(k) => j = k
  BY <1>3, <1>4
<1>7. \A j, k \in bad : <<j, k>> \in R <=> Before(j, k)
  OBVIOUS
<1> HIDE DEF R
<1>8. IsFiniteSet(bad) /\ n \in Nat
  BY AnswersAre DEF bad
<1>9. \E f \in [1 .. n -> bad] : \A j, k \in DOMAIN f : j < k => <<f[j], f[k]>> \in R
  <2>1. \A x \in bad : <<x, x>> \notin R
    BY <1>2, <1>3, <1>5, <1>7
  <2>2. \A x, y, z \in bad : <<x, y>> \in R /\ <<y, z>> \in R => <<x, z>> \in R
    <3> SUFFICES ASSUME NEW x \in bad, NEW y \in bad, NEW z \in bad, <<x, y>> \in R, <<y, z>> \in R
                 PROVE  <<x, z>> \in R
      OBVIOUS
    <3>1. /\ Rank(x) < Rank(y) \/ (Rank(x) = Rank(y) /\ Place(x) < Place(y))
          /\ Rank(y) < Rank(z) \/ (Rank(y) = Rank(z) /\ Place(y) < Place(z))
      BY <1>5, <1>7
    <3>2. Rank(x) \in Int /\ Rank(y) \in Int /\ Rank(z) \in Int /\ Place(x) \in Int /\ Place(y) \in Int /\ Place(z) \in Int
      BY <1>2, <1>3
    <3>3. Rank(x) < Rank(z) \/ (Rank(x) = Rank(z) /\ Place(x) < Place(z))
      BY <3>1, <3>2
    <3> QED
      BY <1>5, <1>7, <3>3
  <2>3. \A x, y \in bad : x # y => <<x, y>> \in R \/ <<y, x>> \in R
    <3> SUFFICES ASSUME NEW x \in bad, NEW y \in bad, x # y
                 PROVE  <<x, y>> \in R \/ <<y, x>> \in R
      OBVIOUS
    <3>1. Rank(x) \in Int /\ Rank(y) \in Int /\ Place(x) \in Int /\ Place(y) \in Int /\ Place(x) # Place(y)
      BY <1>2, <1>3, <1>6
    <3>2. \/ Rank(x) < Rank(y) \/ (Rank(x) = Rank(y) /\ Place(x) < Place(y))
          \/ Rank(y) < Rank(x) \/ (Rank(y) = Rank(x) /\ Place(y) < Place(x))
      BY <3>1
    <3> QED
      BY <1>5, <1>7, <3>2
  <2>4. Orders(bad, R) # {}
    BY <1>8, <2>1, <2>2, <2>3, OrderExists
  <2> QED
    BY <2>4 DEF Orders
<1>10. findings \in [1 .. n -> bad] /\ \A j, k \in DOMAIN findings : j < k => Before(findings[j], findings[k])
  <2>1. \E f \in [1 .. n -> bad] : \A j, k \in DOMAIN f : j < k => Before(f[j], f[k])
    BY <1>7, <1>9
  <2>2. findings = CHOOSE f \in [1 .. n -> bad] : \A j, k \in DOMAIN f : j < k => Before(f[j], f[k])
    BY DEF findings, bad
  <2> QED
    BY <2>1, <2>2
<1> HIDE DEF n
<1>11. IsInjective(findings)
  <2> SUFFICES ASSUME NEW j \in 1 .. n, NEW k \in 1 .. n, j < k, findings[j] = findings[k] PROVE FALSE
    BY <1>8, <1>10 DEF IsInjective
  <2>1. findings[j] \in bad /\ findings[k] \in bad /\ Before(findings[j], findings[k])
    BY <1>10
  <2> QED
    BY <1>2, <1>3, <1>5, <2>1
<1>12. ToSet(findings) = bad
  <2>1. findings \in Injection(1 .. n, bad)
    BY <1>10, <1>11 DEF Injection
  <2>2. findings \in Surjection(1 .. n, bad)
    BY <1>8, <2>1, UpTo, FS_Injection DEF n
  <2> QED
    BY <1>10, <2>2 DEF Surjection, ToSet
<1>13. ASSUME NEW j \in DOMAIN findings, NEW k \in DOMAIN findings, j < k
       PROVE  \/ Rank(findings[j]) < Rank(findings[k])
              \/ /\ Rank(findings[j]) = Rank(findings[k])
                 /\ \/ findings[j] < findings[k]
                    \/ Items[findings[k]].id \in {m.id : m \in ToSet(entry.manuals)}
  <2> DEFINE a == findings[j]
             b == findings[k]
  <2>1. a \in bad /\ b \in bad /\ Before(a, b)
    BY <1>10, <1>13
  <2> HIDE DEF a, b
  <2>2. CASE Rank(a) < Rank(b)
    BY <2>2 DEF a, b
  <2>3. CASE Rank(a) = Rank(b) /\ Place(a) < Place(b)
    <3>1. CASE Place(b) <= Len(entry.controls)
      <4>1. Place(b) \in DOMAIN entry.controls /\ b \in DOMAIN entry.controls /\ Items[Place(b)] = entry.controls[Place(b)]
        BY <1>1, <1>3, <2>1, <3>1 DEF FoundAmongControls, Answered, ItemsFacts
      <4>2. Place(b) = b
        BY <1>1, <1>3, <2>1, <4>1 DEF load_definition
      <4>3. a < b
        BY <1>1, <1>3, <2>1, <2>3, <4>2
      <4> QED
        BY <2>3, <4>3 DEF a, b
    <3>2. CASE ~(Place(b) <= Len(entry.controls))
      <4>1. Items[Place(b)] \in ToSet(entry.manuals)
        BY <1>1, <1>3, <2>1, <3>2 DEF Answered, ItemsFacts
      <4>2. Items[b].id \in {m.id : m \in ToSet(entry.manuals)}
        BY <1>3, <2>1, <4>1
      <4> QED
        BY <2>3, <4>2 DEF a, b
    <3> QED
      BY <3>1, <3>2
  <2> QED
    BY <1>5, <2>1, <2>2, <2>3
<1> QED
  BY <1>11, <1>12, <1>13 DEF bad

(* So a document adds up.                                                    *)
LEMMA DocumentTells ==
  ASSUME Inv, DocumentInv
  PROVE  CoverageAddsUp
<1> SUFFICES ASSUME document # Absent PROVE CoverageAddsUp
  BY DEF CoverageAddsUp
<1> DEFINE areas == build_coverage
           counts == summary.count
           open == {j \in DOMAIN results : results[j] \in {"NOT_ASSESSED", "ERROR"}}
           bad == {j \in DOMAIN results : results[j] \in {"FAIL", "WARNING"}}
<1>1. /\ stage = "documented" /\ results \in Seq(Statuses) /\ Len(results) = Len(Items)
      /\ document = [coverage |-> build_coverage, summary |-> summary, findings |-> findings, scope |-> scope]
      /\ load_definition(entry)
      /\ entry.controls \in Seq(ToSet(entry.controls))
      /\ entry.manuals \in Seq({m \in ToSet(entry.manuals) : ~m.automated})
      /\ \A j \in DOMAIN results : ~Items[j].automated => results[j] \in {"NOT_ASSESSED", "NOT_APPLICABLE"}
  BY DEF DocumentInv, Inv, JudgedInv
<1>2. ItemsFacts
  BY <1>1, ItemsAre
<1>3. Answered
  BY <1>1, <1>2 DEF Answered
<1>4. FoundAmongControls
  <2>1. \A j \in With({"FAIL", "WARNING"}) : j \in DOMAIN results /\ Items[j].automated
    BY <1>1 DEF With
  <2>2. DOMAIN results = 1 .. Len(Items)
    BY <1>3, AnswersAre
  <2> QED
    BY <1>2, <2>1, <2>2 DEF FoundAmongControls, ItemsFacts
<1>5. /\ bad = With({"FAIL", "WARNING"}) /\ open = With(Unevaluated)
      /\ \A s, S : Of(s) \cap With(S) = {j \in DOMAIN results : Items[j].section = s /\ results[j] \in S}
  BY DEF With, Of, Unevaluated
<1>6. /\ areas = [s \in coverage_sections |->
                   [status |-> AreaStatus(s),
                    assessed |-> Cardinality(Of(s) \cap With(Assessed)),
                    applicable |-> Cardinality(Of(s) \cap With(Assessed \cup Unevaluated)),
                    affected |-> {Items[j].id : j \in Of(s) \cap With(Unevaluated)}]]
      /\ counts = [s \in Statuses |-> Cardinality(With({s}))] /\ summary.total = Len(results)
      /\ summary.severity = [v \in ToSet(Severities) |-> Cardinality({j \in With({"FAIL", "WARNING"}) : Items[j].severity = v})]
  BY DEF build_coverage, summary
<1> DEFINE P1 == Sum(counts) = summary.total
           P2 == Sum([s \in DOMAIN areas |-> areas[s].assessed]) = counts["PASS"] + counts["FAIL"] + counts["WARNING"]
           P3 == Sum([s \in DOMAIN areas |-> areas[s].applicable]) = summary.total - counts["NOT_APPLICABLE"]
           P4 == UNION {areas[s].affected : s \in DOMAIN areas} = {Items[j].id : j \in open}
           P5 == \A s \in DOMAIN areas : areas[s].status = "ASSESSED" <=> (areas[s].assessed = areas[s].applicable /\ areas[s].applicable > 0)
           P6 == \A s \in DOMAIN areas : s \notin scope <=> areas[s].applicable = 0
           P7 == Sum(summary.severity) = Cardinality(bad)
           P8 == ToSet(findings) = bad /\ IsInjective(findings)
           P9 == \A j, k \in DOMAIN findings :
                   j < k => \/ Rank(findings[j]) < Rank(findings[k])
                            \/ /\ Rank(findings[j]) = Rank(findings[k])
                               /\ \/ findings[j] < findings[k]
                                  \/ Items[findings[k]].id \in {m.id : m \in ToSet(entry.manuals)}
<1>7. P1
  BY <1>3, <1>6, CountsAddUp
<1> HIDE DEF areas, counts
<1>8. DOMAIN areas = coverage_sections
  BY <1>6
<1>9. P2
  <2>1. [s \in DOMAIN areas |-> areas[s].assessed] = [s \in coverage_sections |-> Cardinality(Of(s) \cap With(Assessed))]
    BY <1>6
  <2>2. Sum([s \in DOMAIN areas |-> areas[s].assessed]) = Cardinality(With(Assessed))
    BY <1>3, <2>1, AreasAddUp
  <2>3. \A s \in {"PASS", "FAIL", "WARNING"} : counts[s] = Cardinality(With({s}))
    BY <1>6 DEF Statuses
  <2> QED
    BY <1>3, <2>2, <2>3, StatusesAddUp
<1>10. P3
  <2>1. [s \in DOMAIN areas |-> areas[s].applicable] = [s \in coverage_sections |-> Cardinality(Of(s) \cap With(Assessed \cup Unevaluated))]
    BY <1>6
  <2>2. Sum([s \in DOMAIN areas |-> areas[s].applicable]) = Cardinality(With(Assessed \cup Unevaluated))
    BY <1>3, <2>1, AreasAddUp
  <2>3. counts["NOT_APPLICABLE"] = Cardinality(With({"NOT_APPLICABLE"}))
    BY <1>6 DEF Statuses
  <2> QED
    BY <1>3, <1>6, <2>2, <2>3, StatusesAddUp
<1>11. P4
  <2>1. \A s \in coverage_sections : areas[s].affected = {Items[j].id : j \in Of(s) \cap With(Unevaluated)}
    BY <1>6
  <2>2. \A j \in open : j \in Of(Items[j].section) \cap With(Unevaluated) /\ Items[j].section \in coverage_sections
    BY <1>3, <1>5, AnswersAre DEF Of, With
  <2>3. \A s : Of(s) \cap With(Unevaluated) \subseteq open
    BY <1>5
  <2> HIDE DEF open
  <2> QED
    BY <1>8, <2>1, <2>2, <2>3
<1>12. P5
  <2> SUFFICES ASSUME NEW s \in coverage_sections
               PROVE  areas[s].status = "ASSESSED" <=> (areas[s].assessed = areas[s].applicable /\ areas[s].applicable > 0)
    BY <1>8
  <2> DEFINE left == Of(s) \cap With(Unevaluated)
             done == Of(s) \cap With(Assessed)
  <2>1. /\ areas[s].status = AreaStatus(s) /\ areas[s].assessed = Cardinality(done)
        /\ areas[s].applicable = Cardinality(Of(s) \cap With(Assessed \cup Unevaluated))
    BY <1>6
  <2>2. Of(s) \cap With(Assessed \cup Unevaluated) = done \cup left /\ done \cap left = {}
    BY DEF With, Assessed, Unevaluated
  <2>3. AreaStatus(s) = "ASSESSED" <=> (left = {} /\ done # {})
    BY DEF AreaStatus
  <2>4. IsFiniteSet(done) /\ IsFiniteSet(left) /\ Cardinality(done) \in Nat /\ Cardinality(left) \in Nat
    BY <1>3, AnswersAre
  <2> HIDE DEF done, left
  <2>5. Cardinality(done \cup left) = Cardinality(done) + Cardinality(left)
    BY <2>2, <2>4, DisjointUnion
  <2>6. (Cardinality(left) = 0 <=> left = {}) /\ (Cardinality(done) = 0 <=> done = {})
    BY <2>4, FS_EmptySet
  <2>7. areas[s].applicable = Cardinality(done) + Cardinality(left)
    BY <2>1, <2>2, <2>5
  <2>8. (areas[s].assessed = areas[s].applicable /\ areas[s].applicable > 0) <=> (Cardinality(left) = 0 /\ Cardinality(done) # 0)
    BY <2>1, <2>4, <2>7
  <2> QED
    BY <2>1, <2>3, <2>6, <2>8, Zenon
<1>13. P6
  <2> SUFFICES ASSUME NEW s \in coverage_sections
               PROVE  s \notin scope <=> areas[s].applicable = 0
    BY <1>8
  <2>1. areas[s].applicable = Cardinality(Of(s) \cap With(Assessed \cup Unevaluated))
    BY <1>6
  <2>2. Statuses \ {"NOT_APPLICABLE"} = Assessed \cup Unevaluated
    BY DEF Statuses, Assessed, Unevaluated
  <2>3. s \in scope <=> Of(s) \cap With(Assessed \cup Unevaluated) # {}
    BY <2>2 DEF scope, Of, With
  <2>4. IsFiniteSet(Of(s) \cap With(Assessed \cup Unevaluated))
    BY <1>3, AnswersAre
  <2> QED
    BY <2>1, <2>3, <2>4, FS_EmptySet
<1>14. P7
  <2>1. \A j \in With({"FAIL", "WARNING"}) : Items[j].severity \in ToSet(Severities)
    <3>1. \A c \in ToSet(entry.controls) : c.severity \in ToSet(Severities)
      BY <1>1 DEF load_definition
    <3>2. \A j \in With({"FAIL", "WARNING"}) : Items[j] \in ToSet(entry.controls)
      BY <1>1, <1>4 DEF FoundAmongControls, ToSet
    <3> QED
      BY <3>1, <3>2
  <2> QED
    BY <1>3, <1>5, <1>6, <2>1, SeveritiesAddUp
<1>15. P8 /\ P9
  BY <1>1, <1>3, <1>4, <1>5, FindingsInOrder
<1>16. document.coverage = areas /\ document.summary = summary /\ document.findings = findings /\ document.scope = scope
  BY <1>1 DEF areas
<1>17. document.summary.count = counts
  BY <1>16 DEF counts
<1> DEFINE parts == document.coverage
           tally == document.summary.count
<1>18. /\ Sum(tally) = document.summary.total
       /\ Sum([s \in DOMAIN parts |-> parts[s].assessed]) = tally["PASS"] + tally["FAIL"] + tally["WARNING"]
       /\ Sum([s \in DOMAIN parts |-> parts[s].applicable]) = document.summary.total - tally["NOT_APPLICABLE"]
  BY <1>7, <1>9, <1>10, <1>16, <1>17
<1>19. UNION {parts[s].affected : s \in DOMAIN parts} = {Items[j].id : j \in open}
  BY <1>11, <1>16
<1>20. \A s \in DOMAIN parts : parts[s].status = "ASSESSED" <=> (parts[s].assessed = parts[s].applicable /\ parts[s].applicable > 0)
  BY <1>12, <1>16
<1>21. \A s \in DOMAIN parts : s \notin document.scope <=> parts[s].applicable = 0
  BY <1>13, <1>16
<1>22. Sum(document.summary.severity) = Cardinality(bad)
  BY <1>14, <1>16
<1>23. /\ ToSet(document.findings) = bad /\ IsInjective(document.findings)
       /\ \A j, k \in DOMAIN document.findings :
            j < k => \/ Rank(document.findings[j]) < Rank(document.findings[k])
                     \/ /\ Rank(document.findings[j]) = Rank(document.findings[k])
                        /\ \/ document.findings[j] < document.findings[k]
                           \/ Items[document.findings[k]].id \in {m.id : m \in ToSet(entry.manuals)}
  BY <1>15, <1>16
<1> QED
  BY ONLY <1>18, <1>19, <1>20, <1>21, <1>22, <1>23 DEF CoverageAddsUp

LEMMA DocumentInvInit == Init => DocumentInv
BY DEF Init, DocumentInv

(* The document is made of the answers, the definition and the command line. *)
LEMMA SameDocument ==
  ASSUME UNCHANGED <<results, entry, options>>
  PROVE  build_coverage' = build_coverage /\ summary' = summary /\ findings' = findings /\ scope' = scope
<1>1. Items' = Items /\ results' = results
  BY DEF Items
<1>2. coverage_sections' = coverage_sections
  BY <1>1 DEF coverage_sections
<1>3. \A s : Of(s)' = Of(s)
  BY <1>1 DEF Of
<1>4. \A S : With(S)' = With(S)
  BY <1>1 DEF With
<1>5. \A s : AreaStatus(s)' = AreaStatus(s)
  BY <1>3, <1>4 DEF AreaStatus
<1>6. build_coverage' = build_coverage
  BY <1>1, <1>2, <1>3, <1>4, <1>5 DEF build_coverage
<1>7. summary' = summary
  BY <1>1, <1>4 DEF summary
<1>8. \A j, k : Before(j, k)' = Before(j, k)
  <2>1. \A j : Rank(j)' = Rank(j)
    BY <1>1 DEF Rank, SelectInSeq
  <2>2. \A j : Place(j)' = Place(j)
    BY <1>1 DEF Place, SelectLastInSeq
  <2> QED
    BY <2>1, <2>2 DEF Before
<1>9. findings' = findings
  BY <1>4, <1>8 DEF findings
<1>10. scope' = scope
  BY <1>1, <1>4 DEF scope
<1> QED
  BY <1>6, <1>7, <1>9, <1>10

LEMMA DocumentInvStep == Inv /\ DocumentInv /\ [Next]_vars => DocumentInv'
<1> SUFFICES ASSUME Inv, DocumentInv, [Next]_vars PROVE DocumentInv'
  OBVIOUS
<1> USE DEF Stages
<1>1. CASE Detect
  BY <1>1 DEF Detect, DocumentInv
<1>2. CASE Select
  <2> DEFINE chosen == select_benchmark(catalog, info, options.path)
  <2>1. stage = "select" /\ UNCHANGED <<host, options, catalog, info, document, results>>
    BY <1>2 DEF Select, Refuse
  <2>2. \/ stage' = "refused"
        \/ stage' = "load" /\ chosen # Absent /\ entry' = chosen
    BY <1>2 DEF Select, Refuse
  <2>3. info = detect_platform(host) /\ host \in Hosts /\ options \in Options /\ catalog \in Catalogs
    BY <2>1 DEF Inv, SettledInv
  <2>4. chosen # Absent => /\ chosen.controls \in Seq(ToSet(chosen.controls))
                           /\ chosen.manuals \in Seq({m \in ToSet(chosen.manuals) : ~m.automated})
    BY <2>3, DefinitionAssumption
  <2> HIDE DEF chosen
  <2> QED
    BY <2>1, <2>2, <2>4 DEF DocumentInv
<1>3. CASE Load
  <2>1. /\ stage = "load" /\ UNCHANGED <<host, options, catalog, info, entry, warned, results, document>>
        /\ \/ stage' = "refused"
           \/ stage' \in {"listed", "confirm"} /\ load_definition(entry)
    BY <1>3 DEF Load, Refuse
  <2>2. load_definition(entry)' <=> load_definition(entry)
    BY <2>1 DEF load_definition
  <2> QED
    BY <2>1, <2>2 DEF DocumentInv
<1>4. CASE Confirm
  <2>1. /\ stage = "confirm" /\ stage' \in {"judge", "refused", "cancelled"}
        /\ UNCHANGED <<host, options, catalog, info, entry, results, document>>
    BY <1>4 DEF Confirm
  <2>2. results = <<>>
    BY <2>1 DEF Inv, JudgedInv
  <2>3. Items' = Items
    BY <2>1 DEF Items
  <2>4. load_definition(entry)' <=> load_definition(entry)
    BY <2>1 DEF load_definition
  <2>5. Len(Items) \in Nat
    BY <2>1, ItemsAre DEF DocumentInv, ItemsFacts
  <2> QED
    BY <2>1, <2>2, <2>3, <2>4, <2>5 DEF DocumentInv
<1>5. CASE Judge
  <2>1. /\ stage = "judge" /\ Len(results) < Len(Items)
        /\ UNCHANGED <<stage, host, options, catalog, info, entry, document>>
    BY <1>5 DEF Judge
  <2>2. PICK status : /\ status \in (IF ~Selected(Items[Len(results) + 1]) THEN {"NOT_APPLICABLE"}
                                     ELSE IF Items[Len(results) + 1].automated THEN Statuses ELSE {"NOT_ASSESSED"})
                      /\ results' = Append(results, status)
    BY <1>5 DEF Judge
  <2>3. Items' = Items
    BY <2>1 DEF Items
  <2>4. load_definition(entry)' <=> load_definition(entry)
    BY <2>1 DEF load_definition
  <2>5. Len(Items) \in Nat
    BY <2>1, ItemsAre DEF DocumentInv, ItemsFacts
  <2>6. results \in Seq(Statuses)
    BY DEF Inv, JudgedInv
  <2>7. /\ Len(results') = Len(results) + 1 /\ DOMAIN results' = 1 .. Len(results) + 1
        /\ \A j \in 1 .. Len(results) : results'[j] = results[j]
        /\ results'[Len(results) + 1] = status
    BY <2>2, <2>6
  <2>8. ASSUME NEW j \in DOMAIN results', ~Items[j].automated
        PROVE  results'[j] \in {"NOT_ASSESSED", "NOT_APPLICABLE"}
    <3>1. CASE j \in 1 .. Len(results)
      BY <2>1, <2>6, <2>7, <2>8, <3>1 DEF DocumentInv
    <3>2. CASE j = Len(results) + 1
      BY <2>2, <2>7, <2>8, <3>2
    <3> QED
      BY <2>6, <2>7, <3>1, <3>2
  <2> QED
    BY <2>1, <2>3, <2>4, <2>5, <2>6, <2>7, <2>8 DEF DocumentInv
<1>6. CASE Document
  <2>1. /\ stage = "judge" /\ stage' = "documented" /\ Len(results) = Len(Items)
        /\ UNCHANGED <<host, options, catalog, info, entry, warned, profile, allowed, results>>
        /\ document' = [coverage |-> build_coverage, summary |-> summary, findings |-> findings, scope |-> scope]
    BY <1>6 DEF Document
  <2>2. Items' = Items
    BY <2>1 DEF Items
  <2>3. load_definition(entry)' <=> load_definition(entry)
    BY <2>1 DEF load_definition
  <2>4. build_coverage' = build_coverage /\ summary' = summary /\ findings' = findings /\ scope' = scope
    BY <2>1, SameDocument
  <2> QED
    BY <2>1, <2>2, <2>3, <2>4 DEF DocumentInv
<1>7. CASE UNCHANGED vars
  <2>1. UNCHANGED <<stage, document, results, entry, options>>
    BY <1>7 DEF vars
  <2>2. build_coverage' = build_coverage /\ summary' = summary /\ findings' = findings /\ scope' = scope
    BY <2>1, SameDocument
  <2>3. Items' = Items
    BY <2>1 DEF Items
  <2>4. load_definition(entry)' <=> load_definition(entry)
    BY <2>1 DEF load_definition
  <2> QED
    BY <2>1, <2>2, <2>3, <2>4 DEF DocumentInv
<1> QED
  BY <1>1, <1>2, <1>3, <1>4, <1>5, <1>6, <1>7 DEF Next

(* For every host, catalog and command line the document adds up: its areas  *)
(* and its summary count each result once, what was left open is named, and the*)
(* findings are the failures and warnings, in the order of the report.       *)
THEOREM CoverageAddsUpHolds == Spec => []CoverageAddsUp
<1>1. Init => DocumentInv
  BY DocumentInvInit
<1> QED
  BY <1>1, InitInv, StepInv, DocumentInvStep, DocumentTells, PTL DEF Spec
=============================================================================
