--------------------------- MODULE CatalogProofs ----------------------------
(* Proofs about Catalog: whatever builders and audits do at once, and      *)
(* wherever a builder is killed, an audit reports hashes of its own time,  *)
(* is consistent when left alone, and fails only over a definition.        *)
EXTENDS Catalog, TLAPS

Present == {f \in Files : file[f] # Absent}
Catalogued == catalog \notin {Absent, Unparsable}
Building(b) == pc[b] \notin {"start", "done", "refused", "killed"}
Running(a) == pc[a] \notin {"start", "done", "refused"}
Agrees(e) == e.meta = e.hash.revision

(* A definition that was listed, catalogued or begun stays.                *)
OwnGround(p) ==
  /\ listed[p] \subseteq Present /\ Named(entries[p]) \subseteq Present
  /\ pc[p] = "hash" =>
       at[p] \in 1 .. Len(Order) /\ Here(p) \in listed[p] /\ Here(p) \in Named(entries[p])

WriteGround(b) ==
  /\ pc[b] \in {"writing", "written"} => Output[b] \in Present
  /\ pc[b] = "writing" => draft[b] \in Contents

Grounded ==
  /\ Present # {}
  /\ Catalogued => Named(catalog) \subseteq Present
  /\ \A p \in Procs : OwnGround(p)
  /\ \A b \in Builders : WriteGround(b)
  /\ \A a \in Audits : pc[a] \in {"load", "done"} => chosen[a] \in Named(entries[a])

(* What is on disk now an audit under way has on record.                   *)
Witnessed == \A a \in Audits : Running(a) => \A f \in Present : file[f] \in seen[a][f]

(* Without overlapping builds, metadata and hash are of one content.       *)
Orderly ==
  ~raced =>
    /\ \A b, c \in Builders : Building(b) /\ Building(c) => b = c
    /\ Catalogued => \A f \in Named(catalog) : Agrees(catalog[f])
    /\ \A b \in Builders :
         /\ \A f \in Named(entries[b]) : Agrees(entries[b][f])
         /\ pc[b] = "hash" => entries[b][Here(b)].meta = file[Here(b)].revision

(* The hash of an entry is of a content its file had during the audit, and *)
(* its metadata too, or of that very content.                              *)
Hashed(a, f) == entries[a][f].hash \in seen[a][f]
Dated(a, f) ==
  raced \/ Agrees(entries[a][f]) \/ \E c \in seen[a][f] : entries[a][f].meta = c.revision

Vouched(a) ==
  /\ pc[a] \in {"start", "read"} => at[a] = 1 /\ Named(entries[a]) = {}
  /\ \A f \in Named(entries[a]) : Dated(a, f)
  /\ pc[a] = "verify" => \A i \in 1 .. at[a] - 1 : Order[i] \in Named(entries[a]) => Hashed(a, Order[i])
  /\ pc[a] \in {"meta", "hash", "select", "load", "done"} => \A f \in Named(entries[a]) : Hashed(a, f)
  /\ pc[a] = "done" => loaded[a] \in seen[a][chosen[a]] /\ loaded[a].whole /\ loaded[a].valid

(* A file that came after the listing was seen torn, and whole before it   *)
(* could be catalogued; a file the scan left out was seen torn.            *)
SeenTorn(a, f) == \E c \in seen[a][f] : ~c.whole
SeenWhole(a, f) == \E c \in seen[a][f] : c.whole
InSomeCatalog(f) ==
  (Catalogued /\ f \in Named(catalog)) \/ \E p \in Procs : f \in Named(entries[p])

Blamed(a) ==
  /\ pc[a] # "start" => listed[a] # {}
  /\ Running(a) => \A f \in Present \ listed[a] :
       SeenTorn(a, f) /\ (InSomeCatalog(f) => SeenWhole(a, f))
  /\ pc[a] \in {"meta", "hash"} => \A i \in 1 .. at[a] - 1 :
       Order[i] \in listed[a] => Order[i] \in Named(entries[a]) \/ SeenTorn(a, Order[i])
  /\ pc[a] = "refused" /\ Quiet(a) =>
       \E f \in listed[a] : \E c \in seen[a][f] : ~(c.whole /\ c.valid)

-----------------------------------------------------------------------------
(* Contents and entries.                                                   *)
LEMMA ContentFacts ==
  /\ \A c \in Contents : c # Absent /\ c.revision \in Revisions /\ c.whole \in BOOLEAN /\ c.valid \in BOOLEAN
  /\ \A c \in Contents : Torn(c) \in Contents /\ ~Torn(c).whole
  /\ \A valid \in BOOLEAN : [revision |-> "new", whole |-> TRUE, valid |-> valid] \in Contents
  /\ Old \in Contents
BY CatalogAssumption DEF Contents, Torn, Revisions, Old

LEMMA EntryFacts ==
  /\ \A e \in Entry : e # Absent /\ e.hash \in Contents /\ e.meta \in Revisions
  /\ \A c \in Contents, m \in Revisions : [hash |-> c, meta |-> m] \in Entry
BY CatalogAssumption DEF Entry

LEMMA CurrentFacts ==
  ASSUME NEW f \in Files, file[f] \in Contents
  PROVE  /\ Current(f) \in Entry /\ Current(f).hash = file[f]
         /\ Current(f).meta = file[f].revision /\ Agrees(Current(f))
<1>1. file[f].revision \in Revisions
  BY ContentFacts
<1>2. Current(f).hash = file[f] /\ Current(f).meta = file[f].revision
  BY DEF Current
<1>3. Current(f) \in Entry
  BY <1>1, EntryFacts DEF Current
<1> QED
  BY <1>2, <1>3 DEF Agrees

LEMMA OrderFacts ==
  /\ Len(Order) \in Nat
  /\ \A i \in 1 .. Len(Order) : Order[i] \in Files
  /\ \A f \in Files : \E i \in 1 .. Len(Order) : f = Order[i]
BY CatalogAssumption

LEMMA NoEntriesFacts == NoEntries \in EntrySets /\ Named(NoEntries) = {}
BY DEF NoEntries, EntrySets, Maybe, Named

LEMMA HereFacts ==
  ASSUME TypeOK, NEW p \in Procs
  PROVE  /\ ~AtEnd(p) => /\ at[p] \in 1 .. Len(Order) /\ Here(p) \in Files
                         /\ at[p] + 1 \in 1 .. Len(Order) + 1
         /\ at[p] \in 1 .. Len(Order) => ~AtEnd(p)
BY OrderFacts DEF TypeOK, AtEnd, Here

LEMMA PutFacts ==
  ASSUME TypeOK, NEW f \in Files, NEW c \in Contents, Put(f, c)
  PROVE  /\ file' \in [Files -> Maybe(Contents)] /\ seen' \in [Audits -> [Files -> SUBSET Contents]]
         /\ file'[f] = c /\ (\A g \in Files \ {f} : file'[g] = file[g])
         /\ Present' = Present \cup {f}
         /\ \A a \in Audits : Running(a) => c \in seen'[a][f]
         /\ \A a \in Audits, g \in Files : seen[a][g] \subseteq seen'[a][g]
         /\ \A a \in Audits : ~Running(a) => seen'[a] = seen[a]
<1>1. file' \in [Files -> Maybe(Contents)] /\ file'[f] = c /\ (\A g \in Files \ {f} : file'[g] = file[g])
  BY DEF TypeOK, Put, Maybe
<1>2. Present' = Present \cup {f}
  BY <1>1, ContentFacts DEF Present
<1>3. ASSUME NEW a \in Audits
      PROVE  /\ seen'[a] \in [Files -> SUBSET Contents]
             /\ Running(a) => c \in seen'[a][f]
             /\ \A g \in Files : seen[a][g] \subseteq seen'[a][g]
             /\ ~Running(a) => seen'[a] = seen[a]
  <2>1. seen[a] \in [Files -> SUBSET Contents]
    BY DEF TypeOK
  <2>2. seen'[a] = IF Running(a) THEN [seen[a] EXCEPT ![f] = @ \cup {c}] ELSE seen[a]
    BY DEF Put, Running
  <2> QED
    BY <2>1, <2>2
<1>4. seen' \in [Audits -> [Files -> SUBSET Contents]]
  <2>1. DOMAIN seen' = Audits /\ seen' = [a \in Audits |-> seen'[a]]
    BY DEF Put
  <2> QED
    BY <1>3, <2>1
<1> QED
  BY <1>1, <1>2, <1>3, <1>4

-----------------------------------------------------------------------------
(* The steps, one process at a time.                                       *)
Act(p) == (p \in Builders /\ Build(p)) \/ (p \in Audits /\ Audit(p))

Others(p) ==
  /\ \A q \in Procs \ {p} :
       pc'[q] = pc[q] /\ at'[q] = at[q] /\ entries'[q] = entries[q] /\ listed'[q] = listed[q]
  /\ \A b \in Builders \ {p} : draft'[b] = draft[b]
  /\ \A a \in Audits \ {p} : chosen'[a] = chosen[a] /\ loaded'[a] = loaded[a]

LEMMA StepIsAct ==
  ASSUME [Next]_vars
  PROVE  (\E p \in Procs : Act(p)) \/ UNCHANGED vars
BY DEF Next, Act, Procs

LEMMA OthersStay ==
  ASSUME TypeOK, NEW p \in Procs, Act(p)
  PROVE  Others(p)
<1> USE DEF TypeOK, Procs, Others, Goto, Step, ListFiles, auditVars
<1>1. CASE p \in Builders /\ Build(p)
  <2>1. CASE BeginWrite(p) \/ EndWrite(p)
    BY <1>1, <2>1 DEF BeginWrite, EndWrite
  <2>2. CASE Validate(p)
    BY <1>1, <2>2 DEF Validate
  <2>3. CASE SkipAbsent(p) \/ ReadHash(p)
    BY <1>1, <2>3 DEF SkipAbsent, ReadHash
  <2>4. CASE ReadMeta(p)
    BY <1>1, <2>4 DEF ReadMeta
  <2>5. CASE BeginSave(p) \/ EndSave(p) \/ BuilderKilled(p)
    BY <1>1, <2>5 DEF BeginSave, EndSave, BuilderKilled
  <2> QED
    BY <1>1, <2>1, <2>2, <2>3, <2>4, <2>5 DEF Build
<1>2. CASE p \in Audits /\ Audit(p)
  <2>1. CASE BeginAudit(p)
    BY <1>2, <2>1 DEF BeginAudit
  <2>2. CASE ReadCatalog(p)
    BY <1>2, <2>2 DEF ReadCatalog, FallBack
  <2>3. CASE Verify(p)
    BY <1>2, <2>3 DEF Verify, FallBack
  <2>4. CASE Verified(p) \/ Scanned(p) \/ Select(p)
    BY <1>2, <2>4 DEF Verified, Scanned, Select
  <2>5. CASE ScanMeta(p)
    BY <1>2, <2>5 DEF ScanMeta
  <2>6. CASE ScanHash(p)
    BY <1>2, <2>6 DEF ScanHash
  <2>7. CASE Load(p)
    BY <1>2, <2>7 DEF Load
  <2> QED
    BY <1>2, <2>1, <2>2, <2>3, <2>4, <2>5, <2>6, <2>7 DEF Audit
<1> QED
  BY <1>1, <1>2 DEF Act

(* Two kinds of step write a definition, and only the torn beginning of    *)
(* one makes a file appear.                                                *)
Writes(b, c) ==
  /\ b \in Builders /\ c \in Contents /\ Put(Output[b], c)
  /\ ~c.whole \/ Output[b] \in Present

LEMMA WriteOrNot ==
  ASSUME TypeOK, Grounded, NEW p \in Procs, Act(p)
  PROVE  \/ \E c \in Contents : Writes(p, c) /\ catalog' = catalog /\ entries' = entries
                                 /\ listed' = listed /\ at' = at
         \/ file' = file /\ (seen' = seen \/ (p \in Audits /\ BeginAudit(p)))
<1>1. CASE p \in Builders /\ BeginWrite(p)
  <2>1. PICK valid \in BOOLEAN : LET c == [revision |-> "new", whole |-> TRUE, valid |-> valid]
                                 IN  Put(Output[p], Torn(c))
    BY <1>1 DEF BeginWrite
  <2> DEFINE c == [revision |-> "new", whole |-> TRUE, valid |-> valid]
  <2>2. c \in Contents
    BY ContentFacts
  <2>3. Put(Output[p], Torn(c))
    BY <2>1
  <2> HIDE DEF c
  <2>4. Torn(c) \in Contents /\ ~Torn(c).whole
    BY <2>2, ContentFacts
  <2> QED
    BY <1>1, <2>3, <2>4 DEF Writes, BeginWrite, auditVars
<1>2. CASE p \in Builders /\ EndWrite(p)
  <2>1. draft[p] \in Contents /\ Output[p] \in Present /\ Put(Output[p], draft[p])
    BY <1>2 DEF EndWrite, Grounded, WriteGround
  <2> QED
    BY <1>2, <2>1 DEF Writes, EndWrite, auditVars
<1>3. CASE p \in Builders /\ Build(p) /\ ~BeginWrite(p) /\ ~EndWrite(p)
  BY <1>3 DEF Build, Validate, SkipAbsent, ReadMeta, ReadHash, BeginSave, EndSave, BuilderKilled
<1>4. CASE p \in Audits /\ Audit(p)
  BY <1>4 DEF Audit, BeginAudit, ReadCatalog, Verify, Verified, ScanMeta, ScanHash, Scanned, Select, Load
<1> QED
  BY <1>1, <1>2, <1>3, <1>4 DEF Act

LEMMA Growth ==
  ASSUME TypeOK, Grounded, NEW p \in Procs, Act(p)
  PROVE  /\ file' \in [Files -> Maybe(Contents)] /\ seen' \in [Audits -> [Files -> SUBSET Contents]]
         /\ Present \subseteq Present' /\ (raced => raced')
         /\ \A a \in Audits : pc[a] # "start" => \A g \in Files : seen[a][g] \subseteq seen'[a][g]
         /\ \A a \in Audits : pc[a] # "start" /\ ~Running(a) => seen'[a] = seen[a]
         /\ \A a \in Audits : Running(a) => \A f \in Present' :
              (f \in Present /\ file'[f] = file[f]) \/ file'[f] \in seen'[a][f]
<1>1. raced => raced'
  BY DEF Act, Build, Audit, BeginWrite, EndWrite, Validate, SkipAbsent, ReadMeta, ReadHash, BeginSave,
     EndSave, BuilderKilled, BeginAudit, ReadCatalog, Verify, Verified, ScanMeta, ScanHash, Scanned, Select, Load
<1>2. ASSUME NEW c \in Contents, Writes(p, c)
      PROVE  /\ file' \in [Files -> Maybe(Contents)] /\ seen' \in [Audits -> [Files -> SUBSET Contents]]
             /\ Present \subseteq Present'
             /\ \A a \in Audits, g \in Files : seen[a][g] \subseteq seen'[a][g]
             /\ \A a \in Audits : ~Running(a) => seen'[a] = seen[a]
             /\ \A a \in Audits : Running(a) => \A f \in Present' :
                  (f \in Present /\ file'[f] = file[f]) \/ file'[f] \in seen'[a][f]
  <2>1. Output[p] \in Files /\ Put(Output[p], c)
    BY <1>2, CatalogAssumption DEF Writes
  <2>2. /\ file'[Output[p]] = c /\ (\A g \in Files \ {Output[p]} : file'[g] = file[g])
        /\ Present' = Present \cup {Output[p]} /\ Present \subseteq Files
        /\ \A a \in Audits : Running(a) => c \in seen'[a][Output[p]]
    BY <2>1, PutFacts DEF Present
  <2> QED
    BY <2>1, <2>2, PutFacts
<1>3. CASE file' = file /\ seen' = seen
  BY <1>1, <1>3 DEF TypeOK, Present
<1>4. CASE file' = file /\ p \in Audits /\ BeginAudit(p)
  <2> DEFINE now == [f \in Files |-> {file[f]} \ {Absent}]
  <2>1. now \in [Files -> SUBSET Contents]
    BY DEF TypeOK, Maybe
  <2> HIDE DEF now
  <2>2. seen' = [seen EXCEPT ![p] = now] /\ pc[p] = "start" /\ seen \in [Audits -> [Files -> SUBSET Contents]]
    BY <1>4 DEF BeginAudit, now, TypeOK
  <2>3. seen' \in [Audits -> [Files -> SUBSET Contents]]
    BY <2>1, <2>2
  <2>4. \A a \in Audits : pc[a] # "start" => seen'[a] = seen[a]
    BY <2>2
  <2> QED
    BY <1>1, <1>4, <2>3, <2>4 DEF TypeOK, Present, Running
<1> QED
  BY <1>1, <1>2, <1>3, <1>4, WriteOrNot

-----------------------------------------------------------------------------
(* Storing an entry keeps the entries well-formed.                         *)
LEMMA StoreFacts ==
  ASSUME TypeOK, NEW p \in Procs, NEW f \in Files, NEW e \in Entry,
         entries' = [entries EXCEPT ![p][f] = e]
  PROVE  /\ entries' \in [Procs -> EntrySets]
         /\ entries'[p][f] = e /\ Named(entries'[p]) = Named(entries[p]) \cup {f}
         /\ \A g \in Files \ {f} : entries'[p][g] = entries[p][g]
<1>1. entries \in [Procs -> EntrySets] /\ entries[p] \in [Files -> Maybe(Entry)]
  BY DEF TypeOK, EntrySets
<1>2. e \in Maybe(Entry) /\ e # Absent
  BY EntryFacts DEF Maybe
<1>3. entries' = [entries EXCEPT ![p] = [entries[p] EXCEPT ![f] = e]]
  BY <1>1
<1> DEFINE es == [entries[p] EXCEPT ![f] = e]
<1>4. es \in EntrySets /\ es[f] = e /\ (\A g \in Files \ {f} : es[g] = entries[p][g])
  BY <1>1, <1>2 DEF EntrySets
<1> HIDE DEF es
<1>5. entries'[p] = es
  BY <1>1, <1>3 DEF es
<1>6. Named(es) = Named(entries[p]) \cup {f}
  BY <1>2, <1>4 DEF Named
<1>7. entries' \in [Procs -> EntrySets]
  BY <1>1, <1>3, <1>4 DEF es
<1> QED
  BY <1>4, <1>5, <1>6, <1>7

(* Reading a definition's metadata stores its current entry; reading its   *)
(* hash again leaves the metadata.                                         *)
ReadsMeta(p) ==
  /\ ~AtEnd(p) /\ Here(p) \in listed[p] /\ file[Here(p)].whole /\ pc[p] = "meta"
  /\ entries' = [entries EXCEPT ![p][Here(p)] = Current(Here(p))] /\ Goto(p, "hash")
  /\ UNCHANGED <<file, at, listed, catalog, seen, raced, draft, source, warned, chosen, loaded>>

ReadsHash(p) ==
  /\ pc[p] = "hash" /\ Goto(p, "meta") /\ Step(p)
  /\ entries' = [entries EXCEPT ![p][Here(p)] = [hash |-> file[Here(p)], meta |-> @.meta]]
  /\ UNCHANGED <<file, listed, catalog, seen, raced, draft, source, warned, chosen, loaded>>

LEMMA ReadsMetaFacts ==
  ASSUME TypeOK, Grounded, NEW p \in Procs, ReadsMeta(p)
  PROVE  /\ Here(p) \in Files /\ Here(p) \in Present /\ file[Here(p)] \in Contents
         /\ at[p] \in 1 .. Len(Order)
         /\ entries' \in [Procs -> EntrySets] /\ entries'[p][Here(p)] = Current(Here(p))
         /\ Named(entries'[p]) = Named(entries[p]) \cup {Here(p)}
         /\ \A g \in Files \ {Here(p)} : entries'[p][g] = entries[p][g]
<1>1. at[p] \in 1 .. Len(Order) /\ Here(p) \in Files /\ Here(p) \in Present
  BY HereFacts DEF ReadsMeta, Grounded, OwnGround
<1>2. file[Here(p)] \in Contents
  BY <1>1 DEF TypeOK, Present, Maybe
<1>3. Current(Here(p)) \in Entry
  BY <1>1, <1>2, CurrentFacts
<1> QED
  BY <1>1, <1>2, <1>3, StoreFacts DEF ReadsMeta

LEMMA ReadsHashFacts ==
  ASSUME TypeOK, Grounded, NEW p \in Procs, ReadsHash(p)
  PROVE  /\ Here(p) \in Files /\ Here(p) \in Present /\ file[Here(p)] \in Contents
         /\ Here(p) \in Named(entries[p]) /\ at[p] \in 1 .. Len(Order)
         /\ at'[p] = at[p] + 1 /\ at[p] + 1 \in 1 .. Len(Order) + 1
         /\ entries' \in [Procs -> EntrySets]
         /\ entries'[p][Here(p)].hash = file[Here(p)]
         /\ entries'[p][Here(p)].meta = entries[p][Here(p)].meta
         /\ Named(entries'[p]) = Named(entries[p])
         /\ \A g \in Files \ {Here(p)} : entries'[p][g] = entries[p][g]
<1>1. /\ at[p] \in 1 .. Len(Order) /\ Here(p) \in listed[p] /\ Here(p) \in Named(entries[p])
      /\ listed[p] \subseteq Present
  BY DEF ReadsHash, Grounded, OwnGround
<1>2. Here(p) \in Present /\ Here(p) \in Files /\ at[p] + 1 \in 1 .. Len(Order) + 1
  BY <1>1, HereFacts DEF Present
<1>3. file[Here(p)] \in Contents /\ entries[p][Here(p)] \in Entry
  BY <1>1, <1>2 DEF TypeOK, Present, Maybe, Named, EntrySets
<1> DEFINE e == [hash |-> file[Here(p)], meta |-> entries[p][Here(p)].meta]
<1>4. e \in Entry /\ e.hash = file[Here(p)] /\ e.meta = entries[p][Here(p)].meta
  BY <1>3, EntryFacts
<1>5. entries' = [entries EXCEPT ![p][Here(p)] = e]
  BY DEF ReadsHash
<1>6. at'[p] = at[p] + 1
  BY DEF ReadsHash, Step, TypeOK
<1> HIDE DEF e
<1>7. /\ entries' \in [Procs -> EntrySets]
      /\ entries'[p][Here(p)] = e /\ Named(entries'[p]) = Named(entries[p]) \cup {Here(p)}
      /\ \A g \in Files \ {Here(p)} : entries'[p][g] = entries[p][g]
  BY <1>2, <1>4, <1>5, StoreFacts
<1> QED
  BY <1>1, <1>2, <1>3, <1>4, <1>6, <1>7

LEMMA ReadSteps ==
  ASSUME NEW p \in Procs
  PROVE  /\ ReadMeta(p) => ReadsMeta(p)
                         \/ (/\ pc[p] = "meta" /\ Goto(p, "refused")
                             /\ UNCHANGED <<entries, raced, file, catalog, at, draft, auditVars, seen>>)
         /\ ScanMeta(p) => ReadsMeta(p)
                         \/ (/\ pc[p] = "meta" /\ ~AtEnd(p) /\ Step(p)
                             /\ ~(Here(p) \in listed[p] /\ file[Here(p)].whole)
                             /\ UNCHANGED <<entries, pc, raced, file, catalog, draft, listed, source,
                                            warned, chosen, loaded, seen>>)
         /\ ReadHash(p) \/ ScanHash(p) => ReadsHash(p)
BY DEF ReadMeta, ScanMeta, ReadHash, ScanHash, ReadsMeta, ReadsHash, auditVars

LEMMA BuildTypes ==
  ASSUME TypeOK, Grounded, NEW b \in Builders, Build(b)
  PROVE  TypeOK'
<1> USE DEF Goto, Step, ListFiles, auditVars
<1>0. /\ b \in Procs /\ file' \in [Files -> Maybe(Contents)]
      /\ seen' \in [Audits -> [Files -> SUBSET Contents]]
  BY Growth DEF Act, Procs
<1>1. CASE BeginWrite(b)
  <2>1. PICK valid \in BOOLEAN :
          draft' = [draft EXCEPT ![b] = [revision |-> "new", whole |-> TRUE, valid |-> valid]]
    BY <1>1 DEF BeginWrite
  <2>2. draft' \in [Builders -> Maybe(Contents)]
    BY <2>1, ContentFacts DEF TypeOK, Maybe
  <2>3. raced' \in BOOLEAN
    BY <1>1 DEF BeginWrite
  <2> QED
    BY <1>0, <1>1, <2>2, <2>3 DEF TypeOK, BeginWrite
<1>2. CASE EndWrite(b)
  BY <1>0, <1>2 DEF TypeOK, EndWrite
<1>3. CASE Validate(b)
  BY <1>0, <1>3 DEF TypeOK, Validate
<1>4. CASE SkipAbsent(b)
  BY <1>0, <1>4, HereFacts DEF TypeOK, SkipAbsent
<1>5. CASE ReadMeta(b)
  <2>1. CASE ReadsMeta(b)
    BY <1>0, <2>1, ReadsMetaFacts DEF TypeOK, ReadsMeta
  <2>2. CASE ~ReadsMeta(b)
    <3>1. Goto(b, "refused") /\ UNCHANGED <<entries, raced, file, catalog, at, draft, auditVars, seen>>
      BY <1>0, <1>5, <2>2, ReadSteps
    <3> QED
      BY <1>0, <3>1 DEF TypeOK
  <2> QED
    BY <2>1, <2>2
<1>6. CASE ReadHash(b)
  <2>1. ReadsHash(b)
    BY <1>0, <1>6, ReadSteps
  <2> QED
    BY <1>0, <2>1, ReadsHashFacts DEF TypeOK, ReadsHash
<1>7. CASE BeginSave(b)
  BY <1>0, <1>7 DEF TypeOK, BeginSave
<1>8. CASE EndSave(b)
  BY <1>0, <1>8 DEF TypeOK, EndSave
<1>9. CASE BuilderKilled(b)
  BY <1>0, <1>9 DEF TypeOK, BuilderKilled
<1> QED
  BY <1>1, <1>2, <1>3, <1>4, <1>5, <1>6, <1>7, <1>8, <1>9 DEF Build

LEMMA FallBackFacts ==
  ASSUME TypeOK, NEW a \in Audits, NEW warns \in BOOLEAN, FallBack(a, warns)
  PROVE  /\ source' \in [Audits -> {"catalog", "definitions", Absent}] /\ warned' \in [Audits -> BOOLEAN]
         /\ entries' \in [Procs -> EntrySets] /\ at' \in [Procs -> 1 .. Len(Order) + 1]
         /\ entries'[a] = NoEntries /\ Named(entries'[a]) = {} /\ at'[a] = 1 /\ pc'[a] = "meta"
         /\ Goto(a, "meta")
<1>1. 1 \in 1 .. Len(Order) + 1
  BY OrderFacts
<1>2. a \in Procs
  BY DEF Procs
<1> QED
  BY <1>1, <1>2, NoEntriesFacts DEF TypeOK, FallBack, Goto

LEMMA AuditTypes ==
  ASSUME TypeOK, Grounded, NEW a \in Audits, Audit(a)
  PROVE  TypeOK'
<1> USE DEF Goto, Step, ListFiles
<1>0. /\ a \in Procs /\ file' \in [Files -> Maybe(Contents)]
      /\ seen' \in [Audits -> [Files -> SUBSET Contents]]
  BY Growth DEF Act, Procs
<1>1. CASE BeginAudit(a)
  BY <1>0, <1>1 DEF TypeOK, BeginAudit
<1>2. CASE ReadCatalog(a)
  <2>1. ASSUME NEW warns \in BOOLEAN, FallBack(a, warns) PROVE TypeOK'
    BY <1>0, <1>2, <2>1, FallBackFacts DEF TypeOK, ReadCatalog
  <2>2. CASE /\ catalog \notin {Absent, Unparsable} /\ entries' = [entries EXCEPT ![a] = catalog]
             /\ Goto(a, "verify") /\ UNCHANGED <<at, source, warned>>
    BY <1>0, <1>2, <2>2 DEF TypeOK, ReadCatalog
  <2> QED
    BY <1>2, <2>1, <2>2 DEF ReadCatalog
<1>3. CASE Verify(a)
  <2>1. CASE FallBack(a, TRUE)
    BY <1>0, <1>3, <2>1, FallBackFacts DEF TypeOK, Verify
  <2>2. CASE Step(a) /\ UNCHANGED <<pc, entries, source, warned>>
    BY <1>0, <1>3, <2>2, HereFacts DEF TypeOK, Verify
  <2> QED
    BY <1>3, <2>1, <2>2 DEF Verify
<1>4. CASE Verified(a)
  BY <1>0, <1>4 DEF TypeOK, Verified
<1>5. CASE ScanMeta(a)
  <2>1. CASE ReadsMeta(a)
    BY <1>0, <2>1, ReadsMetaFacts DEF TypeOK, ReadsMeta
  <2>2. CASE ~ReadsMeta(a)
    <3>1. /\ ~AtEnd(a) /\ Step(a)
          /\ UNCHANGED <<entries, pc, raced, file, catalog, draft, listed, source, warned, chosen, loaded, seen>>
      BY <1>0, <1>5, <2>2, ReadSteps
    <3> QED
      BY <1>0, <3>1, HereFacts DEF TypeOK
  <2> QED
    BY <2>1, <2>2
<1>6. CASE ScanHash(a)
  <2>1. ReadsHash(a)
    BY <1>0, <1>6, ReadSteps
  <2> QED
    BY <1>0, <2>1, ReadsHashFacts DEF TypeOK, ReadsHash
<1>7. CASE Scanned(a)
  BY <1>0, <1>7 DEF TypeOK, Scanned
<1>8. CASE Select(a)
  BY <1>0, <1>8 DEF TypeOK, Select, Named, Maybe
<1>9. CASE Load(a)
  <2>1. chosen[a] \in Files
    BY <1>9 DEF Load, Grounded, Named
  <2>2. file[chosen[a]] \in Maybe(Contents)
    BY <2>1 DEF TypeOK
  <2>3. \/ loaded' = [loaded EXCEPT ![a] = file[chosen[a]]] /\ Goto(a, "done")
        \/ loaded' = loaded /\ Goto(a, "refused")
    BY <1>9 DEF Load
  <2>4. loaded' \in [Audits -> Maybe(Contents)]
    BY <2>2, <2>3 DEF TypeOK
  <2>5. pc' \in [Procs -> {"start", "writing", "written", "meta", "hash", "save", "saving",
                            "read", "verify", "select", "load", "done", "refused", "killed"}]
    BY <1>0, <2>3 DEF TypeOK
  <2> QED
    BY <1>0, <1>9, <2>4, <2>5 DEF TypeOK, Load
<1> QED
  BY <1>1, <1>2, <1>3, <1>4, <1>5, <1>6, <1>7, <1>8, <1>9 DEF Audit

-----------------------------------------------------------------------------
LEMMA OthersGround ==
  ASSUME TypeOK, Grounded, NEW p \in Procs, Act(p)
  PROVE  /\ Present' # {}
         /\ \A q \in Procs \ {p} : OwnGround(q)'
         /\ \A b \in Builders \ {p} : WriteGround(b)'
         /\ \A a \in Audits \ {p} : pc'[a] \in {"load", "done"} => chosen'[a] \in Named(entries'[a])
<1>1. Others(p) /\ Present \subseteq Present'
  BY OthersStay, Growth
<1>2. Present' # {}
  BY <1>1 DEF Grounded
<1>3. ASSUME NEW q \in Procs, q # p PROVE OwnGround(q)'
  <2>1. pc'[q] = pc[q] /\ at'[q] = at[q] /\ entries'[q] = entries[q] /\ listed'[q] = listed[q]
    BY <1>1, <1>3 DEF Others
  <2> QED
    BY <1>1, <2>1 DEF Grounded, OwnGround, Named, Here
<1>4. ASSUME NEW b \in Builders, b # p PROVE WriteGround(b)'
  <2>1. pc'[b] = pc[b] /\ draft'[b] = draft[b]
    BY <1>1, <1>4 DEF Others, Procs
  <2> QED
    BY <1>1, <2>1 DEF Grounded, WriteGround
<1>5. ASSUME NEW a \in Audits, a # p
      PROVE  pc'[a] \in {"load", "done"} => chosen'[a] \in Named(entries'[a])
  <2>1. pc'[a] = pc[a] /\ entries'[a] = entries[a] /\ chosen'[a] = chosen[a]
    BY <1>1, <1>5 DEF Others, Procs
  <2> QED
    BY <2>1 DEF Grounded, Named
<1> QED
  BY <1>2, <1>3, <1>4, <1>5

LEMMA BuildGround ==
  ASSUME TypeOK, Grounded, NEW b \in Builders, Build(b)
  PROVE  Grounded'
<1>0. /\ b \in Procs /\ Act(b) /\ Present \subseteq Present' /\ b \notin Audits
      /\ OwnGround(b) /\ WriteGround(b) /\ (Catalogued => Named(catalog) \subseteq Present)
  BY Growth, CatalogAssumption DEF Act, Procs, Grounded
<1>1. ASSUME OwnGround(b)', WriteGround(b)', Catalogued' => Named(catalog') \subseteq Present'
      PROVE  Grounded'
  BY <1>0, <1>1, OthersGround DEF Grounded, Named
<1>2. ASSUME UNCHANGED catalog PROVE Catalogued' => Named(catalog') \subseteq Present'
  BY <1>0, <1>2 DEF Catalogued, Named
<1>3. CASE BeginWrite(b)
  <2>1. PICK valid \in BOOLEAN :
          Put(Output[b], Torn([revision |-> "new", whole |-> TRUE, valid |-> valid]))
    BY <1>3 DEF BeginWrite
  <2>2. Torn([revision |-> "new", whole |-> TRUE, valid |-> valid]) \in Contents /\ Output[b] \in Files
    BY ContentFacts, CatalogAssumption
  <2>3. Output[b] \in Present'
    BY <2>1, <2>2, PutFacts
  <2>4. draft'[b] \in Contents
    BY <1>3, ContentFacts DEF BeginWrite, TypeOK
  <2>5. pc'[b] = "writing" /\ UNCHANGED <<catalog, entries, listed>>
    BY <1>0, <1>3 DEF BeginWrite, Goto, TypeOK, auditVars
  <2> QED
    BY <1>0, <1>1, <1>2, <2>3, <2>4, <2>5 DEF OwnGround, WriteGround, Named
<1>4. CASE EndWrite(b)
  <2>1. pc[b] = "writing" /\ pc'[b] = "written" /\ UNCHANGED <<catalog, entries, listed>>
    BY <1>0, <1>4 DEF EndWrite, Goto, TypeOK, auditVars
  <2> QED
    BY <1>0, <1>1, <1>2, <2>1 DEF OwnGround, WriteGround, Named
<1>5. CASE Validate(b)
  <2>1. pc'[b] \in {"meta", "refused"} /\ listed'[b] = Present /\ UNCHANGED <<catalog, entries>>
    BY <1>0, <1>5 DEF Validate, Goto, TypeOK, ListFiles, Present
  <2> QED
    BY <1>0, <1>1, <1>2, <2>1 DEF OwnGround, WriteGround, Named
<1>6. CASE SkipAbsent(b)
  <2>1. pc[b] = "meta" /\ UNCHANGED <<pc, catalog, entries, listed>>
    BY <1>6 DEF SkipAbsent, auditVars
  <2> QED
    BY <1>0, <1>1, <1>2, <2>1 DEF OwnGround, WriteGround, Named
<1>7. CASE ReadsMeta(b)
  <2>1. pc'[b] = "hash" /\ UNCHANGED <<catalog, listed, at, file>> /\ Here(b) \in listed[b]
    BY <1>0, <1>7 DEF ReadsMeta, Goto, TypeOK
  <2> QED
    BY <1>0, <1>1, <1>2, <1>7, <2>1, ReadsMetaFacts DEF OwnGround, WriteGround, Named, Here, Present
<1>8. CASE ReadsHash(b)
  <2>1. pc'[b] = "meta" /\ UNCHANGED <<catalog, listed>>
    BY <1>0, <1>8 DEF ReadsHash, Goto, TypeOK
  <2> QED
    BY <1>0, <1>1, <1>2, <1>8, <2>1, ReadsHashFacts DEF OwnGround, WriteGround, Named
<1>9. CASE ReadMeta(b) /\ ~ReadsMeta(b)
  <2>1. pc'[b] = "refused" /\ UNCHANGED <<catalog, listed, entries>>
    <3>1. Goto(b, "refused") /\ UNCHANGED <<entries, raced, file, catalog, at, draft, auditVars, seen>>
      BY <1>0, <1>9, ReadSteps
    <3> QED
      BY <1>0, <3>1 DEF Goto, TypeOK, auditVars
  <2> QED
    BY <1>0, <1>1, <1>2, <2>1 DEF OwnGround, WriteGround, Named
<1>10. CASE BeginSave(b)
  <2>1. pc'[b] = "saving" /\ ~Catalogued' /\ UNCHANGED <<listed, entries>>
    BY <1>0, <1>10 DEF BeginSave, Goto, TypeOK, auditVars, Catalogued
  <2> QED
    BY <1>0, <1>1, <2>1 DEF OwnGround, WriteGround, Named
<1>11. CASE EndSave(b)
  <2>1. pc'[b] = "done" /\ catalog' = entries[b] /\ UNCHANGED <<listed, entries>>
    BY <1>0, <1>11 DEF EndSave, Goto, TypeOK, auditVars
  <2> QED
    BY <1>0, <1>1, <2>1 DEF OwnGround, WriteGround, Named
<1>12. CASE BuilderKilled(b)
  <2>1. pc'[b] = "killed" /\ UNCHANGED <<listed, entries, catalog>>
    BY <1>0, <1>12 DEF BuilderKilled, Goto, TypeOK, auditVars
  <2> QED
    BY <1>0, <1>1, <1>2, <2>1 DEF OwnGround, WriteGround, Named
<1> QED
  BY <1>0, <1>3, <1>4, <1>5, <1>6, <1>7, <1>8, <1>9, <1>10, <1>11, <1>12, ReadSteps DEF Build

LEMMA AuditGround ==
  ASSUME TypeOK, Grounded, NEW a \in Audits, Audit(a)
  PROVE  Grounded'
<1>0. /\ a \in Procs /\ Act(a) /\ Present \subseteq Present' /\ a \notin Builders
      /\ OwnGround(a) /\ (Catalogued => Named(catalog) \subseteq Present)
      /\ pc[a] \in {"load", "done"} => chosen[a] \in Named(entries[a])
      /\ catalog' = catalog
  BY Growth, CatalogAssumption DEF Act, Procs, Grounded, Audit, BeginAudit, ReadCatalog, Verify, Verified,
     ScanMeta, ScanHash, Scanned, Select, Load
<1>1. ASSUME OwnGround(a)', pc'[a] \in {"load", "done"} => chosen'[a] \in Named(entries'[a])
      PROVE  Grounded'
  BY <1>0, <1>1, OthersGround DEF Grounded, Named, Catalogued
<1>2. ASSUME NEW warns \in BOOLEAN, FallBack(a, warns), listed' = listed PROVE Grounded'
  BY <1>0, <1>1, <1>2, FallBackFacts DEF OwnGround, Named
<1>3. CASE BeginAudit(a)
  <2>1. pc'[a] = "read" /\ listed'[a] = Present /\ entries' = entries
    BY <1>0, <1>3 DEF BeginAudit, Goto, TypeOK, ListFiles, Present
  <2> QED
    BY <1>0, <1>1, <2>1 DEF OwnGround, Named
<1>4. CASE ReadCatalog(a)
  <2>1. listed' = listed
    BY <1>4 DEF ReadCatalog
  <2>2. CASE Catalogued /\ entries' = [entries EXCEPT ![a] = catalog] /\ Goto(a, "verify")
    <3>1. pc'[a] = "verify" /\ entries'[a] = catalog
      BY <1>0, <2>2 DEF Goto, TypeOK
    <3> QED
      BY <1>0, <1>1, <2>1, <2>2, <3>1 DEF OwnGround, Named
  <2> QED
    BY <1>2, <1>4, <2>1, <2>2 DEF ReadCatalog, Catalogued
<1>5. CASE Verify(a)
  <2>1. listed' = listed
    BY <1>5 DEF Verify
  <2>2. CASE UNCHANGED <<pc, entries>>
    BY <1>0, <1>1, <1>5, <2>1, <2>2 DEF OwnGround, Verify, Named
  <2> QED
    BY <1>2, <1>5, <2>1, <2>2 DEF Verify
<1>6. CASE Verified(a) \/ Scanned(a)
  <2>1. pc'[a] \in {"select", "refused"} /\ UNCHANGED <<listed, entries>>
    BY <1>0, <1>6 DEF Verified, Scanned, Goto, TypeOK
  <2> QED
    BY <1>0, <1>1, <2>1 DEF OwnGround, Named
<1>7. CASE ReadsMeta(a)
  <2>1. pc'[a] = "hash" /\ UNCHANGED <<listed, at, file>> /\ Here(a) \in listed[a]
    BY <1>0, <1>7 DEF ReadsMeta, Goto, TypeOK
  <2> QED
    BY <1>0, <1>1, <1>7, <2>1, ReadsMetaFacts DEF OwnGround, Named, Here, Present
<1>8. CASE ReadsHash(a)
  <2>1. pc'[a] = "meta" /\ UNCHANGED listed
    BY <1>0, <1>8 DEF ReadsHash, Goto, TypeOK
  <2> QED
    BY <1>0, <1>1, <1>8, <2>1, ReadsHashFacts DEF OwnGround, Named
<1>9. CASE ScanMeta(a) /\ ~ReadsMeta(a)
  <2>1. pc[a] = "meta" /\ UNCHANGED <<pc, listed, entries>>
    BY <1>0, <1>9, ReadSteps
  <2> QED
    BY <1>0, <1>1, <2>1 DEF OwnGround, Named
<1>10. CASE Select(a)
  <2>1. PICK f \in Named(entries[a]) : chosen' = [chosen EXCEPT ![a] = f]
    BY <1>10 DEF Select
  <2>2. chosen'[a] = f /\ pc'[a] = "load" /\ UNCHANGED <<listed, entries>>
    BY <1>0, <1>10, <2>1 DEF Select, Goto, TypeOK
  <2> QED
    BY <1>0, <1>1, <2>1, <2>2 DEF OwnGround, Named
<1>11. CASE Load(a)
  <2>1. pc[a] = "load" /\ pc'[a] \in {"done", "refused"} /\ UNCHANGED <<listed, entries, chosen>>
    BY <1>0, <1>11 DEF Load, Goto, TypeOK
  <2> QED
    BY <1>0, <1>1, <2>1 DEF OwnGround, Named
<1> QED
  BY <1>0, <1>3, <1>4, <1>5, <1>6, <1>7, <1>8, <1>9, <1>10, <1>11, ReadSteps DEF Audit

Sound == TypeOK /\ Grounded

LEMMA SoundStep == ASSUME Sound, NEW p \in Procs, Act(p) PROVE Sound'
BY BuildTypes, BuildGround, AuditTypes, AuditGround DEF Sound, Act

LEMMA SoundInvariance == Spec => []Sound
<1>1. Init => Sound
  <2> SUFFICES ASSUME Init PROVE Sound
    OBVIOUS
  <2>1. file \in [Files -> {Old, Absent}] /\ file \in [Files -> Maybe(Contents)]
    BY ContentFacts DEF Init, Maybe
  <2>2. catalog # Absent => catalog \in EntrySets /\ Named(catalog) \subseteq Present
    <3> SUFFICES ASSUME catalog # Absent
                 PROVE  catalog \in EntrySets /\ Named(catalog) \subseteq Present
      OBVIOUS
    <3>1. catalog = [f \in Files |-> IF file[f] = Absent THEN Absent ELSE Current(f)]
      BY DEF Init
    <3>2. \A f \in Files : file[f] # Absent => Current(f) \in Entry
      BY <2>1, CurrentFacts DEF Maybe
    <3> QED
      BY <3>1, <3>2 DEF EntrySets, Maybe, Named, Present
  <2>3. /\ pc = [p \in Procs |-> "start"] /\ at = [p \in Procs |-> 1]
        /\ entries = [p \in Procs |-> NoEntries] /\ listed = [p \in Procs |-> {}]
        /\ seen = [a \in Audits |-> [f \in Files |-> {}]] /\ \E f \in Files : file[f] # Absent
    BY DEF Init
  <2>4. TypeOK
    <3>1. catalog \in EntrySets \cup {Unparsable, Absent}
      BY <2>2
    <3>2. 1 \in 1 .. Len(Order) + 1
      BY OrderFacts
    <3>3. entries \in [Procs -> EntrySets] /\ at \in [Procs -> 1 .. Len(Order) + 1]
      BY <2>3, <3>2, NoEntriesFacts
    <3>4. /\ draft \in [Builders -> Maybe(Contents)] /\ chosen \in [Audits -> Maybe(Files)]
          /\ loaded \in [Audits -> Maybe(Contents)]
          /\ source \in [Audits -> {"catalog", "definitions", Absent}]
      BY DEF Init, Maybe
    <3>5. /\ listed \in [Procs -> SUBSET Files] /\ warned \in [Audits -> BOOLEAN]
          /\ seen \in [Audits -> [Files -> SUBSET Contents]] /\ raced \in BOOLEAN
      BY DEF Init
    <3> QED
      BY <2>1, <2>3, <3>1, <3>3, <3>4, <3>5 DEF TypeOK
  <2>5. Grounded
    BY <2>2, <2>3, NoEntriesFacts, CatalogAssumption
       DEF Grounded, OwnGround, WriteGround, Catalogued, Procs, Present
  <2> QED
    BY <2>4, <2>5 DEF Sound
<1>2. Sound /\ [Next]_vars => Sound'
  <2>1. Sound /\ UNCHANGED vars => Sound'
    BY DEF Sound, TypeOK, Grounded, OwnGround, WriteGround, Catalogued, Present, Named, Here, vars
  <2> QED
    BY <2>1, SoundStep, StepIsAct
<1> QED
  BY <1>1, <1>2, PTL DEF Spec

(* No interleaving of builders and audits, nor a builder killed half-way,  *)
(* leaves a value of another kind: a listed definition stays to be read,   *)
(* and the file an audit loads is one it has an entry of                   *)
(* (platform.py:268-292, build_benchmark_definition.py:285-307).           *)
THEOREM TypeCorrect == Spec => []TypeOK
BY SoundInvariance, PTL DEF Sound

-----------------------------------------------------------------------------
(* Builds that do not overlap keep metadata and hash together.             *)
LEMMA OrderlyBuild ==
  ASSUME Sound, Orderly, NEW b \in Builders, Build(b)
  PROVE  Orderly'
<1> SUFFICES ASSUME ~raced' PROVE Orderly'
  BY DEF Orderly
<1> USE DEF Sound
<1>0. TypeOK /\ Grounded /\ b \in Procs /\ Act(b) /\ Others(b) /\ Builders \subseteq Procs /\ ~raced
  BY Growth, OthersStay DEF Act, Procs
<1>1. /\ \A p, q \in Builders : Building(p) /\ Building(q) => p = q
      /\ Catalogued => \A f \in Named(catalog) : Agrees(catalog[f])
      /\ \A p \in Builders :
           /\ \A f \in Named(entries[p]) : Agrees(entries[p][f])
           /\ pc[p] = "hash" => entries[p][Here(p)].meta = file[Here(p)].revision
  BY <1>0 DEF Orderly
<1>2. \A q \in Builders \ {b} : pc'[q] = pc[q] /\ at'[q] = at[q] /\ entries'[q] = entries[q]
  BY <1>0 DEF Others
<1>3. \A q \in Builders \ {b} : ~Building(q)
  <2>1. CASE BeginWrite(b)
    BY <1>0, <2>1 DEF BeginWrite, Building
  <2>2. CASE ~BeginWrite(b)
    <3>1. Building(b)
      BY <2>2 DEF Build, Building, EndWrite, Validate, SkipAbsent, ReadMeta, ReadHash, BeginSave, EndSave, BuilderKilled
    <3> QED
      BY <1>1, <3>1
  <2> QED
    BY <2>1, <2>2
<1>4. ASSUME \A f \in Named(entries'[b]) : Agrees(entries'[b][f]),
             Catalogued' => \A f \in Named(catalog') : Agrees(catalog'[f]),
             pc'[b] = "hash" => entries'[b][Here(b)'].meta = file'[Here(b)'].revision
      PROVE  Orderly'
  <2>1. \A p, q \in Builders : Building(p)' /\ Building(q)' => p = q
    BY <1>2, <1>3 DEF Building
  <2>2. \A p \in Builders : \A f \in Named(entries'[p]) : Agrees(entries'[p][f])
    BY <1>1, <1>2, <1>4
  <2>3. \A p \in Builders \ {b} : pc'[p] # "hash"
    BY <1>2, <1>3 DEF Building
  <2> QED
    BY <1>4, <2>1, <2>2, <2>3 DEF Orderly, Named, Agrees, Here
<1>5. ASSUME entries' = entries, catalog' = catalog, pc'[b] # "hash" PROVE Orderly'
  BY <1>1, <1>4, <1>5 DEF Catalogued, Named
<1>6. ASSUME NEW label, Goto(b, label) PROVE pc'[b] = label
  BY <1>0, <1>6 DEF Goto, TypeOK
<1>7. CASE BeginWrite(b) \/ EndWrite(b) \/ BuilderKilled(b)
  BY <1>5, <1>6, <1>7 DEF BeginWrite, EndWrite, BuilderKilled
<1>8. CASE Validate(b)
  <2>1. pc'[b] \in {"meta", "refused"}
    BY <1>0, <1>8 DEF Validate, Goto, TypeOK
  <2> QED
    BY <1>5, <1>8, <2>1 DEF Validate
<1>9. CASE SkipAbsent(b)
  BY <1>5, <1>9 DEF SkipAbsent
<1>10. CASE ReadsMeta(b)
  <2>1. /\ Here(b)' = Here(b) /\ file' = file /\ entries'[b][Here(b)] = Current(Here(b))
        /\ Here(b) \in Files /\ file[Here(b)] \in Contents /\ catalog' = catalog
    BY <1>0, <1>10, ReadsMetaFacts DEF ReadsMeta, Here
  <2>2. Agrees(Current(Here(b))) /\ Current(Here(b)).meta = file[Here(b)].revision
    BY <2>1, CurrentFacts
  <2>3. \A f \in Named(entries'[b]) : Agrees(entries'[b][f])
    BY <1>0, <1>1, <1>10, <2>1, <2>2, ReadsMetaFacts DEF Named
  <2> QED
    BY <1>1, <1>4, <2>1, <2>2, <2>3 DEF Catalogued, Named
<1>11. CASE ReadsHash(b)
  <2>1. /\ entries'[b][Here(b)].hash = file[Here(b)] /\ catalog' = catalog /\ pc'[b] = "meta"
        /\ entries'[b][Here(b)].meta = entries[b][Here(b)].meta /\ pc[b] = "hash"
    BY <1>0, <1>6, <1>11, ReadsHashFacts DEF ReadsHash
  <2>2. Agrees(entries'[b][Here(b)])
    BY <1>1, <2>1 DEF Agrees
  <2>3. \A f \in Named(entries'[b]) : Agrees(entries'[b][f])
    BY <1>0, <1>1, <1>11, <2>2, ReadsHashFacts DEF Named
  <2> QED
    BY <1>1, <1>4, <2>1, <2>3 DEF Catalogued, Named
<1>12. CASE ReadMeta(b) /\ ~ReadsMeta(b)
  <2>1. Goto(b, "refused") /\ UNCHANGED <<entries, raced, file, catalog, at, draft, auditVars, seen>>
    BY <1>0, <1>12, ReadSteps
  <2> QED
    BY <1>5, <1>6, <2>1
<1>13. CASE BeginSave(b)
  BY <1>1, <1>4, <1>6, <1>13 DEF BeginSave, Catalogued
<1>14. CASE EndSave(b)
  BY <1>1, <1>4, <1>6, <1>14 DEF EndSave
<1> QED
  BY <1>0, <1>7, <1>8, <1>9, <1>10, <1>11, <1>12, <1>13, <1>14, ReadSteps DEF Build

LEMMA OrderlyAudit ==
  ASSUME Sound, Orderly, NEW a \in Audits, Audit(a)
  PROVE  Orderly'
<1>1. UNCHANGED <<file, catalog, raced>>
  BY DEF Audit, BeginAudit, ReadCatalog, Verify, Verified, ScanMeta, ScanHash, Scanned, Select, Load
<1>2. Others(a) /\ a \notin Builders
  BY OthersStay, CatalogAssumption DEF Act, Procs, Sound
<1>3. \A b \in Builders : pc'[b] = pc[b] /\ at'[b] = at[b] /\ entries'[b] = entries[b]
  BY <1>2 DEF Others, Procs
<1> QED
  BY <1>1, <1>3 DEF Orderly, Building, Catalogued, Named, Agrees, Here

-----------------------------------------------------------------------------
(* What an audit knows of the definitions.                                 *)
LEMMA RunStep ==
  ASSUME TypeOK, NEW p \in Procs, Act(p), NEW a \in Audits, Running(a)'
  PROVE  Running(a) \/ (p = a /\ BeginAudit(a))
<1>0. Others(p) /\ a \in Procs
  BY OthersStay DEF Procs
<1>1. CASE p # a
  BY <1>0, <1>1 DEF Others, Running
<1>2. CASE p = a
  BY <1>0, <1>2, CatalogAssumption DEF Act, Running, Audit, ReadCatalog, Verify, Verified, ScanMeta, ScanHash, Scanned, Select, Load
<1> QED
  BY <1>1, <1>2

LEMMA WitnessStep ==
  ASSUME Sound, Witnessed, NEW p \in Procs, Act(p)
  PROVE  Witnessed'
<1> SUFFICES ASSUME NEW a \in Audits, Running(a)', NEW f \in Present'
             PROVE  file'[f] \in seen'[a][f]
  BY DEF Witnessed
<1> USE DEF Sound
<1>1. CASE Running(a)
  <2>1. \A g \in Files : seen[a][g] \subseteq seen'[a][g]
    BY <1>1, Growth DEF Running
  <2>2. f \in Present => file[f] \in seen[a][f] /\ f \in Files
    BY <1>1 DEF Witnessed, Present
  <2>3. (f \in Present /\ file'[f] = file[f]) \/ file'[f] \in seen'[a][f]
    BY <1>1, Growth
  <2> QED
    BY <2>1, <2>2, <2>3
<1>2. CASE p = a /\ BeginAudit(a)
  <2>1. file' = file /\ f \in Files /\ file[f] # Absent
    BY <1>2 DEF BeginAudit, Present
  <2>2. seen'[a] = [g \in Files |-> {file[g]} \ {Absent}]
    BY <1>2 DEF BeginAudit, TypeOK
  <2> QED
    BY <2>1, <2>2
<1> QED
  BY <1>1, <1>2, RunStep

LEMMA VouchedStays ==
  ASSUME Sound, NEW a \in Audits, Vouched(a), NEW p \in Procs, Act(p), p # a
  PROVE  Vouched(a)'
<1>1. /\ pc'[a] = pc[a] /\ at'[a] = at[a] /\ entries'[a] = entries[a]
      /\ chosen'[a] = chosen[a] /\ loaded'[a] = loaded[a]
  BY OthersStay DEF Sound, Others, Procs
<1>2. (raced => raced') /\ (pc[a] # "start" => \A f \in Files : seen[a][f] \subseteq seen'[a][f])
  BY Growth DEF Sound
<1>3. CASE pc[a] = "start"
  BY <1>1, <1>3 DEF Vouched, Named
<1>4. CASE pc[a] # "start"
  <2>1. \A f \in Files : (Hashed(a, f) => Hashed(a, f)') /\ (Dated(a, f) => Dated(a, f)')
    BY <1>1, <1>2, <1>4 DEF Hashed, Dated, Agrees
  <2>2. Named(entries[a])' = Named(entries[a]) /\ Named(entries[a]) \subseteq Files
    BY <1>1 DEF Named
  <2>3. pc[a] = "done" => chosen[a] \in Files
    BY DEF Sound, Grounded, Named
  <2>4. \A i \in 1 .. at[a] - 1 : Order[i] \in Named(entries[a]) => Order[i] \in Files
    BY <2>2
  <2>5. \A i \in 1 .. at[a] - 1 : Order[i] \in Named(entries[a]) /\ Hashed(a, Order[i])
          => entries'[a][Order[i]].hash \in seen'[a][Order[i]]
    BY <1>1, <1>2, <1>4, <2>4 DEF Hashed
  <2> QED
    BY <1>1, <1>2, <1>4, <2>1, <2>2, <2>3, <2>5 DEF Vouched, Hashed
<1> QED
  BY <1>3, <1>4

LEMMA VouchedStep ==
  ASSUME Sound, Orderly, Witnessed, NEW a \in Audits, Vouched(a), Audit(a)
  PROVE  Vouched(a)'
<1>0. /\ TypeOK /\ Grounded /\ a \in Procs /\ Act(a) /\ OwnGround(a)
      /\ Named(entries[a]) \subseteq Present /\ Present \subseteq Files
      /\ \A f \in Named(entries[a]) : Dated(a, f)
  BY DEF Sound, Act, Procs, Grounded, OwnGround, Present, Vouched
<1>1. ASSUME NEW label, Goto(a, label) PROVE pc'[a] = label
  BY <1>0, <1>1 DEF Goto, TypeOK
<1>2. ASSUME Running(a) PROVE \A f \in Present : file[f] \in seen[a][f]
  BY <1>2 DEF Witnessed
<1>3. ASSUME NEW warns \in BOOLEAN, FallBack(a, warns) PROVE Vouched(a)'
  <2>1. Named(entries[a])' = {} /\ at'[a] = 1 /\ pc'[a] = "meta"
    BY <1>0, <1>3, FallBackFacts DEF Named
  <2> QED
    BY <2>1 DEF Vouched
<1>4. CASE BeginAudit(a)
  <2>1. pc[a] = "start" /\ pc'[a] = "read" /\ UNCHANGED <<at, entries>>
    BY <1>1, <1>4 DEF BeginAudit
  <2> QED
    BY <2>1 DEF Vouched, Named
<1>5. CASE ReadCatalog(a)
  <2>1. CASE Catalogued /\ entries' = [entries EXCEPT ![a] = catalog] /\ Goto(a, "verify") /\ UNCHANGED at
    <3>1. entries'[a] = catalog /\ pc'[a] = "verify" /\ at'[a] = 1 /\ raced' = raced
      BY <1>0, <1>1, <1>5, <2>1 DEF TypeOK, ReadCatalog, Vouched
    <3>2. \A f \in Named(catalog) : raced \/ Agrees(catalog[f])
      BY <2>1 DEF Orderly
    <3>3. \A f \in Named(entries[a])' : Dated(a, f)'
      BY <3>1, <3>2 DEF Named, Dated, Agrees
    <3>4. 1 .. at'[a] - 1 = {}
      BY <3>1
    <3> QED
      BY <3>1, <3>3, <3>4 DEF Vouched
  <2> QED
    BY <1>3, <1>5, <2>1 DEF ReadCatalog, Catalogued
<1>6. CASE Verify(a)
  <2>1. CASE /\ Step(a) /\ UNCHANGED <<pc, entries>>
             /\ entries[a][Here(a)] = Absent \/ file[Here(a)] = entries[a][Here(a)].hash
    <3>1. /\ pc[a] = "verify" /\ pc'[a] = "verify" /\ at'[a] = at[a] + 1 /\ at[a] \in Nat
          /\ entries' = entries /\ seen' = seen /\ raced' = raced
      BY <1>0, <1>6, <2>1, HereFacts DEF Verify, Step, TypeOK
    <3>2. Here(a) \in Named(entries[a]) => entries[a][Here(a)].hash \in seen[a][Here(a)]
      BY <1>0, <1>2, <2>1, <3>1 DEF Running, Named
    <3>3. \A i \in 1 .. at'[a] - 1 : Order[i] \in Named(entries[a]) => Hashed(a, Order[i])
      <4> SUFFICES ASSUME NEW i \in 1 .. at'[a] - 1, Order[i] \in Named(entries[a])
                   PROVE  Hashed(a, Order[i])
        OBVIOUS
      <4>1. i = at[a] \/ i \in 1 .. at[a] - 1
        BY <3>1
      <4> QED
        BY <3>1, <3>2, <4>1 DEF Vouched, Here, Hashed
    <3>4. \A f : (Hashed(a, f)' <=> Hashed(a, f)) /\ (Dated(a, f)' <=> Dated(a, f))
      BY <3>1 DEF Hashed, Dated, Agrees
    <3>5. Named(entries[a])' = Named(entries[a])
      BY <3>1 DEF Named
    <3> QED
      BY <1>0, <3>1, <3>3, <3>4, <3>5 DEF Vouched
  <2> QED
    BY <1>3, <1>6, <2>1 DEF Verify
<1>7. CASE Verified(a) \/ Scanned(a) \/ Select(a)
  <2>1. /\ pc[a] \in {"verify", "meta", "select"} /\ pc'[a] \in {"select", "refused", "load"}
        /\ UNCHANGED <<entries, seen, raced>> /\ (pc[a] = "verify" => AtEnd(a))
    BY <1>0, <1>7 DEF Verified, Scanned, Select, Goto, TypeOK
  <2>2. \A f \in Named(entries[a]) : Hashed(a, f)
    <3>1. CASE pc[a] = "verify"
      <4> SUFFICES ASSUME NEW f \in Named(entries[a]) PROVE Hashed(a, f)
        OBVIOUS
      <4>1. PICK i \in 1 .. Len(Order) : f = Order[i]
        BY <1>0, OrderFacts
      <4>2. i \in 1 .. at[a] - 1
        BY <2>1, <3>1, <4>1, OrderFacts DEF AtEnd
      <4> QED
        BY <3>1, <4>1, <4>2 DEF Vouched
    <3> QED
      BY <2>1, <3>1 DEF Vouched
  <2>3. \A f : (Hashed(a, f)' <=> Hashed(a, f)) /\ (Dated(a, f)' <=> Dated(a, f))
    BY <2>1 DEF Hashed, Dated, Agrees
  <2>4. Named(entries[a])' = Named(entries[a])
    BY <2>1 DEF Named
  <2> QED
    BY <1>0, <2>1, <2>2, <2>3, <2>4 DEF Vouched
<1>8. CASE ReadsMeta(a)
  <2>1. /\ Here(a) \in Files /\ entries'[a][Here(a)] = Current(Here(a))
        /\ Named(entries'[a]) = Named(entries[a]) \cup {Here(a)} /\ pc[a] = "meta" /\ pc'[a] = "hash"
        /\ \A g \in Files \ {Here(a)} : entries'[a][g] = entries[a][g]
        /\ seen' = seen /\ raced' = raced
    BY <1>0, <1>1, <1>8, ReadsMetaFacts DEF ReadsMeta
  <2>2. Current(Here(a)).hash \in seen[a][Here(a)] /\ Agrees(Current(Here(a)))
    <3>1. Here(a) \in Present /\ file[Here(a)] \in Contents
      BY <1>0, <1>8, ReadsMetaFacts
    <3> QED
      BY <1>2, <2>1, <3>1, CurrentFacts DEF Running
  <2>3. \A f \in Named(entries[a]) : Hashed(a, f)
    BY <2>1 DEF Vouched
  <2>4. \A f \in Named(entries'[a]) : Hashed(a, f)' /\ Dated(a, f)'
    <3> SUFFICES ASSUME NEW f \in Named(entries'[a]) PROVE Hashed(a, f)' /\ Dated(a, f)'
      OBVIOUS
    <3>1. CASE f = Here(a)
      BY <2>1, <2>2, <3>1 DEF Hashed, Dated
    <3>2. CASE f # Here(a)
      BY <1>0, <2>1, <2>3, <3>2 DEF Hashed, Dated, Agrees
    <3> QED
      BY <3>1, <3>2
  <2>5. Named(entries[a])' = Named(entries'[a])
    BY DEF Named
  <2> QED
    BY <2>1, <2>4, <2>5 DEF Vouched
<1>9. CASE ReadsHash(a)
  <2>1. /\ Here(a) \in Files /\ entries'[a][Here(a)].hash = file[Here(a)]
        /\ entries'[a][Here(a)].meta = entries[a][Here(a)].meta /\ Here(a) \in Named(entries[a])
        /\ Named(entries'[a]) = Named(entries[a]) /\ pc[a] = "hash" /\ pc'[a] = "meta"
        /\ \A g \in Files \ {Here(a)} : entries'[a][g] = entries[a][g]
        /\ seen' = seen /\ raced' = raced
    BY <1>0, <1>1, <1>9, ReadsHashFacts DEF ReadsHash
  <2>2. file[Here(a)] \in seen[a][Here(a)]
    BY <1>0, <1>2, <2>1 DEF Running
  <2>3. \A f \in Named(entries[a]) : Hashed(a, f)
    BY <2>1 DEF Vouched
  <2>4. raced \/ \E c \in seen[a][Here(a)] : entries[a][Here(a)].meta = c.revision
    BY <1>0, <2>1, <2>3 DEF Dated, Hashed, Agrees
  <2>5. \A f \in Named(entries'[a]) : Hashed(a, f)' /\ Dated(a, f)'
    <3> SUFFICES ASSUME NEW f \in Named(entries'[a]) PROVE Hashed(a, f)' /\ Dated(a, f)'
      OBVIOUS
    <3>1. CASE f = Here(a)
      BY <2>1, <2>2, <2>4, <3>1 DEF Hashed, Dated
    <3>2. CASE f # Here(a)
      BY <1>0, <2>1, <2>3, <3>2 DEF Hashed, Dated, Agrees
    <3> QED
      BY <3>1, <3>2
  <2>6. Named(entries[a])' = Named(entries'[a])
    BY DEF Named
  <2> QED
    BY <2>1, <2>5, <2>6 DEF Vouched
<1>10. CASE ScanMeta(a) /\ ~ReadsMeta(a)
  <2>1. pc[a] = "meta" /\ UNCHANGED <<pc, entries, seen, raced>>
    BY <1>0, <1>10, ReadSteps
  <2> QED
    BY <2>1 DEF Vouched, Named, Hashed, Dated, Agrees
<1>11. CASE Load(a)
  <2>1. pc[a] = "load" /\ UNCHANGED <<entries, seen, raced, chosen>>
    BY <1>11 DEF Load
  <2>2. \A f : (Hashed(a, f)' <=> Hashed(a, f)) /\ (Dated(a, f)' <=> Dated(a, f))
    BY <2>1 DEF Hashed, Dated, Agrees
  <2>3. \A f \in Named(entries[a]) : Hashed(a, f)' /\ Dated(a, f)'
    BY <1>0, <2>1, <2>2 DEF Vouched
  <2>4. Named(entries[a])' = Named(entries[a])
    BY <2>1 DEF Named
  <2>5. CASE pc'[a] = "refused"
    BY <2>3, <2>4, <2>5 DEF Vouched
  <2>6. CASE /\ loaded' = [loaded EXCEPT ![a] = file[chosen[a]]] /\ pc'[a] = "done"
             /\ file[chosen[a]].whole /\ file[chosen[a]].valid
    <3>1. chosen[a] \in Present
      BY <1>0, <2>1 DEF Grounded
    <3>2. file[chosen[a]] \in seen[a][chosen[a]] /\ loaded'[a] = file[chosen[a]]
      BY <1>0, <1>2, <2>1, <2>6, <3>1 DEF Running, TypeOK
    <3> QED
      BY <2>1, <2>3, <2>4, <2>6, <3>2 DEF Vouched
  <2> QED
    BY <1>1, <1>11, <2>5, <2>6 DEF Load
<1> QED
  BY <1>0, <1>4, <1>5, <1>6, <1>7, <1>8, <1>9, <1>10, <1>11, ReadSteps DEF Audit

Kept == Sound /\ Orderly /\ Witnessed /\ \A a \in Audits : Vouched(a)

LEMMA KeptInvariance == Spec => []Kept
<1>1. Init => Orderly /\ Witnessed /\ \A a \in Audits : Vouched(a)
  <2> SUFFICES ASSUME Init PROVE Orderly /\ Witnessed /\ \A a \in Audits : Vouched(a)
    OBVIOUS
  <2>1. /\ pc = [p \in Procs |-> "start"] /\ at = [p \in Procs |-> 1] /\ entries = [p \in Procs |-> NoEntries]
        /\ file \in [Files -> {Old, Absent}]
    BY DEF Init
  <2>2. \A p \in Procs : pc[p] = "start" /\ at[p] = 1 /\ Named(entries[p]) = {}
    BY <2>1, NoEntriesFacts
  <2>3. Catalogued => \A f \in Named(catalog) : Agrees(catalog[f])
    <3> SUFFICES ASSUME Catalogued, NEW f \in Named(catalog) PROVE Agrees(catalog[f])
      OBVIOUS
    <3>1. catalog = [g \in Files |-> IF file[g] = Absent THEN Absent ELSE Current(g)]
      BY DEF Init, Catalogued
    <3>2. f \in Files /\ file[f] \in Contents /\ catalog[f] = Current(f)
      BY <2>1, <3>1, ContentFacts DEF Named
    <3> QED
      BY <3>2, CurrentFacts
  <2>4. Orderly
    BY <2>2, <2>3 DEF Orderly, Building, Procs
  <2>5. Witnessed
    BY <2>2 DEF Witnessed, Running, Procs
  <2>6. ASSUME NEW a \in Audits PROVE Vouched(a)
    BY <2>2 DEF Vouched, Procs
  <2> QED
    BY <2>4, <2>5, <2>6
<1>2. Kept /\ Sound' /\ [Next]_vars => Kept'
  <2>1. Kept /\ Sound' /\ UNCHANGED vars => Kept'
    BY DEF Kept, Orderly, Witnessed, Vouched, Building, Catalogued, Named, Agrees, Here, Running, Present,
       Hashed, Dated, vars
  <2>2. ASSUME Kept, Sound', NEW p \in Procs, Act(p) PROVE Kept'
    <3>1. Orderly'
      BY <2>2, OrderlyBuild, OrderlyAudit DEF Kept, Act
    <3>2. Witnessed'
      BY <2>2, WitnessStep DEF Kept
    <3>3. ASSUME NEW a \in Audits PROVE Vouched(a)'
      <4>1. CASE p = a
        BY <2>2, <4>1, VouchedStep, CatalogAssumption DEF Kept, Act
      <4>2. CASE p # a
        BY <2>2, <4>2, VouchedStays DEF Kept
      <4> QED
        BY <4>1, <4>2
    <3> QED
      BY <2>2, <3>1, <3>2, <3>3 DEF Kept
  <2> QED
    BY <2>1, <2>2, StepIsAct
<1> QED
  BY <1>1, <1>2, SoundInvariance, PTL DEF Spec, Kept

(* Even amid builds the hash an audit reports is of a content its file had *)
(* during the audit, and so is what it evaluates, which is valid           *)
(* (platform.py:275-280).                                                  *)
THEOREM HashIsOfThisAuditHolds == Spec => []HashIsOfThisAudit
<1>1. Kept => HashIsOfThisAudit
  BY DEF Kept, Sound, Grounded, Vouched, Hashed, HashIsOfThisAudit, Selected
<1> QED
  BY <1>1, KeptInvariance, PTL

(* An audit no builder interferes with reports the hash of the definition  *)
(* it evaluates, and selects it by its own metadata, whatever crashes and  *)
(* half-finished builds came before; the metadata only as long as no two   *)
(* builds overlapped (platform.py:268-292, engine.py:78-90).               *)
THEOREM QuietAuditIsConsistentHolds == Spec => []QuietAuditIsConsistent
<1>1. Kept => QuietAuditIsConsistent
  <2> SUFFICES ASSUME Kept, NEW a \in Audits, pc[a] = "done", Quiet(a)
               PROVE  Selected(a).hash = loaded[a] /\ (raced \/ Selected(a).meta = loaded[a].revision)
    BY DEF QuietAuditIsConsistent
  <2>1. /\ chosen[a] \in Named(entries[a]) /\ chosen[a] \in Files
        /\ Hashed(a, chosen[a]) /\ Dated(a, chosen[a]) /\ loaded[a] \in seen[a][chosen[a]]
    BY DEF Kept, Sound, Grounded, Vouched, Named
  <2>2. \A c \in seen[a][chosen[a]] : c = loaded[a]
    BY <2>1 DEF Quiet
  <2> QED
    BY <2>1, <2>2 DEF Hashed, Dated, Agrees, Selected
<1> QED
  BY <1>1, KeptInvariance, PTL

-----------------------------------------------------------------------------
(* Why an audit fails.                                                     *)

(* A file gets into a catalog, or into someone's entries, from another     *)
(* one, or because it was found whole.                                     *)
LEMMA Cataloguing ==
  ASSUME Sound, NEW p \in Procs, Act(p), NEW f, InSomeCatalog(f)'
  PROVE  InSomeCatalog(f) \/ (f \in Present /\ file[f].whole)
<1> USE DEF Sound
<1>0. Others(p) /\ p \in Procs /\ TypeOK /\ Grounded
  BY OthersStay
<1>1. ASSUME Named(entries'[p]) \subseteq Named(entries[p]),
             Catalogued' => (Catalogued /\ catalog' = catalog) \/ catalog' = entries[p]
      PROVE  InSomeCatalog(f)
  <2>1. \A q \in Procs : f \in Named(entries'[q]) => f \in Named(entries[q])
    BY <1>0, <1>1 DEF Others
  <2> QED
    BY <1>1, <2>1 DEF InSomeCatalog, Named
<1>2. ASSUME NEW warns \in BOOLEAN, p \in Audits, FallBack(p, warns), catalog' = catalog
      PROVE  InSomeCatalog(f)
  <2>1. Named(entries'[p]) = {}
    BY <1>2, FallBackFacts
  <2> QED
    BY <1>1, <1>2, <2>1 DEF Catalogued
<1>3. CASE p \in Audits /\ ReadCatalog(p)
  <2>1. catalog' = catalog
    BY <1>3 DEF ReadCatalog
  <2>2. CASE Catalogued /\ entries' = [entries EXCEPT ![p] = catalog]
    <3>1. \A q \in Procs : entries'[q] = entries[q] \/ entries'[q] = catalog
      BY <2>2 DEF TypeOK
    <3> QED
      BY <2>1, <2>2, <3>1 DEF InSomeCatalog, Catalogued, Named
  <2> QED
    BY <1>2, <1>3, <2>1, <2>2 DEF ReadCatalog, Catalogued
<1>4. CASE p \in Audits /\ Verify(p)
  <2>1. catalog' = catalog
    BY <1>4 DEF Verify
  <2>2. CASE entries' = entries
    BY <1>1, <2>1, <2>2 DEF Catalogued
  <2> QED
    BY <1>2, <1>4, <2>1, <2>2 DEF Verify
<1>5. CASE ReadsMeta(p)
  <2>1. /\ Here(p) \in Present /\ file[Here(p)].whole /\ catalog' = catalog
        /\ Named(entries'[p]) = Named(entries[p]) \cup {Here(p)}
    BY <1>0, <1>5, ReadsMetaFacts DEF ReadsMeta
  <2>2. CASE f = Here(p)
    BY <2>1, <2>2
  <2>3. CASE f # Here(p)
    <3>1. \A q \in Procs : f \in Named(entries'[q]) => f \in Named(entries[q])
      BY <1>0, <2>1, <2>3 DEF Others
    <3> QED
      BY <2>1, <3>1 DEF InSomeCatalog, Catalogued, Named
  <2> QED
    BY <2>2, <2>3
<1>6. CASE ReadsHash(p)
  <2>1. catalog' = catalog /\ Named(entries'[p]) = Named(entries[p])
    BY <1>0, <1>6, ReadsHashFacts DEF ReadsHash
  <2> QED
    BY <1>1, <2>1 DEF Catalogued
<1>7. CASE p \in Builders /\ BeginSave(p)
  BY <1>1, <1>7 DEF BeginSave, Catalogued
<1>8. CASE p \in Builders /\ EndSave(p)
  BY <1>1, <1>8 DEF EndSave
<1>9. CASE entries' = entries /\ catalog' = catalog
  BY <1>1, <1>9 DEF Catalogued
<1>10. CASE p \in Builders /\ Build(p)
  <2>1. CASE ReadMeta(p) /\ ~ReadsMeta(p)
    BY <1>0, <1>9, <2>1, ReadSteps
  <2> QED
    BY <1>0, <1>5, <1>6, <1>7, <1>8, <1>9, <1>10, <2>1, ReadSteps
       DEF Build, BeginWrite, EndWrite, Validate, SkipAbsent, BuilderKilled
<1>11. CASE p \in Audits /\ Audit(p)
  <2>1. CASE ScanMeta(p) /\ ~ReadsMeta(p)
    BY <1>0, <1>9, <2>1, ReadSteps
  <2> QED
    BY <1>0, <1>3, <1>4, <1>5, <1>6, <1>9, <1>11, <2>1, ReadSteps
       DEF Audit, BeginAudit, Verified, Scanned, Select, Load
<1> QED
  BY <1>10, <1>11 DEF Act

(* What the steps of others do to an audit under way.                      *)
LEMMA LateFiles ==
  ASSUME Kept, NEW a \in Audits, Blamed(a), NEW p \in Procs, Act(p), Running(a), listed'[a] = listed[a]
  PROVE  \A f \in Present' \ listed'[a] : SeenTorn(a, f)' /\ (InSomeCatalog(f)' => SeenWhole(a, f)')
<1> SUFFICES ASSUME NEW f \in Present', f \notin listed[a]
             PROVE  SeenTorn(a, f)' /\ (InSomeCatalog(f)' => SeenWhole(a, f)')
  OBVIOUS
<1>0. /\ Sound /\ TypeOK /\ Grounded /\ f \in Files /\ seen[a][f] \subseteq seen'[a][f]
      /\ \A g \in Present : file[g] \in seen[a][g]
  BY Growth DEF Kept, Sound, Running, Present, Witnessed
<1>1. (SeenTorn(a, f) => SeenTorn(a, f)') /\ (SeenWhole(a, f) => SeenWhole(a, f)')
  BY <1>0 DEF SeenTorn, SeenWhole
<1>2. SeenTorn(a, f)'
  <2>1. CASE f \in Present
    BY <1>1, <2>1 DEF Blamed
  <2>2. CASE f \notin Present
    <3>1. PICK c \in Contents : Writes(p, c)
      BY <1>0, <2>2, WriteOrNot DEF Present
    <3>2. Output[p] \in Files /\ Put(Output[p], c)
      BY <3>1, CatalogAssumption DEF Writes
    <3>3. f = Output[p] /\ c \in seen'[a][f]
      BY <1>0, <2>2, <3>2, PutFacts
    <3> QED
      BY <2>2, <3>1, <3>3 DEF Writes, SeenTorn
  <2> QED
    BY <2>1, <2>2
<1>3. ASSUME InSomeCatalog(f)' PROVE SeenWhole(a, f)'
  <2>1. CASE InSomeCatalog(f)
    <3>1. f \in Present
      BY <1>0, <2>1 DEF InSomeCatalog, Grounded, OwnGround
    <3> QED
      BY <1>1, <2>1, <3>1 DEF Blamed
  <2>2. CASE f \in Present /\ file[f].whole
    BY <1>0, <2>2 DEF SeenWhole
  <2> QED
    BY <1>0, <1>3, <2>1, <2>2, Cataloguing
<1> QED
  BY <1>2, <1>3

LEMMA BlamedStays ==
  ASSUME Kept, NEW a \in Audits, Blamed(a), NEW p \in Procs, Act(p), p # a
  PROVE  Blamed(a)'
<1>0. /\ Sound /\ TypeOK /\ pc'[a] = pc[a] /\ at'[a] = at[a] /\ entries'[a] = entries[a]
      /\ listed'[a] = listed[a] /\ listed[a] \subseteq Files
      /\ pc[a] # "start" => \A g \in Files : seen[a][g] \subseteq seen'[a][g]
      /\ pc[a] # "start" /\ ~Running(a) => seen'[a] = seen[a]
  BY OthersStay, Growth DEF Kept, Sound, Others, Procs, TypeOK
<1>1. Running(a) => \A f \in Present' \ listed'[a] :
        SeenTorn(a, f)' /\ (InSomeCatalog(f)' => SeenWhole(a, f)')
  BY <1>0, LateFiles
<1>2. ASSUME pc[a] \in {"meta", "hash"}, NEW i \in 1 .. at[a] - 1, Order[i] \in listed[a]
      PROVE  Order[i] \in Named(entries[a]) \/ \E c \in seen'[a][Order[i]] : ~c.whole
  <2>1. Order[i] \in Files
    BY <1>0, <1>2
  <2>2. Order[i] \in Named(entries[a]) \/ SeenTorn(a, Order[i])
    BY <1>2 DEF Blamed
  <2> QED
    BY <1>0, <1>2, <2>1, <2>2 DEF SeenTorn
<1>3. ASSUME pc[a] = "refused", Quiet(a)'
      PROVE  \E f \in listed'[a] : \E c \in seen'[a][f] : ~(c.whole /\ c.valid)
  <2>1. seen'[a] = seen[a]
    BY <1>0, <1>3 DEF Running
  <2> QED
    BY <1>0, <1>3, <2>1 DEF Blamed, Quiet
<1>4. Named(entries[a])' = Named(entries[a]) /\ (Running(a)' <=> Running(a))
  BY <1>0 DEF Named, Running
<1>5. pc'[a] # "start" => listed'[a] # {}
  BY <1>0 DEF Blamed
<1> QED
  BY <1>0, <1>1, <1>2, <1>3, <1>4, <1>5 DEF Blamed, SeenTorn

LEMMA BlamedStep ==
  ASSUME Kept, NEW a \in Audits, Blamed(a), Audit(a)
  PROVE  Blamed(a)'
<1>0. /\ Sound /\ TypeOK /\ Grounded /\ a \in Procs /\ Act(a) /\ OwnGround(a)
      /\ listed[a] \subseteq Present /\ Present \subseteq Files
      /\ Running(a) => \A f \in Present : file[f] \in seen[a][f]
  BY DEF Kept, Sound, Act, Procs, Grounded, OwnGround, Present, Witnessed
<1>1. CASE BeginAudit(a)
  <2>1. listed'[a] = Present /\ Present' = Present /\ pc'[a] = "read"
    BY <1>0, <1>1 DEF BeginAudit, ListFiles, Present, Goto, TypeOK
  <2> QED
    BY <1>0, <2>1 DEF Blamed, Grounded
<1>2. CASE ~BeginAudit(a)
  <2>1. /\ listed'[a] = listed[a] /\ Running(a) /\ file' = file /\ seen' = seen /\ listed[a] # {}
    BY <1>2 DEF Audit, Running, ReadCatalog, Verify, Verified, ScanMeta, ScanHash, Scanned, Select, Load, Blamed
  <2>2. Running(a)' => \A f \in Present' \ listed'[a] :
          SeenTorn(a, f)' /\ (InSomeCatalog(f)' => SeenWhole(a, f)')
    BY <1>0, <2>1, LateFiles
  <2>3. ASSUME /\ pc'[a] \in {"meta", "hash"} => \A i \in 1 .. at'[a] - 1 :
                    Order[i] \in listed[a] => Order[i] \in Named(entries'[a]) \/ SeenTorn(a, Order[i])
               /\ pc'[a] = "refused" /\ Quiet(a) =>
                    \E f \in listed[a] : \E c \in seen[a][f] : ~(c.whole /\ c.valid)
        PROVE  Blamed(a)'
    <3>1. Named(entries[a])' = Named(entries'[a]) /\ (Quiet(a)' <=> Quiet(a))
      BY <2>1 DEF Named, Quiet
    <3> QED
      BY <2>1, <2>2, <2>3, <3>1 DEF Blamed, SeenTorn
  <2>4. ASSUME NEW warns \in BOOLEAN, FallBack(a, warns) PROVE Blamed(a)'
    <3>1. 1 .. at'[a] - 1 = {} /\ pc'[a] = "meta"
      BY <1>0, <2>4, FallBackFacts
    <3> QED
      BY <2>3, <3>1
  <2>5. ASSUME NEW label \in {"verify", "select", "load", "done"}, Goto(a, label) PROVE Blamed(a)'
    <3>1. pc'[a] = label
      BY <1>0, <2>5 DEF Goto, TypeOK
    <3> QED
      BY <2>3, <3>1
  <2>6. CASE ReadCatalog(a)
    BY <2>4, <2>5, <2>6 DEF ReadCatalog
  <2>7. CASE Verify(a)
    <3>1. ASSUME UNCHANGED pc PROVE Blamed(a)'
      BY <2>3, <2>7, <3>1 DEF Verify
    <3> QED
      BY <2>4, <2>7, <3>1 DEF Verify
  <2>8. CASE Verified(a) \/ Select(a)
    BY <2>5, <2>8 DEF Verified, Select
  <2>9. CASE Scanned(a)
    <3>1. CASE Goto(a, "select")
      BY <2>5, <3>1
    <3>2. CASE Goto(a, "refused") /\ Named(entries[a]) = {}
      <4>1. PICK f \in Files : f \in listed[a]
        BY <1>0, <2>1
      <4>2. PICK i \in 1 .. Len(Order) : f = Order[i]
        BY OrderFacts
      <4>3. i \in 1 .. at[a] - 1 /\ pc[a] = "meta"
        BY <2>9, <4>2, OrderFacts DEF Scanned, AtEnd
      <4>4. SeenTorn(a, f)
        BY <3>2, <4>1, <4>2, <4>3 DEF Blamed
      <4>5. pc'[a] = "refused"
        BY <1>0, <3>2 DEF Goto, TypeOK
      <4> QED
        BY <2>3, <4>1, <4>4, <4>5 DEF SeenTorn
    <3> QED
      BY <2>9, <3>1, <3>2 DEF Scanned
  <2>10. CASE ReadsMeta(a)
    <3>1. /\ at' = at /\ pc[a] = "meta" /\ pc'[a] = "hash"
          /\ Named(entries'[a]) = Named(entries[a]) \cup {Here(a)}
      BY <1>0, <2>10, ReadsMetaFacts DEF ReadsMeta, Goto, TypeOK
    <3> QED
      BY <2>3, <3>1 DEF Blamed
  <2>11. ASSUME pc[a] \in {"meta", "hash"}, pc'[a] = "meta", at'[a] = at[a] + 1,
                Named(entries'[a]) = Named(entries[a]),
                Here(a) \in listed[a] => Here(a) \in Named(entries[a]) \/ SeenTorn(a, Here(a))
         PROVE  Blamed(a)'
    <3>1. ASSUME NEW i \in 1 .. at'[a] - 1, Order[i] \in listed[a]
          PROVE  Order[i] \in Named(entries'[a]) \/ SeenTorn(a, Order[i])
      <4>1. i = at[a] \/ i \in 1 .. at[a] - 1
        BY <1>0, <2>11 DEF TypeOK
      <4> QED
        BY <2>11, <3>1, <4>1 DEF Blamed, Here
    <3> QED
      BY <2>3, <2>11, <3>1
  <2>12. CASE ReadsHash(a)
    <3>1. pc'[a] = "meta" /\ pc[a] = "hash"
      BY <1>0, <2>12 DEF ReadsHash, Goto, TypeOK
    <3> QED
      BY <1>0, <2>11, <2>12, <3>1, ReadsHashFacts
  <2>13. CASE ScanMeta(a) /\ ~ReadsMeta(a)
    <3>1. /\ pc[a] = "meta" /\ ~AtEnd(a) /\ Step(a) /\ UNCHANGED <<entries, pc>>
          /\ ~(Here(a) \in listed[a] /\ file[Here(a)].whole)
      BY <1>0, <2>13, ReadSteps
    <3>2. at'[a] = at[a] + 1
      BY <1>0, <3>1 DEF Step, TypeOK
    <3>3. Here(a) \in listed[a] => SeenTorn(a, Here(a))
      BY <1>0, <2>1, <3>1 DEF SeenTorn
    <3> QED
      BY <2>11, <3>1, <3>2, <3>3
  <2>14. CASE Load(a)
    <3> DEFINE f == chosen[a]
    <3>1. CASE Goto(a, "done")
      BY <2>5, <3>1
    <3>2. CASE Goto(a, "refused") /\ ~(file[f].whole /\ file[f].valid)
      <4>1. f \in Named(entries[a]) /\ f \in Present /\ file[f] \in seen[a][f]
        BY <1>0, <2>1, <2>14 DEF Load, Grounded, OwnGround
      <4>2. ASSUME Quiet(a) PROVE f \in listed[a]
        <5> SUFFICES ASSUME f \notin listed[a] PROVE FALSE
          OBVIOUS
        <5>1. InSomeCatalog(f)
          BY <1>0, <4>1 DEF InSomeCatalog
        <5>2. SeenTorn(a, f) /\ SeenWhole(a, f) /\ f \in Files
          BY <1>0, <2>1, <4>1, <5>1 DEF Blamed
        <5> QED
          BY <4>2, <5>2 DEF SeenTorn, SeenWhole, Quiet
      <4>3. pc'[a] = "refused"
        BY <1>0, <3>2 DEF Goto, TypeOK
      <4> QED
        BY <2>3, <3>2, <4>1, <4>2, <4>3
    <3> QED
      BY <2>14, <3>1, <3>2 DEF Load
  <2> QED
    BY <1>0, <1>2, <2>6, <2>7, <2>8, <2>9, <2>10, <2>12, <2>13, <2>14, ReadSteps DEF Audit
<1> QED
  BY <1>1, <1>2

LEMMA BlamedInvariance == Spec => [](\A a \in Audits : Blamed(a))
<1>1. Init => \A a \in Audits : Blamed(a)
  <2> SUFFICES ASSUME Init, NEW a \in Audits PROVE Blamed(a)
    OBVIOUS
  <2>1. pc[a] = "start"
    BY DEF Init, Procs
  <2> QED
    BY <2>1 DEF Blamed, Running
<1>2. Kept /\ (\A a \in Audits : Blamed(a)) /\ [Next]_vars => (\A a \in Audits : Blamed(a))'
  <2>1. (\A a \in Audits : Blamed(a)) /\ UNCHANGED vars => (\A a \in Audits : Blamed(a))'
    BY DEF Blamed, Running, Present, SeenTorn, SeenWhole, InSomeCatalog, Catalogued, Named, Quiet, vars
  <2>2. ASSUME Kept, \A a \in Audits : Blamed(a), NEW p \in Procs, Act(p), NEW a \in Audits
        PROVE  Blamed(a)'
    <3>1. CASE p = a
      BY <2>2, <3>1, BlamedStep, CatalogAssumption DEF Act
    <3>2. CASE p # a
      BY <2>2, <3>2, BlamedStays
    <3> QED
      BY <3>1, <3>2
  <2> QED
    BY <2>1, <2>2, StepIsAct
<1> QED
  BY <1>1, <1>2, KeptInvariance, PTL DEF Spec

(* A build that was killed or refused half-way costs no more than the      *)
(* definition it wrote: an audit no builder interferes with fails only     *)
(* over a definition that is torn or invalid, never over the catalog       *)
(* (platform.py:272-290).                                                  *)
THEOREM OnlyDefinitionsFailAnAuditHolds == Spec => []OnlyDefinitionsFailAnAudit
<1>1. (\A a \in Audits : Blamed(a)) => OnlyDefinitionsFailAnAudit
  BY DEF Blamed, OnlyDefinitionsFailAnAudit
<1> QED
  BY <1>1, BlamedInvariance, PTL
=============================================================================
