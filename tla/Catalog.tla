------------------------------ MODULE Catalog -------------------------------
(***************************************************************************)
(* The benchmarks directory between its writer and its readers:            *)
(* tools/build_benchmark_definition.py writes a definition, validates it   *)
(* and rewrites catalog.json from all definitions; an audit reads the      *)
(* catalog, verifies it by hash or falls back on the definitions           *)
(* (load_catalog), selects an entry and loads its definition.              *)
(*                                                                         *)
(* No file is written atomically and nothing is locked, so a reader may    *)
(* find a torn file, a builder may be killed between any two steps, and    *)
(* several of them may run at once.  A hash is as good as the content.     *)
(***************************************************************************)
EXTENDS Naturals, Sequences, FiniteSets

CONSTANTS
  Builders, Audits,
  Files,       \* definition files, CIS_*.json
  Order,       \* the files in sorted order
  Output,      \* [Builders -> Files], what each builder writes
  Unparsable,  \* a catalog.json that is not JSON: empty or cut off
  Absent

(* A content: which revision, parsable or torn, and valid or not to        *)
(* load_definition.  The metadata of a content is its revision.            *)
Revisions == {"old", "new"}
Contents == [revision: Revisions, whole: BOOLEAN, valid: BOOLEAN]
Torn(c) == [revision |-> c.revision, whole |-> FALSE, valid |-> c.valid]
Entry == [hash: Contents, meta: Revisions]
Maybe(S) == S \cup {Absent}
EntrySets == [Files -> Maybe(Entry)]

ASSUME CatalogAssumption ==
  /\ Order \in Seq(Files)
  /\ Files = {Order[i] : i \in 1 .. Len(Order)} /\ Cardinality(Files) = Len(Order)
  /\ Output \in [Builders -> Files]
  /\ Builders \cap Audits = {}
  /\ Absent \notin Contents \cup Entry \cup Files \cup EntrySets
  /\ Unparsable \notin EntrySets \cup {Absent}

VARIABLES
  file,      \* the definition files: content or Absent
  catalog,   \* catalog.json: entries by file, Unparsable, or Absent
  pc,
  at,        \* position in Order of the file a process is at
  draft,     \* content a builder is writing
  entries,   \* the entries a process has put together, by file
  listed,    \* the definitions that were there when a process listed them
  source,    \* audit: "catalog" or "definitions", where its entries are from
  warned,    \* audit: a line about the catalog was printed
  chosen,    \* audit: the file selected
  loaded,    \* audit: the content it evaluates
  seen,      \* history: per audit, contents each file had since it began
  raced      \* history: a build began while another was under way

vars == <<raced, file, catalog, pc, at, draft, entries, listed, source, warned, chosen, loaded, seen>>
Procs == Builders \cup Audits

TypeOK ==
  /\ file \in [Files -> Maybe(Contents)]
  /\ catalog \in EntrySets \cup {Unparsable, Absent}
  /\ pc \in [Procs -> {"start", "writing", "written", "meta", "hash", "save", "saving",
                       "read", "verify", "select", "load", "done", "refused", "killed"}]
  /\ at \in [Procs -> 1 .. Len(Order) + 1]
  /\ draft \in [Builders -> Maybe(Contents)]
  /\ entries \in [Procs -> EntrySets]
  /\ listed \in [Procs -> SUBSET Files]
  /\ source \in [Audits -> {"catalog", "definitions", Absent}]
  /\ warned \in [Audits -> BOOLEAN]
  /\ chosen \in [Audits -> Maybe(Files)]
  /\ loaded \in [Audits -> Maybe(Contents)]
  /\ seen \in [Audits -> [Files -> SUBSET Contents]]
  /\ raced \in BOOLEAN

NoEntries == [f \in Files |-> Absent]
Old == [revision |-> "old", whole |-> TRUE, valid |-> TRUE]
Current(f) == [hash |-> file[f], meta |-> file[f].revision]

(* A directory as it is shipped: some definitions and their catalog, which *)
(* may have been removed.                                                  *)
Init ==
  /\ file \in [Files -> {Old, Absent}] /\ \E f \in Files : file[f] # Absent
  /\ catalog \in {Absent, [f \in Files |-> IF file[f] = Absent THEN Absent ELSE Current(f)]}
  /\ pc = [p \in Procs |-> "start"] /\ at = [p \in Procs |-> 1]
  /\ draft = [b \in Builders |-> Absent]
  /\ entries = [p \in Procs |-> NoEntries]
  /\ listed = [p \in Procs |-> {}] /\ source = [a \in Audits |-> Absent]
  /\ warned = [a \in Audits |-> FALSE]
  /\ chosen = [a \in Audits |-> Absent] /\ loaded = [a \in Audits |-> Absent]
  /\ seen = [a \in Audits |-> [f \in Files |-> {}]]
  /\ raced = FALSE

-----------------------------------------------------------------------------
Goto(p, label) == pc' = [pc EXCEPT ![p] = label]
Here(p) == Order[at[p]]
AtEnd(p) == at[p] = Len(Order) + 1
Step(p) == at' = [at EXCEPT ![p] = @ + 1]

Put(f, c) ==
  /\ file' = [file EXCEPT ![f] = c]
  /\ seen' = [a \in Audits |->
               IF pc[a] \in {"start", "done", "refused"} THEN seen[a]
               ELSE [seen[a] EXCEPT ![f] = @ \cup {c}]]

ListFiles(p) == listed' = [listed EXCEPT ![p] = {f \in Files : file[f] # Absent}]

auditVars == <<listed, source, warned, chosen, loaded>>

(* write_text truncates the definition, then fills it.                     *)
BeginWrite(b) ==
  /\ pc[b] = "start" /\ Goto(b, "writing")
  /\ \E valid \in BOOLEAN :
       LET c == [revision |-> "new", whole |-> TRUE, valid |-> valid]
       IN  draft' = [draft EXCEPT ![b] = c] /\ Put(Output[b], Torn(c))
  /\ raced' = (raced \/ \E other \in Builders : pc[other] \notin {"start", "done", "refused", "killed"})
  /\ UNCHANGED <<catalog, at, entries, auditVars>>

EndWrite(b) ==
  /\ pc[b] = "writing" /\ Goto(b, "written")
  /\ Put(Output[b], draft[b])
  /\ UNCHANGED <<raced, catalog, at, draft, entries, auditVars>>

(* load_definition on what is there now; the builder gives up over an      *)
(* invalid one and leaves it in place, without a new catalog.  The         *)
(* definitions are listed before any is read.                              *)
Validate(b) ==
  /\ pc[b] = "written"
  /\ LET c == file[Output[b]] IN Goto(b, IF c.whole /\ c.valid THEN "meta" ELSE "refused")
  /\ ListFiles(b)
  /\ UNCHANGED <<raced, file, catalog, at, draft, entries, source, warned, chosen, loaded, seen>>

(* write_catalog: of each definition first the metadata is read, and then  *)
(* the file again for its hash.                                            *)
SkipAbsent(b) ==
  /\ pc[b] = "meta" /\ ~AtEnd(b) /\ Here(b) \notin listed[b]
  /\ Step(b)
  /\ UNCHANGED <<raced, file, catalog, pc, draft, entries, auditVars, seen>>

ReadMeta(b) ==
  /\ pc[b] = "meta" /\ ~AtEnd(b) /\ Here(b) \in listed[b]
  /\ IF file[Here(b)].whole
     THEN /\ entries' = [entries EXCEPT ![b][Here(b)] = Current(Here(b))]
          /\ Goto(b, "hash")
     ELSE Goto(b, "refused") /\ UNCHANGED entries
  /\ UNCHANGED <<raced, file, catalog, at, draft, auditVars, seen>>

ReadHash(b) ==
  /\ pc[b] = "hash"
  /\ entries' = [entries EXCEPT ![b][Here(b)] = [hash |-> file[Here(b)], meta |-> @.meta]]
  /\ Step(b) /\ Goto(b, "meta")
  /\ UNCHANGED <<raced, file, catalog, draft, auditVars, seen>>

BeginSave(b) ==
  /\ pc[b] = "meta" /\ AtEnd(b) /\ Goto(b, "saving")
  /\ catalog' = Unparsable
  /\ UNCHANGED <<raced, file, at, draft, entries, auditVars, seen>>

EndSave(b) ==
  /\ pc[b] = "saving" /\ Goto(b, "done")
  /\ catalog' = entries[b]
  /\ UNCHANGED <<raced, file, at, draft, entries, auditVars, seen>>

BuilderKilled(b) ==
  /\ pc[b] \notin {"start", "done", "refused", "killed"} /\ Goto(b, "killed")
  /\ UNCHANGED <<raced, file, catalog, at, draft, entries, auditVars, seen>>

Build(b) ==
  \/ BeginWrite(b) \/ EndWrite(b) \/ Validate(b) \/ SkipAbsent(b) \/ ReadMeta(b)
  \/ ReadHash(b) \/ BeginSave(b) \/ EndSave(b) \/ BuilderKilled(b)

-----------------------------------------------------------------------------
(* load_catalog: the definitions are listed before the catalog is read.    *)
BeginAudit(a) ==
  /\ pc[a] = "start" /\ Goto(a, "read")
  /\ ListFiles(a)
  /\ seen' = [seen EXCEPT ![a] = [f \in Files |-> {file[f]} \ {Absent}]]
  /\ UNCHANGED <<raced, file, catalog, at, draft, entries, source, warned, chosen, loaded>>

Named(es) == {f \in Files : es[f] # Absent}

(* Bug: off by one in where the scan of the definitions starts.            *)
FallBackFromZero(a, warns) ==
  /\ source' = [source EXCEPT ![a] = "definitions"]
  /\ warned' = [warned EXCEPT ![a] = warns]
  /\ entries' = [entries EXCEPT ![a] = NoEntries]
  /\ at' = [at EXCEPT ![a] = 0]
  /\ Goto(a, "meta")

FallBack(a, warns) ==
  /\ source' = [source EXCEPT ![a] = "definitions"]
  /\ warned' = [warned EXCEPT ![a] = warns]
  /\ entries' = [entries EXCEPT ![a] = NoEntries]
  /\ at' = [at EXCEPT ![a] = 1]
  /\ Goto(a, "meta")

(* Bug: a catalog that does not parse is not caught.                       *)
ReadCatalogOrFail(a) ==
  /\ pc[a] = "read"
  /\ \/ catalog = Absent /\ FallBack(a, FALSE)
     \/ catalog = Unparsable /\ Goto(a, "refused") /\ UNCHANGED <<entries, at, source, warned>>
     \/ /\ catalog \notin {Absent, Unparsable}
        /\ entries' = [entries EXCEPT ![a] = catalog]
        /\ Goto(a, "verify") /\ UNCHANGED <<at, source, warned>>
  /\ UNCHANGED <<raced, file, catalog, draft, listed, chosen, loaded, seen>>

ReadCatalog(a) ==
  /\ pc[a] = "read"
  /\ \/ catalog = Absent /\ FallBack(a, FALSE)
     \/ catalog = Unparsable /\ FallBack(a, TRUE)
     \/ /\ catalog \notin {Absent, Unparsable}
        /\ IF Cardinality(Named(catalog)) = Cardinality(listed[a])
           THEN /\ entries' = [entries EXCEPT ![a] = catalog]
                /\ Goto(a, "verify") /\ UNCHANGED <<at, source, warned>>
           ELSE FallBack(a, TRUE)
  /\ UNCHANGED <<raced, file, catalog, draft, listed, chosen, loaded, seen>>

(* Bug: only the number of definitions is compared, not their hashes.      *)
VerifyCount(a) ==
  /\ pc[a] = "verify" /\ ~AtEnd(a)
  /\ Step(a) /\ UNCHANGED <<raced, file, catalog, pc, draft, entries, listed, source, warned, chosen, loaded, seen>>

(* The entries are verified one after the other, up to the first that is   *)
(* not the hash of its file.                                               *)
Verify(a) ==
  /\ pc[a] = "verify" /\ ~AtEnd(a)
  /\ LET e == entries[a][Here(a)]
     IN  \/ e = Absent /\ Step(a) /\ UNCHANGED <<pc, entries, source, warned>>
         \/ e # Absent /\ file[Here(a)] = e.hash /\ Step(a) /\ UNCHANGED <<pc, entries, source, warned>>
         \/ e # Absent /\ file[Here(a)] # e.hash /\ FallBack(a, TRUE)
  /\ UNCHANGED <<raced, file, catalog, draft, listed, chosen, loaded, seen>>

Verified(a) ==
  /\ pc[a] = "verify" /\ AtEnd(a)
  /\ source' = [source EXCEPT ![a] = "catalog"]
  /\ Goto(a, "select")
  /\ UNCHANGED <<raced, file, catalog, at, draft, entries, listed, warned, chosen, loaded, seen>>

(* The fallback reads each definition's metadata, skipping what does not   *)
(* parse, and then the file again for its hash.                            *)
ScanMeta(a) ==
  /\ pc[a] = "meta" /\ ~AtEnd(a)
  /\ IF Here(a) \in listed[a] /\ file[Here(a)].whole
     THEN /\ entries' = [entries EXCEPT ![a][Here(a)] = Current(Here(a))]
          /\ Goto(a, "hash") /\ UNCHANGED at
     ELSE Step(a) /\ UNCHANGED <<entries, pc>>
  /\ UNCHANGED <<raced, file, catalog, draft, listed, source, warned, chosen, loaded, seen>>

ScanHash(a) ==
  /\ pc[a] = "hash"
  /\ entries' = [entries EXCEPT ![a][Here(a)] = [hash |-> file[Here(a)], meta |-> @.meta]]
  /\ Step(a) /\ Goto(a, "meta")
  /\ UNCHANGED <<raced, file, catalog, draft, listed, source, warned, chosen, loaded, seen>>

Scanned(a) ==
  /\ pc[a] = "meta" /\ AtEnd(a)
  /\ Goto(a, IF Named(entries[a]) = {} THEN "refused" ELSE "select")
  /\ UNCHANGED <<raced, file, catalog, at, draft, entries, listed, source, warned, chosen, loaded, seen>>

(* select_benchmark: which entry fits the host is not this module's matter.*)
Select(a) ==
  /\ pc[a] = "select"
  /\ \E f \in Named(entries[a]) : chosen' = [chosen EXCEPT ![a] = f]
  /\ Goto(a, "load")
  /\ UNCHANGED <<raced, file, catalog, at, draft, entries, listed, source, warned, loaded, seen>>

(* Bug: what does not validate is evaluated all the same.                  *)
LoadAnything(a) ==
  /\ pc[a] = "load" /\ loaded' = [loaded EXCEPT ![a] = file[chosen[a]]] /\ Goto(a, "done")
  /\ UNCHANGED <<raced, file, catalog, at, draft, entries, listed, source, warned, chosen, seen>>

(* load_definition of the path selected.                                   *)
Load(a) ==
  /\ pc[a] = "load"
  /\ LET c == file[chosen[a]]
     IN  IF c.whole /\ c.valid
         THEN loaded' = [loaded EXCEPT ![a] = c] /\ Goto(a, "done")
         ELSE Goto(a, "refused") /\ UNCHANGED loaded
  /\ UNCHANGED <<raced, file, catalog, at, draft, entries, listed, source, warned, chosen, seen>>

Audit(a) ==
  \/ BeginAudit(a) \/ ReadCatalog(a) \/ Verify(a) \/ Verified(a) \/ ScanMeta(a)
  \/ ScanHash(a) \/ Scanned(a) \/ Select(a) \/ Load(a)

Next == (\E b \in Builders : Build(b)) \/ (\E a \in Audits : Audit(a))

Spec == Init /\ [][Next]_vars
-----------------------------------------------------------------------------
Selected(a) == entries[a][chosen[a]]
Quiet(a) == \A f \in Files : \A c, d \in seen[a][f] : c = d

(* An audit no builder interferes with reports the hash of the definition  *)
(* it evaluates, and selects it by its own metadata, whatever crashes and  *)
(* half-finished builds came before; the metadata only as long as no two   *)
(* builds overlapped (platform.py:268-292, engine.py:78-90).               *)
QuietAuditIsConsistent ==
  \A a \in Audits : pc[a] = "done" /\ Quiet(a) =>
    Selected(a).hash = loaded[a] /\ (raced \/ Selected(a).meta = loaded[a].revision)

(* Even amid builds the hash an audit reports is of a content its file had *)
(* during the audit, and so is what it evaluates, which is valid           *)
(* (platform.py:275-280).                                                  *)
HashIsOfThisAudit ==
  \A a \in Audits : pc[a] = "done" =>
    /\ Selected(a).hash \in seen[a][chosen[a]]
    /\ loaded[a] \in seen[a][chosen[a]] /\ loaded[a].whole /\ loaded[a].valid

(* A build that was killed or refused half-way costs no more than the      *)
(* definition it wrote: an audit no builder interferes with fails only     *)
(* over a definition that is torn or invalid, never over the catalog       *)
(* (platform.py:272-290).                                                  *)
OnlyDefinitionsFailAnAudit ==
  \A a \in Audits : pc[a] = "refused" /\ Quiet(a) =>
    \E f \in listed[a] : \E c \in seen[a][f] : ~(c.whole /\ c.valid)

=============================================================================
