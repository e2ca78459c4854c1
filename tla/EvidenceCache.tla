--------------------------- MODULE EvidenceCache ---------------------------
(***************************************************************************)
(* System.cached and the collector bookkeeping of lsa/system.py.           *)
(*                                                                         *)
(* A caller (a condition or a check provider) asks for an item of evidence *)
(* by key.  A miss runs the key's builder, which may itself ask for other  *)
(* keys (advanced_option asks for vim-cmd and esxcli output, os_release    *)
(* for a file) so builds nest: `stack' is the Python call stack of cached  *)
(* builders, and a pending exception (`raised') unwinds it frame by frame. *)
(* What the host answers is nondeterministic at every read, because the    *)
(* host is live while it is audited.                                       *)
(***************************************************************************)
EXTENDS Integers, Sequences, FiniteSets

CONSTANTS
  Keys,          \* evidence keys: "passwd", "sshd-T:...", "advopt:..."
  Collectors,    \* the collector identifiers of COLLECTORS
  CollectorOf,   \* [Keys -> Collectors], the collector each caller passes
  Asks,          \* [Keys -> SUBSET Keys], what a key's builder may ask for
  Tolerant,      \* keys whose builder handles EvidenceUnavailable itself
  Sources,       \* files read past the cache, by read_text
  Commands,      \* commands run past the cache, by run
  SourceOf,      \* [Sources \cup Commands -> Collectors], the collector of each
  Values,        \* values evidence can have
  Reasons,       \* EvidenceUnavailable instances (reason and permission)
  Crash,         \* any other exception
  CommandError,  \* what run notes of a command that timed out or did not start
  Absent,        \* "no entry", "no exception", "tracking is off"
  MaxErrors      \* bound: unexpected exceptions counted per collector

Answers == Values \cup Reasons

ASSUME SentinelsDistinct ==
  /\ Absent \notin Answers \cup {Crash} \cup Keys
  /\ \A window \in SUBSET Collectors : window # Absent
  /\ Crash \notin Answers
  /\ Values \cap Reasons = {}

ASSUME WiringAssumption ==
  /\ CollectorOf \in [Keys -> Collectors]
  /\ SourceOf \in [Sources \cup Commands -> Collectors]
  /\ Asks \in [Keys -> SUBSET Keys]
  /\ Tolerant \subseteq Keys
  /\ IsFiniteSet(Keys)
  /\ MaxErrors \in Nat

(* Builders never ask for themselves, directly or through others: the call *)
(* graph of the repository's builders has no cycle, so it can be ranked.   *)
ASSUME AcyclicAssumption ==
  \E rank \in [Keys -> 0 .. Cardinality(Keys)] :
    \A k \in Keys : \A j \in Asks[k] : rank[j] < rank[k]

VARIABLES
  cache,       \* System._cache: a value, an EvidenceUnavailable, or Absent
  opened,      \* collectors that System._state has created
  successes,   \* _CollectorState.successes
  failures,    \* _CollectorState.failures
  errors,      \* _CollectorState.errors
  limitation,  \* CollectorExecution.limitation_reason
  notes,       \* CollectorExecution.api_errors, as the set of its messages
  tracking,    \* System._tracking: collectors used, or Absent when off
  stack,       \* keys being built, innermost last
  raised,      \* the exception unwinding now, or Absent
  raisedBy,    \* history: the key whose cached call raised it, or Absent
  told         \* history: every answer a caller of a key was given

tallies == <<successes, failures, errors, limitation, notes>>
cacheVars == <<cache, opened, tallies, tracking, stack, raised, raisedBy, told>>

CacheTypeOK ==
  /\ cache \in [Keys -> Answers \cup {Absent}]
  /\ opened \in SUBSET Collectors
  /\ successes \in [Collectors -> Nat]
  /\ failures \in [Collectors -> Nat]
  /\ errors \in [Collectors -> Nat]
  /\ limitation \in [Collectors -> Reasons \cup {Absent}]
  /\ notes \in [Collectors -> SUBSET (Reasons \cup {Crash, CommandError})]
  /\ tracking \in (SUBSET Collectors) \cup {Absent}
  /\ stack \in Seq(Keys)
  /\ raised \in Reasons \cup {Crash, Absent}
  /\ raisedBy \in Keys \cup {Absent}
  /\ told \in [Keys -> SUBSET (Answers \cup {Crash})]

CacheInit ==
  /\ cache = [k \in Keys |-> Absent]
  /\ opened = {}
  /\ successes = [c \in Collectors |-> 0]
  /\ failures = [c \in Collectors |-> 0]
  /\ errors = [c \in Collectors |-> 0]
  /\ limitation = [c \in Collectors |-> Absent]
  /\ notes = [c \in Collectors |-> {}]
  /\ tracking = Absent
  /\ stack = <<>>
  /\ raised = Absent
  /\ raisedBy = Absent
  /\ told = [k \in Keys |-> {}]

-----------------------------------------------------------------------------
(* The running frame: the innermost builder, or the caller of the cache.   *)

Building == stack # <<>>
Top == stack[Len(stack)]
Running == raised = Absent
MayAsk(k) == Building => k \in Asks[Top]

Push(k) == stack' = Append(stack, k)
Pop == stack' = SubSeq(stack, 1, Len(stack) - 1)
Tell(k, answer) == told' = [told EXCEPT ![k] = @ \cup {answer}]

(* Raise an exception out of a frame; `k' is the key it is blamed on.      *)
Throw(e, k) == raised' = e /\ raisedBy' = k

(* System.use: the collector exists from now on and is in the window.      *)
Use(c) ==
  /\ opened' = opened \cup {c}
  /\ tracking' = IF tracking = Absent THEN Absent ELSE tracking \cup {c}

-----------------------------------------------------------------------------
(* Bug: the hit returns before use(), so the window misses the collector.  *)
HitBeforeUse(k) ==
  /\ Running /\ MayAsk(k)
  /\ cache[k] # Absent
  /\ IF cache[k] \in Reasons THEN Throw(cache[k], k) ELSE Throw(Absent, Absent)
  /\ Tell(k, cache[k])
  /\ UNCHANGED <<cache, opened, tallies, tracking, stack>>

(* cached() finds an entry: return the value, or raise the stored error.   *)
Hit(k) ==
  /\ Running /\ MayAsk(k)
  /\ cache[k] # Absent
  /\ Use(CollectorOf[k])
  /\ IF cache[k] \in Reasons THEN Throw(cache[k], k) ELSE Throw(Absent, Absent)
  /\ Tell(k, cache[k])
  /\ UNCHANGED <<cache, tallies, stack>>

(* Bug: the cache is never consulted and every call builds anew.           *)
MissAlways(k) ==
  /\ Running /\ MayAsk(k)
  /\ Use(CollectorOf[k])
  /\ Push(k)
  /\ UNCHANGED <<cache, tallies, raised, raisedBy, told>>

(* cached() finds nothing: the builder starts.                             *)
Miss(k) ==
  /\ Running /\ MayAsk(k)
  /\ cache[k] = Absent
  /\ Use(CollectorOf[k])
  /\ Push(k)
  /\ UNCHANGED <<cache, tallies, raised, raisedBy, told>>

(* The builder returns: its value is counted, stored and handed back.      *)
Succeed(v) ==
  /\ Running /\ Building
  /\ successes' = [successes EXCEPT ![CollectorOf[Top]] = @ + 1]
  /\ cache' = [cache EXCEPT ![Top] = v]
  /\ Tell(Top, v)
  /\ Pop
  /\ UNCHANGED <<opened, failures, errors, limitation, notes, tracking, raised, raisedBy>>

(* Bug: the exception is not stored, so the next caller builds again.      *)
FailForgets ==
  /\ raised \in Reasons /\ Building
  /\ LET c == CollectorOf[Top]
     IN /\ failures' = [failures EXCEPT ![c] = IF @ < MaxErrors THEN @ + 1 ELSE @]
        /\ notes' = [notes EXCEPT ![c] = @ \cup {raised}]
        /\ limitation' = [limitation EXCEPT ![c] = IF @ = Absent THEN raised ELSE @]
  /\ Throw(raised, Top)
  /\ Tell(Top, raised)
  /\ Pop
  /\ UNCHANGED <<cache, opened, successes, errors, tracking>>

(* EvidenceUnavailable leaves the builder: the failure is counted, noted   *)
(* and explained, the exception is stored, and it goes on to the caller.   *)
Fail ==
  /\ raised \in Reasons /\ Building
  /\ LET c == CollectorOf[Top]
     IN /\ failures' = [failures EXCEPT ![c] = @ + 1]
        /\ notes' = [notes EXCEPT ![c] = @ \cup {raised}]
        /\ limitation' = [limitation EXCEPT ![c] = IF @ = Absent THEN raised ELSE @]
  /\ cache' = [cache EXCEPT ![Top] = raised]
  /\ Throw(raised, Top)
  /\ Tell(Top, raised)
  /\ Pop
  /\ UNCHANGED <<opened, successes, errors, tracking>>

(* Bug: any exception is stored, the unexpected ones too.                  *)
BlowStores ==
  /\ raised = Crash /\ Building
  /\ LET c == CollectorOf[Top]
     IN /\ errors' = [errors EXCEPT ![c] = @ + 1]
        /\ notes' = [notes EXCEPT ![c] = @ \cup {Crash}]
  /\ cache' = [cache EXCEPT ![Top] = Crash]
  /\ Throw(Crash, Top)
  /\ Tell(Top, Crash)
  /\ Pop
  /\ UNCHANGED <<opened, successes, failures, limitation, tracking>>

(* Any other exception leaves the builder: counted, not stored.            *)
Blow ==
  /\ raised = Crash /\ Building
  /\ LET c == CollectorOf[Top]
     IN /\ errors' = [errors EXCEPT ![c] = @ + 1]
        /\ notes' = [notes EXCEPT ![c] = @ \cup {Crash}]
  /\ Throw(Crash, Top)
  /\ Tell(Top, Crash)
  /\ Pop
  /\ UNCHANGED <<cache, opened, successes, failures, limitation, tracking>>

-----------------------------------------------------------------------------
(* Steps of the running frame that are not cached calls.                   *)

(* System.read_text: nothing is remembered, the host answers afresh.       *)
ReadHost(s, answer) ==
  /\ Running
  /\ Use(SourceOf[s])
  /\ raised' = IF answer \in Reasons THEN answer ELSE Absent
  /\ UNCHANGED <<cache, tallies, stack, raisedBy, told>>

(* System.run: the result comes back also when the command timed out or    *)
(* did not start, and the collector then notes it.                         *)
RunCommand(s, error) ==
  /\ Running
  /\ Use(SourceOf[s])
  /\ notes' = [notes EXCEPT ![SourceOf[s]] = @ \cup error]
  /\ UNCHANGED <<cache, successes, failures, errors, limitation, stack, raised, raisedBy, told>>

(* The frame itself raises: evidence it cannot parse, a missing command    *)
(* or file, or a defect.                                                   *)
Raise(e) ==
  /\ Running
  /\ e = Crash => \A c \in Collectors : errors[c] < MaxErrors
  /\ Throw(e, Absent)
  /\ UNCHANGED <<cache, opened, tallies, tracking, stack, told>>

(* A builder that handles EvidenceUnavailable carries on without it.       *)
Tolerate ==
  /\ raised \in Reasons /\ Building /\ Top \in Tolerant
  /\ Throw(Absent, Absent)
  /\ UNCHANGED <<cache, opened, tallies, tracking, stack, told>>

(* The evidence-gathering steps, whoever the caller is.                    *)
Gather ==
  \/ \E k \in Keys : Hit(k) \/ Miss(k)
  \/ \E v \in Values : Succeed(v)
  \/ Fail
  \/ Blow
  \/ \E s \in Sources, answer \in Answers : ReadHost(s, answer)
  \/ \E s \in Commands, error \in SUBSET {CommandError} : RunCommand(s, error)
  \/ \E e \in Reasons \cup {Crash} : Raise(e)
  \/ Tolerate

-----------------------------------------------------------------------------
(* The caller's own steps, between cached calls.                           *)

BeginTracking ==
  /\ ~Building /\ Running
  /\ tracking' = {}
  /\ UNCHANGED <<cache, opened, tallies, stack, raised, raisedBy, told>>

(* end_tracking sits in a `finally': it ends the window whether or not an  *)
(* exception reached the caller, and evaluate lets none go further.        *)
EndTracking ==
  /\ ~Building
  /\ tracking' = Absent
  /\ Throw(Absent, Absent)
  /\ UNCHANGED <<cache, opened, tallies, stack, told>>

(* A condition, provider or the prefetch handles the exception itself.     *)
Handle ==
  /\ ~Building /\ raised # Absent
  /\ Throw(Absent, Absent)
  /\ UNCHANGED <<cache, opened, tallies, tracking, stack, told>>

Client == BeginTracking \/ EndTracking \/ Handle

CacheNext == Gather \/ Client

CacheSpec == CacheInit /\ [][CacheNext]_cacheVars
-----------------------------------------------------------------------------
(* System.collectors(): the status a collector is reported with.           *)
CollectorStatus(c) ==
  IF errors[c] > 0 /\ successes[c] = 0 THEN "ERROR"
  ELSE IF failures[c] + errors[c] > 0 /\ successes[c] > 0 THEN "PARTIAL"
  ELSE IF failures[c] + errors[c] > 0 THEN "NOT_ASSESSED"
  ELSE "SUCCESS"

PagesCollected(c) == successes[c] + failures[c] + errors[c]

(* The cached evidence of a collector.                                     *)
Settled(c) == {k \in Keys : CollectorOf[k] = c /\ cache[k] # Absent}

-----------------------------------------------------------------------------
(* All callers of a key that get an answer at all get the same one, and it *)
(* is the one in the cache: two controls judged on one item of evidence    *)
(* are judged on the same state of the host, however the host changed in   *)
(* between and however often a build crashed (system.py:336-361).          *)
SameAnswer ==
  \A k \in Keys : told[k] \ {Crash} \subseteq {cache[k]}

(* A key is built to an answer at most once: a collector's successes and   *)
(* failures together count exactly its settled keys, so no build is        *)
(* counted twice and none goes uncounted (system.py:343-359).              *)
TallyMatchesCache ==
  \A c \in Collectors : successes[c] + failures[c] = Cardinality(Settled(c))

(* When unavailable evidence is about to reach a caller through the cache, *)
(* the collector it came from is in the tracking window, is reported as    *)
(* anything but SUCCESS and states a reason one of its keys still gives,   *)
(* on a hit of an old failure as on the first (system.py:337, 346-352).    *)
FailureIsAttributed ==
  raised \in Reasons /\ raisedBy # Absent =>
    LET c == CollectorOf[raisedBy]
    IN /\ tracking # Absent => c \in tracking
       /\ CollectorStatus(c) # "SUCCESS"
       /\ cache[raisedBy] = raised
       /\ \E k \in Settled(c) : cache[k] = limitation[c]

(* No key is rebuilt inside its own build, and what is being built has no  *)
(* answer yet: an inner build can never settle an outer one's key behind   *)
(* its back (system.py:338-345).                                           *)
NoReentry ==
  /\ \A i \in 1 .. Len(stack) : cache[stack[i]] = Absent
  /\ \A i, j \in 1 .. Len(stack) : i # j => stack[i] # stack[j]

(* A blemish is for ever: once a collector is reported as anything but     *)
(* SUCCESS no later success of it clears that (system.py:363-378).         *)
BlemishIsKept ==
  [][\A c \in Collectors :
       CollectorStatus(c) # "SUCCESS" => CollectorStatus(c)' # "SUCCESS"]_cacheVars
=============================================================================
