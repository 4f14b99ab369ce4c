----------------------------- MODULE ScopeCache -----------------------------
(***************************************************************************)
(* The daemon's cache of one loaded scope (registry.go): Get compares a    *)
(* fingerprint of the files with the one the cached scope was stored       *)
(* under, and on a difference loads the files and fingerprints them again, *)
(* holding the registry's lock, while editors and `kg` change the files    *)
(* without it.                                                             *)
(*                                                                         *)
(* A file is a version number, which its size and mtime are taken to       *)
(* change with.  Three kinds matter: the facts (walked for), an evidence   *)
(* document (stat'd only when the loaded facts declare it), and the        *)
(* assertion log (read by a load, and not among the files fingerprinted).  *)
(***************************************************************************)
EXTENDS Integers

CONSTANTS
    Requests,       \* request handlers calling Get
    Declaring,      \* the versions of the facts that declare the document
    Edited,         \* bound: the kinds of file that are edited
    MaxEdits,       \* bound: edits of each file
    NoScope,        \* nothing is cached for the key
    Unwatched,      \* the document of facts that declare none
    Nobody          \* the registry's lock is free

ASSUME ScopeCacheAssumption ==
    /\ Declaring \subseteq Nat
    /\ Unwatched \notin Nat
    /\ Nobody \notin Requests

VARIABLES
    facts, doc, log,    \* the versions of the files
    scope,              \* r.scopes[key]
    lock,               \* r.mu: its holder
    get                 \* get[r]: the Get call r is executing

cacheVars == <<facts, doc, log, scope, lock, get>>

\* Mutant of Fingerprint: `extra` is not stat'd.
MutantWalksOnly(declared) == [facts |-> facts, doc |-> Unwatched]

\* fingerprint: the facts, and the document where it is known to be declared.
Fingerprint(declared) ==
    [facts |-> facts, doc |-> IF declared THEN doc ELSE Unwatched]

\* docsLocked: what the last load declared.
Declared == scope # NoScope /\ scope.facts \in Declaring

NotCalled == [pc |-> "idle", facts |-> 0, doc |-> Unwatched, log |-> 0]

CacheInit ==
    /\ facts = 0 /\ doc = 0 /\ log = 0
    /\ scope = NoScope
    /\ lock = Nobody
    /\ get = [r \in Requests |-> NotCalled]

-----------------------------------------------------------------------------
(* The files, under the daemon. *)

Edit ==
    /\ \/ "facts" \in Edited /\ facts < MaxEdits /\ facts' = facts + 1 /\ UNCHANGED <<doc, log>>
       \/ "doc" \in Edited /\ doc < MaxEdits /\ doc' = doc + 1 /\ UNCHANGED <<facts, log>>
       \/ "log" \in Edited /\ log < MaxEdits /\ log' = log + 1 /\ UNCHANGED <<facts, doc>>
    /\ UNCHANGED <<scope, lock, get>>

-----------------------------------------------------------------------------
(* Get.  A call that finds nothing changed returns the scope and changes     *)
(* nothing: WouldHit says when.                                             *)

\* Get would answer from the cache.
WouldHit == scope # NoScope /\ scope.fingerprint = Fingerprint(Declared)

Miss(r) ==
    /\ lock = Nobody
    /\ get[r].pc = "idle"
    /\ ~ WouldHit
    /\ lock' = r
    /\ get' = [get EXCEPT ![r].pc = "load"]
    /\ UNCHANGED <<facts, doc, log, scope>>

\* LoadIn reads the facts and the log and builds the graph ...
LoadFacts(r) ==
    /\ get[r].pc = "load"
    /\ get' = [get EXCEPT ![r] = [pc |-> "drift", facts |-> facts, doc |-> Unwatched, log |-> log]]
    /\ UNCHANGED <<facts, doc, log, scope, lock>>

\* ... and then hashes the documents the graph declares (CheckSourceDrift).
LoadDocs(r) ==
    /\ get[r].pc = "drift"
    /\ get' = [get EXCEPT ![r].pc = "store",
                          ![r].doc = IF get[r].facts \in Declaring THEN doc ELSE Unwatched]
    /\ UNCHANGED <<facts, doc, log, scope, lock>>

\* The load fails: the error is returned and what was cached stays.
LoadFails(r) ==
    /\ get[r].pc # "idle"
    /\ get' = [get EXCEPT ![r] = NotCalled]
    /\ lock' = Nobody
    /\ UNCHANGED <<facts, doc, log, scope>>

\* What Get stores: the loaded scope under a second fingerprint, taken now,
\* with the documents this load declared.  `torn` is history: the files the
\* fingerprint covers moved while they were being loaded.
Loaded(r) ==
    [facts |-> get[r].facts, doc |-> get[r].doc, log |-> get[r].log,
     fingerprint |-> Fingerprint(get[r].facts \in Declaring),
     torn |-> get[r].facts # facts \/ get[r].doc \notin {Unwatched, doc}]

Store(r) ==
    /\ get[r].pc = "store"
    /\ scope' = Loaded(r)
    /\ get' = [get EXCEPT ![r] = NotCalled]
    /\ lock' = Nobody
    /\ UNCHANGED <<facts, doc, log>>

CacheNext ==
    \/ Edit
    \/ \E r \in Requests :
          Miss(r) \/ LoadFacts(r) \/ LoadDocs(r) \/ LoadFails(r) \/ Store(r)

-----------------------------------------------------------------------------
\* "An exhibit is re-scanned, every fact still reads the same, the fingerprint
\* does not move, and the daemon keeps answering `fresh` for a document that is
\* not" (fingerprint): where no file moved during the load itself, a scope
\* answered from the cache holds the facts, and the declared document, there are
\* now.
HitIsCurrentUnlessTorn ==
    WouldHit /\ ~ scope.torn =>
        /\ scope.facts = facts
        /\ scope.facts \in Declaring => scope.doc = doc

\* "fingerprint stats every file whose content can change an answer": a scope
\* answered from the cache is what a load would give.
HitIsCurrent ==
    WouldHit =>
        /\ scope.facts = facts
        /\ scope.log = log
        /\ scope.facts \in Declaring => scope.doc = doc
=============================================================================
