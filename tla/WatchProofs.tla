----------------------------- MODULE WatchProofs -----------------------------
(***************************************************************************)
(* What Watch's run checks on three subscribers, two pollers and one       *)
(* request, for any number of them, of edits, and any size of a channel.   *)
(***************************************************************************)
EXTENDS Watch, TLAPS

-----------------------------------------------------------------------------
(* The inductive invariant. *)

DocVersion == Nat \cup {Unwatched}
Prints == [facts : Nat, doc : DocVersion]

CacheTypes ==
    /\ facts \in Nat /\ doc \in Nat /\ log \in Nat
    /\ scope # NoScope =>
          scope \in [facts : Nat, doc : DocVersion, log : Nat, fingerprint : Prints, torn : BOOLEAN]
    /\ get \in [Requests -> [pc : {"idle", "load", "drift", "store"}, facts : Nat,
                             doc : DocVersion, log : Nat]]

\* A load that is to be stored has hashed the document, if it is declared.
DeclaredIsHashed ==
    \A r \in Requests :
        get[r].pc = "store" /\ get[r].facts \in Declaring => get[r].doc # Unwatched

\* A scope was loaded from the files its fingerprint was taken of.
StoredWhole ==
    scope # NoScope /\ ~ scope.torn =>
        /\ scope.facts = scope.fingerprint.facts
        /\ scope.facts \in Declaring => scope.doc = scope.fingerprint.doc

CacheInv == CacheTypes /\ DeclaredIsHashed /\ StoredWhole

PollerPlaces == {"unused", "wait", "walk", "walk with doc", "compare", "send", "exited"}
PollerRecord ==
    [pc : PollerPlaces, last : Prints, seen : Prints,
     subs : SUBSET Clients, sendTo : SUBSET Clients, stop : BOOLEAN]
ClientRecord ==
    [pc : {"away", "attached", "subscribed", "leaving", "gone"},
     watcher : Watchers \cup {NoWatcher}, queued : Nat, looked : Nat \X Nat]

WatchTypes ==
    /\ registered \in Watchers \cup {NoWatcher}
    /\ poller \in [Watchers -> PollerRecord]
    /\ client \in [Clients -> ClientRecord]

Present == {"attached", "subscribed", "leaving"}

\* The subscribers of a watcher are its `subs`.
SubsAreSubscribed ==
    /\ \A c \in Clients : client[c].pc \in Present => client[c].watcher \in Watchers
    /\ \A w \in Watchers : \A c \in Clients :
          c \in poller[w].subs <=> client[c].pc = "subscribed" /\ client[c].watcher = w

\* The last to leave a watcher has stopped it.
LeaverStopped ==
    \A c \in Clients : client[c].pc = "leaving" => poller[client[c].watcher].stop

\* Whoever may still be found in the registry has somebody who will take it out.
RegisteredIsHeld ==
    registered # NoWatcher =>
        \E c \in Clients : client[c].watcher = registered /\ client[c].pc \in Present

\* A poller's prints are of the past.
AtMost(print, files) ==
    print.facts <= files[1] /\ (print.doc # Unwatched => print.doc <= files[2])

PrintsArePast ==
    \A w \in Watchers : AtMost(poller[w].last, Files) /\ AtMost(poller[w].seen, Files)

\* Whoever has not seen what the poller has is owed a notice, or has one to read.
Informed ==
    \A w \in Watchers :
        /\ poller[w].pc # "send" => poller[w].sendTo = {}
        /\ \A c \in Clients : c \in poller[w].subs =>
              \/ c \in poller[w].sendTo \/ client[c].queued > 0
              \/ AtMost(poller[w].last, client[c].looked)

LooksArePast ==
    \A c \in Clients : client[c].looked[1] <= facts /\ client[c].looked[2] <= doc

RunningIsAwaited ==
    \A w \in Running : \E c \in Clients :
        client[c].watcher = w /\ client[c].pc \in {"attached", "subscribed"}

\* A watcher not made yet is nobody's.
UnusedIsUnknown ==
    \A w \in Watchers : poller[w].pc = "unused" =>
        /\ registered # w
        /\ \A c \in Clients : client[c].pc \in Present => client[c].watcher # w

WatchInv ==
    /\ WatchTypes
    /\ UnusedIsUnknown
    /\ SubsAreSubscribed
    /\ LeaverStopped
    /\ RunningIsRegistered
    /\ RunningIsAwaited
    /\ RegisteredIsHeld
    /\ PrintsArePast
    /\ Informed
    /\ LooksArePast

IInv == CacheInv /\ WatchInv

-----------------------------------------------------------------------------
(* The cache: what its steps, and the poller's, leave true. *)

LEMMA PrintOfNow ==
    ASSUME CacheTypes, NEW declared \in BOOLEAN
    PROVE  /\ Fingerprint(declared) \in Prints
           /\ AtMost(Fingerprint(declared), Files)
BY DEF CacheTypes, Fingerprint, Prints, DocVersion, AtMost, Files

LEMMA InitCacheInv == CacheInit => CacheInv
BY ScopeCacheAssumption
   DEF CacheInit, CacheInv, CacheTypes, DeclaredIsHashed, StoredWhole, NotCalled, DocVersion

\* Every step of the daemon's request handlers, and of whoever edits its files.
LEMMA CacheStep ==
    ASSUME CacheInv, CacheNext
    PROVE  /\ CacheInv'
           /\ facts' >= facts /\ doc' >= doc
<1> USE ScopeCacheAssumption
<1>1. CASE Edit
  <2>1. facts' \in Nat /\ doc' \in Nat /\ log' \in Nat /\ facts' >= facts /\ doc' >= doc
    BY <1>1 DEF Edit, CacheInv, CacheTypes
  <2> QED BY <1>1, <2>1 DEF Edit, CacheInv, CacheTypes, DeclaredIsHashed, StoredWhole
<1>2. ASSUME NEW r \in Requests, Miss(r) \/ LoadFacts(r) \/ LoadDocs(r) \/ LoadFails(r)
      PROVE  CacheInv' /\ facts' = facts /\ doc' = doc
  <2>1. UNCHANGED <<facts, doc, log, scope>>
    BY <1>2 DEF Miss, LoadFacts, LoadDocs, LoadFails
  <2>2. CacheTypes'
    BY <1>2, <2>1 DEF CacheInv, CacheTypes, DocVersion, Miss, LoadFacts, LoadDocs, LoadFails, NotCalled
  <2>3. DeclaredIsHashed'
    BY <1>2, <2>1
       DEF CacheInv, CacheTypes, DeclaredIsHashed, DocVersion, Miss, LoadFacts, LoadDocs, LoadFails, NotCalled
  <2>4. StoredWhole'
    BY <2>1 DEF CacheInv, StoredWhole
  <2> QED BY <2>1, <2>2, <2>3, <2>4 DEF CacheInv
<1>3. ASSUME NEW r \in Requests, Store(r)
      PROVE  CacheInv' /\ facts' = facts /\ doc' = doc
  <2>1. UNCHANGED <<facts, doc, log>> /\ scope' = Loaded(r) /\ get' = [get EXCEPT ![r] = NotCalled]
    BY <1>3 DEF Store
  <2>2. CacheTypes'
    BY <2>1 DEF CacheInv, CacheTypes, DocVersion, Prints, Loaded, NotCalled, Fingerprint
  <2>3. DeclaredIsHashed'
    BY <2>1 DEF CacheInv, CacheTypes, DeclaredIsHashed, NotCalled
  <2>4. StoredWhole'
    <3>1. ~ Loaded(r).torn => /\ get[r].facts = facts
                              /\ get[r].doc \in {Unwatched, doc}
      BY DEF Loaded
    <3>2. get[r].facts \in Declaring => get[r].doc # Unwatched
      BY <1>3 DEF Store, CacheInv, DeclaredIsHashed
    <3>3. /\ Loaded(r).facts = get[r].facts
          /\ Loaded(r).doc = get[r].doc
          /\ Loaded(r).fingerprint.facts = facts
          /\ get[r].facts \in Declaring => Loaded(r).fingerprint.doc = doc
      BY DEF Loaded, Fingerprint
    <3> QED BY <2>1, <3>1, <3>2, <3>3 DEF StoredWhole
  <2> QED BY <2>1, <2>2, <2>3, <2>4 DEF CacheInv
<1>4. facts \in Nat /\ doc \in Nat
  BY DEF CacheInv, CacheTypes
<1> QED BY <1>1, <1>2, <1>3, <1>4 DEF CacheNext

LEMMA CacheStays == CacheInv /\ UNCHANGED cacheVars => CacheInv'
BY DEF CacheInv, CacheTypes, DeclaredIsHashed, StoredWhole, cacheVars

\* Files only grow, and so what was of the past stays so.
LEMMA WatchStays ==
    ASSUME IInv, CacheInv', UNCHANGED watchVars, facts' >= facts, doc' >= doc
    PROVE  WatchInv'
<1>1. /\ UNCHANGED <<registered, poller, client, panicked>>
      /\ facts \in Nat /\ doc \in Nat /\ facts' \in Nat /\ doc' \in Nat
  BY DEF watchVars, IInv, CacheInv, CacheTypes
<1>2. /\ WatchTypes' /\ UnusedIsUnknown' /\ SubsAreSubscribed' /\ LeaverStopped' /\ RunningIsRegistered'
      /\ RunningIsAwaited' /\ RegisteredIsHeld' /\ Informed'
  BY <1>1 DEF IInv, WatchInv, WatchTypes, UnusedIsUnknown, SubsAreSubscribed, LeaverStopped, RunningIsRegistered,
              RunningIsAwaited, RegisteredIsHeld, Informed, Running, AtMost
<1>3. PrintsArePast'
  <2> SUFFICES ASSUME NEW w \in Watchers
               PROVE  AtMost(poller[w].last, Files)' /\ AtMost(poller[w].seen, Files)'
    BY DEF PrintsArePast
  <2>1. poller[w].last \in Prints /\ poller[w].seen \in Prints
    BY DEF IInv, WatchInv, WatchTypes, PollerRecord, ClientRecord
  <2>2. AtMost(poller[w].last, Files) /\ AtMost(poller[w].seen, Files)
    BY DEF IInv, WatchInv, PrintsArePast
  <2> QED BY <1>1, <2>1, <2>2 DEF AtMost, Files, Prints, DocVersion
<1>4. LooksArePast'
  <2> SUFFICES ASSUME NEW c \in Clients
               PROVE  client[c].looked[1] <= facts' /\ client[c].looked[2] <= doc'
    BY <1>1 DEF LooksArePast
  <2>1. client[c].looked \in Nat \X Nat
    BY DEF IInv, WatchInv, WatchTypes, PollerRecord, ClientRecord
  <2>2. client[c].looked[1] <= facts /\ client[c].looked[2] <= doc
    BY DEF IInv, WatchInv, LooksArePast
  <2> QED BY <1>1, <2>1, <2>2
<1> QED BY <1>2, <1>3, <1>4 DEF WatchInv

-----------------------------------------------------------------------------
(* The subscribers. *)

LEMMA InitWatchInv == CacheInit /\ WatchInit => WatchInv
<1> SUFFICES ASSUME CacheInit, WatchInit PROVE WatchInv
  OBVIOUS
<1> USE ScopeCacheAssumption, WatchAssumption DEF CacheInit, WatchInit, Unused, NoPrint, Away
<1>1. WatchTypes
  BY DEF WatchTypes, PollerRecord, PollerPlaces, ClientRecord, Prints, DocVersion
<1>2. PrintsArePast
  BY DEF PrintsArePast, AtMost, Files
<1>3. LooksArePast
  BY DEF LooksArePast
<1> QED
  BY <1>1, <1>2, <1>3
     DEF WatchInv, UnusedIsUnknown, SubsAreSubscribed, LeaverStopped, RunningIsRegistered, Running,
         RunningIsAwaited, RegisteredIsHeld, Informed, Present

\* A watcher not made yet has no subscribers.
LEMMA UnusedHasNoSubs ==
    ASSUME WatchInv, NEW w \in Watchers, poller[w].pc = "unused"
    PROVE  poller[w].subs = {}
BY DEF WatchInv, WatchTypes, PollerRecord, UnusedIsUnknown, SubsAreSubscribed, Present

\* What Attach does to the records of its client and of a new poller.
LEMMA AttachedClient ==
    ASSUME WatchTypes, NEW c \in Clients, NEW w \in Watchers,
           client' = [client EXCEPT ![c].pc = "attached", ![c].watcher = w]
    PROVE  /\ client' \in [Clients -> ClientRecord]
           /\ client'[c].pc = "attached" /\ client'[c].watcher = w
           /\ \A d \in Clients :
                 /\ client'[d].queued = client[d].queued
                 /\ client'[d].looked = client[d].looked
                 /\ d # c => client'[d] = client[d]
<1>1. client[c] \in ClientRecord
  BY DEF WatchTypes
<1>2. client' = [client EXCEPT ![c] = [client[c] EXCEPT !.pc = "attached", !.watcher = w]]
  BY <1>1 DEF WatchTypes, ClientRecord
<1> QED BY <1>1, <1>2 DEF WatchTypes, ClientRecord

LEMMA StartedPoller ==
    ASSUME WatchTypes, NEW w \in Watchers, NEW print \in Prints,
           poller' = [poller EXCEPT ![w].pc = "wait", ![w].last = print]
    PROVE  /\ poller' \in [Watchers -> PollerRecord]
           /\ poller'[w].pc = "wait" /\ poller'[w].last = print
           /\ \A v \in Watchers :
                 /\ poller'[v].seen = poller[v].seen
                 /\ poller'[v].subs = poller[v].subs
                 /\ poller'[v].sendTo = poller[v].sendTo
                 /\ poller'[v].stop = poller[v].stop
                 /\ v # w => poller'[v] = poller[v]
<1> DEFINE p == [poller[w] EXCEPT !.pc = "wait", !.last = print]
<1>1. poller[w] \in PollerRecord /\ "wait" \in PollerPlaces
  BY DEF WatchTypes, PollerPlaces
<1>2. poller' = [poller EXCEPT ![w] = p]
  BY <1>1 DEF WatchTypes, PollerRecord
<1>3. /\ p \in PollerRecord /\ p.pc = "wait" /\ p.last = print
      /\ p.seen = poller[w].seen /\ p.subs = poller[w].subs
      /\ p.sendTo = poller[w].sendTo /\ p.stop = poller[w].stop
  BY <1>1 DEF PollerRecord
<1> HIDE DEF p
<1> QED BY <1>2, <1>3 DEF WatchTypes

LEMMA AttachStep ==
    ASSUME IInv, NEW c \in Clients, Attach(c)
    PROVE  WatchInv'
<1> USE WatchAssumption DEF Present
<1>0. /\ UNCHANGED <<facts, doc, scope>>
      /\ client[c].pc = "away" /\ \A w \in Watchers : c \notin poller[w].subs
  BY DEF Attach, StaysUp, cacheVars, IInv, WatchInv, SubsAreSubscribed
<1>t. WatchTypes /\ (registered # NoWatcher => registered \in Watchers)
  BY DEF IInv, WatchInv, WatchTypes
<1>1. ASSUME registered # NoWatcher,
             client' = [client EXCEPT ![c].pc = "attached", ![c].watcher = registered],
             registered' = registered, poller' = poller
      PROVE  WatchInv'
  <2>f. /\ client' \in [Clients -> ClientRecord]
        /\ client'[c].pc = "attached" /\ client'[c].watcher = registered
        /\ \A d \in Clients :
              /\ client'[d].queued = client[d].queued
              /\ client'[d].looked = client[d].looked
              /\ d # c => client'[d] = client[d]
    BY <1>t, <1>1, AttachedClient
  <2>1. WatchTypes'
    BY <1>t, <1>1, <2>f DEF WatchTypes
  <2>2. UnusedIsUnknown' /\ SubsAreSubscribed' /\ LeaverStopped'
    BY <1>0, <1>t, <1>1, <2>f
       DEF IInv, WatchInv, UnusedIsUnknown, SubsAreSubscribed, LeaverStopped
  <2>3. RunningIsRegistered' /\ RunningIsAwaited' /\ RegisteredIsHeld'
    BY <1>0, <1>t, <1>1, <2>f
       DEF IInv, WatchInv, Running, RunningIsRegistered, RunningIsAwaited, RegisteredIsHeld
  <2>4. PrintsArePast' /\ LooksArePast'
    <3>1. Files' = Files
      BY <1>0 DEF Files
    <3>2. LooksArePast'
      BY <1>0, <2>f DEF IInv, WatchInv, LooksArePast
    <3> QED BY <1>1, <3>1, <3>2 DEF IInv, WatchInv, PrintsArePast
  <2>5. Informed'
    BY <1>0, <1>1, <2>f DEF IInv, WatchInv, Informed, AtMost
  <2> QED BY <2>1, <2>2, <2>3, <2>4, <2>5 DEF WatchInv
<1>2. ASSUME registered = NoWatcher, NEW w \in Watchers, poller[w].pc = "unused",
             poller' = [poller EXCEPT ![w].pc = "wait", ![w].last = Fingerprint(Declared)],
             registered' = w,
             client' = [client EXCEPT ![c].pc = "attached", ![c].watcher = w]
      PROVE  WatchInv'
  <2>0. /\ Fingerprint(Declared) \in Prints
        /\ AtMost(Fingerprint(Declared), Files)
    BY PrintOfNow DEF IInv, CacheInv, Declared
  <2>c. /\ client' \in [Clients -> ClientRecord]
        /\ client'[c].pc = "attached" /\ client'[c].watcher = w
        /\ \A d \in Clients :
              /\ client'[d].queued = client[d].queued
              /\ client'[d].looked = client[d].looked
              /\ d # c => client'[d] = client[d]
    BY <1>t, <1>2, AttachedClient
  <2>p. /\ poller' \in [Watchers -> PollerRecord]
        /\ poller'[w].pc = "wait" /\ poller'[w].last = Fingerprint(Declared)
        /\ \A v \in Watchers :
              /\ poller'[v].seen = poller[v].seen
              /\ poller'[v].subs = poller[v].subs
              /\ poller'[v].sendTo = poller[v].sendTo
              /\ poller'[v].stop = poller[v].stop
              /\ v # w => poller'[v] = poller[v]
    BY <1>t, <1>2, <2>0, StartedPoller
  <2>u. /\ poller[w].subs = {}
        /\ \A d \in Clients : client[d].pc \in Present => client[d].watcher # w
        /\ \A v \in Watchers : v \notin Running
    BY <1>2, UnusedHasNoSubs
       DEF IInv, WatchInv, UnusedIsUnknown, RunningIsRegistered, Running
  <2>1. WatchTypes'
    BY <1>2, <2>c, <2>p DEF WatchTypes
  <2>2. UnusedIsUnknown' /\ SubsAreSubscribed' /\ LeaverStopped'
    BY <1>0, <1>2, <2>c, <2>p, <2>u
       DEF IInv, WatchInv, UnusedIsUnknown, SubsAreSubscribed, LeaverStopped
  <2>3. RunningIsRegistered' /\ RunningIsAwaited' /\ RegisteredIsHeld'
    BY <1>0, <1>2, <2>c, <2>p, <2>u
       DEF Running, RunningIsRegistered, RunningIsAwaited, RegisteredIsHeld
  <2>4. PrintsArePast' /\ LooksArePast'
    <3>1. Files' = Files
      BY <1>0 DEF Files
    <3>2. LooksArePast'
      BY <1>0, <2>c DEF IInv, WatchInv, LooksArePast
    <3>3. \A v \in Watchers : /\ AtMost(poller'[v].last, Files)
                              /\ AtMost(poller'[v].seen, Files)
      BY <2>0, <2>p DEF IInv, WatchInv, PrintsArePast
    <3> QED BY <3>1, <3>2, <3>3 DEF PrintsArePast
  <2>5. Informed'
    <3> SUFFICES ASSUME NEW v \in Watchers, NEW d \in Clients
                 PROVE  /\ poller'[v].pc # "send" => poller'[v].sendTo = {}
                        /\ d \in poller'[v].subs =>
                              \/ d \in poller'[v].sendTo \/ client'[d].queued > 0
                              \/ AtMost(poller'[v].last, client'[d].looked)
      BY DEF Informed
    <3>1. CASE v = w
      BY <1>2, <2>p, <2>u, <3>1 DEF IInv, WatchInv, Informed
    <3>2. CASE v # w
      BY <2>c, <2>p, <3>2 DEF IInv, WatchInv, Informed
    <3> QED BY <3>1, <3>2
  <2> QED BY <2>1, <2>2, <2>3, <2>4, <2>5 DEF WatchInv
<1> QED BY <1>1, <1>2 DEF Attach

LEMMA SubscribeStep ==
    ASSUME IInv, NEW c \in Clients, Subscribe(c)
    PROVE  WatchInv'
<1> USE WatchAssumption DEF Present
<1> DEFINE w == client[c].watcher
<1>0. /\ UNCHANGED <<facts, doc, scope, registered>>
      /\ client' = [client EXCEPT ![c].pc = "subscribed", ![c].looked = Files]
      /\ poller' = [poller EXCEPT ![w].subs = @ \cup {c}]
      /\ client[c].pc = "attached"
      /\ w \in Watchers
  BY DEF Subscribe, StaysUp, cacheVars, IInv, WatchInv, SubsAreSubscribed
<1>t. WatchTypes /\ facts \in Nat /\ doc \in Nat
  BY DEF IInv, WatchInv, CacheInv, CacheTypes
<1>c. /\ client' \in [Clients -> ClientRecord]
      /\ client'[c].pc = "subscribed" /\ client'[c].looked = Files
      /\ \A d \in Clients :
            /\ client'[d].queued = client[d].queued
            /\ client'[d].watcher = client[d].watcher
            /\ d # c => client'[d] = client[d]
  <2>1. client[c] \in ClientRecord
    BY <1>t DEF WatchTypes
  <2>2. client' = [client EXCEPT ![c] = [client[c] EXCEPT !.pc = "subscribed", !.looked = Files]]
    BY <1>0, <2>1 DEF WatchTypes, ClientRecord
  <2> HIDE DEF w
  <2> QED BY <1>t, <2>1, <2>2 DEF WatchTypes, ClientRecord, Files
<1>p. /\ poller' \in [Watchers -> PollerRecord]
      /\ \A v \in Watchers :
            /\ poller'[v].pc = poller[v].pc
            /\ poller'[v].last = poller[v].last
            /\ poller'[v].seen = poller[v].seen
            /\ poller'[v].subs = IF v = w THEN poller[v].subs \cup {c} ELSE poller[v].subs
            /\ poller'[v].sendTo = poller[v].sendTo
            /\ poller'[v].stop = poller[v].stop
  <2> HIDE DEF w
  <2> QED BY <1>0, <1>t DEF WatchTypes, PollerRecord, PollerPlaces
<1>1. WatchTypes'
  BY <1>0, <1>t, <1>c, <1>p DEF WatchTypes
<1>2. UnusedIsUnknown' /\ SubsAreSubscribed' /\ LeaverStopped'
  BY <1>0, <1>c, <1>p DEF IInv, WatchInv, UnusedIsUnknown, SubsAreSubscribed, LeaverStopped
<1>3. RunningIsRegistered' /\ RunningIsAwaited' /\ RegisteredIsHeld'
  BY <1>0, <1>c, <1>p
     DEF IInv, WatchInv, Running, RunningIsRegistered, RunningIsAwaited, RegisteredIsHeld
<1>4. PrintsArePast' /\ LooksArePast'
  <2>1. LooksArePast'
    BY <1>0, <1>c, <1>t DEF IInv, WatchInv, LooksArePast, Files
  <2>2. PrintsArePast'
    BY <1>0, <1>p DEF IInv, WatchInv, PrintsArePast, Files
  <2> QED BY <2>1, <2>2
<1>5. Informed'
  <2> SUFFICES ASSUME NEW v \in Watchers, NEW d \in Clients, d \in poller'[v].subs
               PROVE  \/ d \in poller'[v].sendTo \/ client'[d].queued > 0
                      \/ AtMost(poller'[v].last, client'[d].looked)
    BY <1>p DEF IInv, WatchInv, Informed
  <2>1. CASE d = c
    <3>1. AtMost(poller[v].last, Files)
      BY DEF IInv, WatchInv, PrintsArePast
    <3> QED BY <2>1, <3>1, <1>c, <1>p
  <2>2. CASE d # c
    <3>1. d \in poller[v].subs
      <4>1. CASE v = w
        <5>1. poller'[v].subs = poller[v].subs \cup {c}
          BY <4>1, <1>p
        <5> QED BY <2>2, <5>1
      <4>2. CASE v # w
        BY <4>2, <1>p
      <4> QED BY <4>1, <4>2
    <3>2. \/ d \in poller[v].sendTo \/ client[d].queued > 0
          \/ AtMost(poller[v].last, client[d].looked)
      BY <3>1 DEF IInv, WatchInv, Informed
    <3> QED BY <2>2, <3>2, <1>c, <1>p
  <2> QED BY <2>1, <2>2
<1> QED BY <1>1, <1>2, <1>3, <1>4, <1>5 DEF WatchInv

\* Who watches what depends on neither the prints nor the notices.
Ties ==
    /\ UnusedIsUnknown /\ SubsAreSubscribed /\ LeaverStopped
    /\ RunningIsRegistered /\ RunningIsAwaited /\ RegisteredIsHeld

LEMMA TiesStay ==
    ASSUME WatchInv, registered' = registered,
           \A c \in Clients : client'[c].pc = client[c].pc /\ client'[c].watcher = client[c].watcher,
           \A w \in Watchers : /\ poller'[w].subs = poller[w].subs
                               /\ poller'[w].stop = poller[w].stop
                               /\ poller'[w].pc = "unused" <=> poller[w].pc = "unused"
    PROVE  Ties'
<1>1. UnusedIsUnknown' /\ SubsAreSubscribed'
  BY DEF WatchInv, UnusedIsUnknown, SubsAreSubscribed
<1>2. LeaverStopped'
  <2> SUFFICES ASSUME NEW c \in Clients, client'[c].pc = "leaving"
               PROVE  poller'[client'[c].watcher].stop
    BY DEF LeaverStopped
  <2>1. client[c].watcher \in Watchers /\ poller[client[c].watcher].stop
    BY DEF WatchInv, SubsAreSubscribed, LeaverStopped, Present
  <2> QED BY <2>1
<1>3. Running' = Running
  BY DEF Running
<1>4. RunningIsRegistered' /\ RunningIsAwaited' /\ RegisteredIsHeld'
  BY <1>3 DEF WatchInv, RunningIsRegistered, RunningIsAwaited, RegisteredIsHeld
<1> QED BY <1>1, <1>2, <1>4 DEF Ties

LEMMA ReceiveStep ==
    ASSUME IInv, NEW c \in Clients, Receive(c)
    PROVE  WatchInv'
<1>0. /\ UNCHANGED <<facts, doc, scope, registered, poller>>
      /\ client' = [client EXCEPT ![c].queued = @ - 1, ![c].looked = Files]
      /\ client[c].queued > 0
      /\ Files' = Files
  BY DEF Receive, StaysUp, cacheVars, Files
<1>t. WatchTypes /\ facts \in Nat /\ doc \in Nat
  BY DEF IInv, WatchInv, CacheInv, CacheTypes
<1>c. /\ client' \in [Clients -> ClientRecord]
      /\ client'[c].looked = Files
      /\ \A d \in Clients :
            /\ client'[d].pc = client[d].pc
            /\ client'[d].watcher = client[d].watcher
            /\ d # c => client'[d] = client[d]
  <2>1. client[c] \in ClientRecord /\ client[c].queued - 1 \in Nat
    BY <1>0, <1>t DEF WatchTypes, ClientRecord
  <2>2. client' = [client EXCEPT ![c] = [client[c] EXCEPT !.queued = client[c].queued - 1, !.looked = Files]]
    BY <1>0, <2>1 DEF WatchTypes, ClientRecord
  <2> QED BY <1>t, <2>1, <2>2 DEF WatchTypes, ClientRecord, Files
<1>1. WatchTypes'
  BY <1>0, <1>t, <1>c DEF WatchTypes
<1>2. Ties'
  BY <1>0, <1>c, TiesStay DEF IInv
<1>3. LooksArePast'
  BY <1>0, <1>c, <1>t DEF IInv, WatchInv, LooksArePast, Files
<1>4. PrintsArePast'
  BY <1>0 DEF IInv, WatchInv, PrintsArePast
<1>5. Informed'
  <2> SUFFICES ASSUME NEW v \in Watchers, NEW d \in Clients, d \in poller[v].subs
               PROVE  \/ d \in poller[v].sendTo \/ client'[d].queued > 0
                      \/ AtMost(poller[v].last, client'[d].looked)
    BY <1>0 DEF IInv, WatchInv, Informed
  <2>1. AtMost(poller[v].last, Files)
    BY DEF IInv, WatchInv, PrintsArePast
  <2>2. \/ d \in poller[v].sendTo \/ client[d].queued > 0
        \/ AtMost(poller[v].last, client[d].looked)
    BY DEF IInv, WatchInv, Informed
  <2> QED BY <2>1, <2>2, <1>c
<1> QED BY <1>1, <1>2, <1>3, <1>4, <1>5 DEF WatchInv, Ties

\* The last to leave stops the poller; until then somebody is left who may.
LEMMA LeaveStep ==
    ASSUME IInv, NEW c \in Clients, Leave(c)
    PROVE  WatchInv'
<1> DEFINE w == client[c].watcher
           left == poller[w].subs \ {c}
<1>0. /\ UNCHANGED <<facts, doc, registered>> /\ Files' = Files
      /\ client[c].pc = "subscribed"
      /\ w \in Watchers
      /\ poller' = [poller EXCEPT ![w].subs = left, ![w].stop = @ \/ left = {}]
      /\ client' = [client EXCEPT ![c] =
            IF left = {} THEN [Away EXCEPT !.pc = "leaving", !.watcher = w]
            ELSE [Away EXCEPT !.pc = "gone"]]
  BY DEF Leave, StaysUp, cacheVars, Files, IInv, WatchInv, SubsAreSubscribed, Present
<1>t. WatchTypes /\ facts \in Nat /\ doc \in Nat
  BY DEF IInv, WatchInv, CacheInv, CacheTypes
<1>c. /\ client' \in [Clients -> ClientRecord]
      /\ \A d \in Clients : d # c => client'[d] = client[d]
      /\ client'[c].looked = <<0, 0>>
      /\ left = {} => client'[c].pc = "leaving" /\ client'[c].watcher = w
      /\ left # {} => client'[c].pc = "gone"
  <2> HIDE DEF w, left
  <2> QED BY <1>0, <1>t DEF WatchTypes, ClientRecord, Away
<1>p. /\ poller' \in [Watchers -> PollerRecord]
      /\ \A v \in Watchers :
            /\ poller'[v].pc = poller[v].pc
            /\ poller'[v].last = poller[v].last
            /\ poller'[v].seen = poller[v].seen
            /\ poller'[v].sendTo = poller[v].sendTo
            /\ v # w => poller'[v].subs = poller[v].subs
      /\ poller'[w].subs = left
  <2>1. poller[w] \in PollerRecord /\ left \in SUBSET Clients
    BY <1>0, <1>t DEF WatchTypes, PollerRecord, PollerPlaces
  <2>2. PICK b \in BOOLEAN : b = (poller[w].stop \/ left = {})
    OBVIOUS
  <2> DEFINE p == [poller[w] EXCEPT !.subs = left, !.stop = b]
  <2>3. poller' = [poller EXCEPT ![w] = p]
    BY <1>0, <2>1, <2>2, <1>t DEF WatchTypes, PollerRecord, PollerPlaces
  <2> HIDE DEF w, left
  <2>4. /\ p \in PollerRecord /\ p.subs = left
        /\ p.pc = poller[w].pc /\ p.last = poller[w].last
        /\ p.seen = poller[w].seen /\ p.sendTo = poller[w].sendTo
    BY <2>1 DEF PollerRecord, PollerPlaces
  <2> HIDE DEF p
  <2>5. /\ poller' \in [Watchers -> PollerRecord] /\ poller'[w] = p
        /\ \A v \in Watchers : v # w => poller'[v] = poller[v]
    BY <1>0, <1>t, <2>3, <2>4 DEF WatchTypes
  <2> QED BY <2>4, <2>5
<1>s. \A v \in Watchers : poller'[v].stop <=> poller[v].stop \/ (v = w /\ left = {})
  BY <1>0, <1>t DEF WatchTypes, PollerRecord, PollerPlaces
<1>l. \A d \in Clients : d \in left <=> /\ client[d].pc = "subscribed" /\ client[d].watcher = w
                                        /\ d # c
  BY <1>0 DEF IInv, WatchInv, SubsAreSubscribed
<1>e. left # {} => \E d \in Clients : d \in left
  BY <1>0, <1>t DEF WatchTypes, PollerRecord, PollerPlaces
<1> HIDE DEF w, left
<1>1. WatchTypes'
  BY <1>0, <1>t, <1>c, <1>p DEF WatchTypes
<1>2. UnusedIsUnknown'
  <2>1. poller[w].pc # "unused"
    BY <1>0 DEF IInv, WatchInv, UnusedIsUnknown, Present, w
  <2> SUFFICES ASSUME NEW v \in Watchers, poller[v].pc = "unused", NEW d \in Clients,
                      client'[d].pc \in Present
               PROVE  registered # v /\ client'[d].watcher # v
    BY <1>0, <1>p DEF IInv, WatchInv, UnusedIsUnknown
  <2>2. registered # v /\ (client[d].pc \in Present => client[d].watcher # v)
    BY DEF IInv, WatchInv, UnusedIsUnknown
  <2> QED BY <1>c, <2>1, <2>2 DEF Present
<1>3. SubsAreSubscribed'
  <2>1. \A d \in Clients : client'[d].pc \in Present => client'[d].watcher \in Watchers
    BY <1>0, <1>c DEF IInv, WatchInv, SubsAreSubscribed, Present
  <2>2. ASSUME NEW v \in Watchers, NEW d \in Clients
        PROVE  d \in poller'[v].subs <=> client'[d].pc = "subscribed" /\ client'[d].watcher = v
    <3>1. CASE d = c
      <4>1. client'[d].pc # "subscribed"
        BY <1>c, <3>1
      <4>2. client[c].watcher = w
        BY DEF w
      <4>3. v # w => c \notin poller[v].subs
        BY <4>2 DEF IInv, WatchInv, SubsAreSubscribed
      <4>4. c \notin left
        BY DEF left
      <4> QED BY <1>p, <3>1, <4>1, <4>3, <4>4
    <3>2. CASE d # c /\ v = w
      BY <1>c, <1>p, <1>l, <3>2
    <3>3. CASE d # c /\ v # w
      BY <1>c, <1>p, <3>3 DEF IInv, WatchInv, SubsAreSubscribed
    <3> QED BY <3>1, <3>2, <3>3
  <2> QED BY <2>1, <2>2 DEF SubsAreSubscribed
<1>4. LeaverStopped'
  <2> SUFFICES ASSUME NEW d \in Clients, client'[d].pc = "leaving"
               PROVE  poller'[client'[d].watcher].stop
    BY DEF LeaverStopped
  <2>1. CASE d = c
    BY <1>0, <1>c, <1>s, <2>1
  <2>2. CASE d # c
    <3>1. client[d].watcher \in Watchers /\ poller[client[d].watcher].stop
      BY <1>c, <2>2 DEF IInv, WatchInv, LeaverStopped, SubsAreSubscribed, Present
    <3> QED BY <1>c, <1>s, <2>2, <3>1
  <2> QED BY <2>1, <2>2
<1>5. \A v \in Running' : v \in Running /\ (v = w => left # {})
  BY <1>p, <1>s DEF Running
<1>6. RunningIsRegistered'
  BY <1>0, <1>5 DEF IInv, WatchInv, RunningIsRegistered
<1>7. RunningIsAwaited'
  <2> SUFFICES ASSUME NEW v \in Running'
               PROVE  \E d \in Clients : /\ client'[d].watcher = v
                                         /\ client'[d].pc \in {"attached", "subscribed"}
    BY DEF RunningIsAwaited
  <2>1. CASE v = w
    <3>1. PICK d \in Clients : d \in left
      BY <1>5, <1>e, <2>1
    <3> QED BY <1>c, <1>l, <2>1, <3>1
  <2>2. CASE v # w
    <3>1. PICK d \in Clients : client[d].watcher = v /\ client[d].pc \in {"attached", "subscribed"}
      BY <1>5 DEF IInv, WatchInv, RunningIsAwaited
    <3>2. d # c
      BY <2>2, <3>1 DEF w
    <3> QED BY <1>c, <3>1, <3>2
  <2> QED BY <2>1, <2>2
<1>8. RegisteredIsHeld'
  <2> SUFFICES ASSUME registered # NoWatcher
               PROVE  \E d \in Clients : client'[d].watcher = registered /\ client'[d].pc \in Present
    BY <1>0 DEF RegisteredIsHeld
  <2>1. PICK d \in Clients : client[d].watcher = registered /\ client[d].pc \in Present
    BY DEF IInv, WatchInv, RegisteredIsHeld
  <2>2. CASE d # c
    BY <1>c, <2>1, <2>2
  <2>3. CASE d = c /\ left = {}
    BY <1>c, <2>1, <2>3 DEF w, Present
  <2>4. CASE d = c /\ left # {}
    <3>1. PICK e \in Clients : e \in left
      BY <1>e, <2>4
    <3>2. client[d].watcher = w
      BY <2>4 DEF w
    <3> QED BY <1>c, <1>l, <2>1, <3>1, <3>2 DEF Present
  <2> QED BY <2>2, <2>3, <2>4
<1>9. PrintsArePast'
  BY <1>0, <1>p DEF IInv, WatchInv, PrintsArePast
<1>10. LooksArePast'
  <2> SUFFICES ASSUME NEW d \in Clients
               PROVE  client'[d].looked[1] <= facts /\ client'[d].looked[2] <= doc
    BY <1>0 DEF LooksArePast
  <2>1. CASE d = c
    BY <1>c, <1>t, <2>1
  <2>2. CASE d # c
    BY <1>c, <2>2 DEF IInv, WatchInv, LooksArePast
  <2> QED BY <2>1, <2>2
<1>11. Informed'
  <2>1. \A v \in Watchers : poller'[v].pc # "send" => poller'[v].sendTo = {}
    BY <1>p DEF IInv, WatchInv, Informed
  <2>2. ASSUME NEW v \in Watchers, NEW d \in Clients, d \in poller'[v].subs
        PROVE  \/ d \in poller'[v].sendTo \/ client'[d].queued > 0
               \/ AtMost(poller'[v].last, client'[d].looked)
    <3>1. d # c
      <4>1. client'[c].pc # "subscribed"
        BY <1>c
      <4> QED BY <1>3, <2>2, <4>1 DEF SubsAreSubscribed
    <3>2. d \in poller[v].subs
      <4>1. CASE v = w
        <5>1. d \in left
          BY <1>p, <2>2, <4>1
        <5> QED BY <4>1, <5>1 DEF left
      <4>2. CASE v # w
        BY <1>p, <2>2, <4>2
      <4> QED BY <4>1, <4>2
    <3>3. \/ d \in poller[v].sendTo \/ client[d].queued > 0
          \/ AtMost(poller[v].last, client[d].looked)
      BY <3>2 DEF IInv, WatchInv, Informed
    <3> QED BY <1>c, <1>p, <3>1, <3>3
  <2> QED BY <2>1, <2>2 DEF Informed
<1> QED
  BY <1>1, <1>2, <1>3, <1>4, <1>6, <1>7, <1>8, <1>9, <1>10, <1>11 DEF WatchInv

LEMMA UnregisterStep ==
    ASSUME IInv, NEW c \in Clients, Unregister(c)
    PROVE  WatchInv'
<1> USE WatchAssumption
<1> DEFINE w == client[c].watcher
<1>0. /\ UNCHANGED <<facts, doc, poller>> /\ Files' = Files
      /\ client[c].pc = "leaving"
      /\ w \in Watchers /\ poller[w].stop
      /\ registered' = IF registered = w THEN NoWatcher ELSE registered
      /\ client' = [client EXCEPT ![c] = [Away EXCEPT !.pc = "gone"]]
  BY DEF Unregister, StaysUp, cacheVars, Files, IInv, WatchInv, SubsAreSubscribed, LeaverStopped, Present
<1>t. WatchTypes /\ facts \in Nat /\ doc \in Nat
  BY DEF IInv, WatchInv, CacheInv, CacheTypes
<1>c. /\ client' \in [Clients -> ClientRecord]
      /\ \A d \in Clients : d # c => client'[d] = client[d]
      /\ client'[c].looked = <<0, 0>> /\ client'[c].pc = "gone"
  <2> HIDE DEF w
  <2> QED BY <1>0, <1>t DEF WatchTypes, ClientRecord, Away
<1>1. WatchTypes'
  BY <1>0, <1>t, <1>c DEF WatchTypes
<1>2. UnusedIsUnknown' /\ SubsAreSubscribed' /\ LeaverStopped'
  BY <1>0, <1>c DEF IInv, WatchInv, UnusedIsUnknown, SubsAreSubscribed, LeaverStopped, Present
<1>3. Running' = Running /\ w \notin Running
  BY <1>0 DEF Running
<1>4. RunningIsRegistered'
  BY <1>0, <1>3 DEF IInv, WatchInv, RunningIsRegistered
<1>5. RunningIsAwaited'
  BY <1>0, <1>c, <1>3 DEF IInv, WatchInv, RunningIsAwaited
<1>6. RegisteredIsHeld'
  <2> SUFFICES ASSUME registered # NoWatcher, registered # w
               PROVE  \E d \in Clients : client'[d].watcher = registered /\ client'[d].pc \in Present
    BY <1>0 DEF RegisteredIsHeld
  <2>1. PICK d \in Clients : client[d].watcher = registered /\ client[d].pc \in Present
    BY DEF IInv, WatchInv, RegisteredIsHeld
  <2> QED BY <1>c, <2>1
<1>7. PrintsArePast'
  BY <1>0 DEF IInv, WatchInv, PrintsArePast
<1>8. LooksArePast'
  <2> SUFFICES ASSUME NEW d \in Clients
               PROVE  client'[d].looked[1] <= facts /\ client'[d].looked[2] <= doc
    BY <1>0 DEF LooksArePast
  <2>1. CASE d = c
    BY <1>c, <1>t, <2>1
  <2>2. CASE d # c
    BY <1>c, <2>2 DEF IInv, WatchInv, LooksArePast
  <2> QED BY <2>1, <2>2
<1>9. Informed'
  <2>1. \A v \in Watchers : c \notin poller[v].subs
    BY <1>0 DEF IInv, WatchInv, SubsAreSubscribed
  <2>2. ASSUME NEW v \in Watchers, NEW d \in Clients, d \in poller[v].subs
        PROVE  \/ d \in poller[v].sendTo \/ client'[d].queued > 0
               \/ AtMost(poller[v].last, client'[d].looked)
    <3>1. client'[d] = client[d]
      BY <1>c, <2>1, <2>2
    <3> QED BY <2>2, <3>1 DEF IInv, WatchInv, Informed
  <2> QED BY <1>0, <2>2 DEF IInv, WatchInv, Informed
<1> QED
  BY <1>1, <1>2, <1>4, <1>5, <1>6, <1>7, <1>8, <1>9 DEF WatchInv

-----------------------------------------------------------------------------
(* The poller. *)

\* What a step of a poller that tells nobody leaves to be shown.
LEMMA PollerStep ==
    ASSUME IInv, UNCHANGED <<facts, doc, registered, client>>, NEW w \in Watchers,
           NEW p \in PollerRecord, poller' = [poller EXCEPT ![w] = p],
           p.subs = poller[w].subs, p.stop = poller[w].stop,
           p.pc = "unused" <=> poller[w].pc = "unused",
           AtMost(p.last, Files), AtMost(p.seen, Files),
           p.pc # "send" => p.sendTo = {},
           \A c \in Clients : c \in p.subs =>
               c \in p.sendTo \/ client[c].queued > 0 \/ AtMost(p.last, client[c].looked)
    PROVE  WatchInv'
<1>t. WatchTypes /\ Files' = Files
  BY DEF IInv, WatchInv, Files
<1>1. poller' \in [Watchers -> PollerRecord] /\ \A v \in Watchers : poller'[v] = IF v = w THEN p ELSE poller[v]
  BY <1>t DEF WatchTypes
<1>2. WatchTypes'
  BY <1>t, <1>1 DEF WatchTypes
<1>3. Ties'
  BY <1>1, TiesStay DEF IInv
<1>4. PrintsArePast'
  BY <1>t, <1>1 DEF IInv, WatchInv, PrintsArePast
<1>5. LooksArePast'
  BY DEF IInv, WatchInv, LooksArePast
<1>6. Informed'
  BY <1>1 DEF IInv, WatchInv, Informed
<1> QED BY <1>2, <1>3, <1>4, <1>5, <1>6 DEF WatchInv, Ties

LEMMA PollerFacts ==
    ASSUME IInv, NEW w \in Watchers
    PROVE  /\ poller[w] \in PollerRecord
           /\ AtMost(poller[w].last, Files) /\ AtMost(poller[w].seen, Files)
           /\ poller[w].pc # "send" => poller[w].sendTo = {}
           /\ \A c \in Clients : c \in poller[w].subs =>
                 \/ c \in poller[w].sendTo \/ client[c].queued > 0
                 \/ AtMost(poller[w].last, client[c].looked)
BY DEF IInv, WatchInv, WatchTypes, PrintsArePast, Informed

LEMMA AskStep ==
    ASSUME IInv, NEW w \in Watchers, Ask(w)
    PROVE  WatchInv'
<1> DEFINE at == IF Declared THEN "walk with doc" ELSE "walk"
           p == [poller[w] EXCEPT !.pc = at]
<1>1. /\ UNCHANGED <<facts, doc, registered, client>>
      /\ poller[w].pc = "wait"
  BY DEF Ask, StaysUp, cacheVars
<1>2. at \in {"walk", "walk with doc"}
  OBVIOUS
<1>3. poller[w] \in PollerRecord /\ poller[w].sendTo = {}
  BY <1>1, PollerFacts
<1>5. poller' = [poller EXCEPT ![w] = p]
  BY DEF Ask, IInv, WatchInv, WatchTypes
<1> HIDE DEF at
<1>4. /\ p \in PollerRecord /\ p.pc = at /\ p.seen = poller[w].seen
      /\ p.last = poller[w].last /\ p.subs = poller[w].subs
      /\ p.stop = poller[w].stop /\ p.sendTo = poller[w].sendTo
  BY <1>2, <1>3 DEF PollerRecord, PollerPlaces
<1> HIDE DEF p
<1> QED BY <1>1, <1>2, <1>3, <1>4, <1>5, PollerFacts, PollerStep

LEMMA SweepStep ==
    ASSUME IInv, NEW w \in Watchers, Sweep(w)
    PROVE  WatchInv'
<1> DEFINE f == Fingerprint(poller[w].pc = "walk with doc")
           p == [poller[w] EXCEPT !.pc = "compare", !.seen = f]
<1>1. /\ UNCHANGED <<facts, doc, registered, client>>
      /\ poller[w].pc \in {"walk", "walk with doc"}
  BY DEF Sweep, StaysUp, cacheVars
<1>2. f \in Prints /\ AtMost(f, Files)
  BY PrintOfNow DEF IInv, CacheInv
<1>3. poller[w] \in PollerRecord /\ poller[w].sendTo = {}
  BY <1>1, PollerFacts
<1>5. poller' = [poller EXCEPT ![w] = p]
  BY DEF Sweep, IInv, WatchInv, WatchTypes
<1> HIDE DEF f
<1>4. /\ p \in PollerRecord /\ p.pc = "compare" /\ p.seen = f
      /\ p.last = poller[w].last /\ p.subs = poller[w].subs
      /\ p.stop = poller[w].stop /\ p.sendTo = poller[w].sendTo
  BY <1>2, <1>3 DEF PollerRecord, PollerPlaces
<1> HIDE DEF p
<1> QED BY <1>1, <1>2, <1>3, <1>4, <1>5, PollerFacts, PollerStep

\* The baseline moves only together with the list of those to be told.
LEMMA CompareStep ==
    ASSUME IInv, NEW w \in Watchers, Compare(w)
    PROVE  WatchInv'
<1>0. UNCHANGED <<facts, doc, registered, client>> /\ poller[w].pc = "compare"
  BY DEF Compare, StaysUp, cacheVars
<1>1. CASE poller' = [poller EXCEPT ![w].pc = "wait"]
  <2> DEFINE p == [poller[w] EXCEPT !.pc = "wait"]
  <2>1. poller[w] \in PollerRecord /\ poller[w].sendTo = {}
    BY <1>0, PollerFacts
  <2>2. /\ p \in PollerRecord /\ p.pc = "wait" /\ p.seen = poller[w].seen
        /\ p.last = poller[w].last /\ p.subs = poller[w].subs
        /\ p.stop = poller[w].stop /\ p.sendTo = poller[w].sendTo
    BY <2>1 DEF PollerRecord, PollerPlaces
  <2>3. poller' = [poller EXCEPT ![w] = p]
    BY <1>1
  <2> HIDE DEF p
  <2> QED BY <1>0, <2>1, <2>2, <2>3, PollerFacts, PollerStep
<1>2. CASE poller' = [poller EXCEPT ![w].pc = "send", ![w].last = poller[w].seen,
                                    ![w].sendTo = poller[w].subs]
  <2> DEFINE p == [poller[w] EXCEPT !.pc = "send", !.last = poller[w].seen, !.sendTo = poller[w].subs]
  <2>1. poller[w] \in PollerRecord
    BY PollerFacts
  <2>2. /\ p \in PollerRecord /\ p.pc = "send" /\ p.seen = poller[w].seen
        /\ p.last = poller[w].seen /\ p.subs = poller[w].subs
        /\ p.stop = poller[w].stop /\ p.sendTo = poller[w].subs
    BY <2>1 DEF PollerRecord, PollerPlaces
  <2>3. poller' = [poller EXCEPT ![w] = p]
    BY <1>2 DEF IInv, WatchInv, WatchTypes
  <2> HIDE DEF p
  <2> QED BY <1>0, <2>2, <2>3, PollerFacts, PollerStep
<1> QED BY <1>1, <1>2 DEF Compare

LEMMA SentStep ==
    ASSUME IInv, NEW w \in Watchers, Sent(w)
    PROVE  WatchInv'
<1> DEFINE p == [poller[w] EXCEPT !.pc = "wait"]
<1>1. /\ UNCHANGED <<facts, doc, registered, client>>
      /\ poller[w].pc = "send" /\ poller[w].sendTo = {}
      /\ poller' = [poller EXCEPT ![w] = p]
  BY DEF Sent, StaysUp, cacheVars
<1>2. /\ p \in PollerRecord /\ p.pc = "wait" /\ p.seen = poller[w].seen
      /\ p.last = poller[w].last /\ p.subs = poller[w].subs
      /\ p.stop = poller[w].stop /\ p.sendTo = poller[w].sendTo
  BY PollerFacts DEF PollerRecord, PollerPlaces
<1> HIDE DEF p
<1> QED BY <1>1, <1>2, PollerFacts, PollerStep

\* A poller that was stopped has no subscribers it owes anything.
LEMMA ExitStep ==
    ASSUME IInv, NEW w \in Watchers, Exit(w)
    PROVE  WatchInv'
<1> DEFINE p == [Unused EXCEPT !.pc = "exited", !.stop = TRUE, !.subs = poller[w].subs]
<1>1. /\ UNCHANGED <<facts, doc, registered, client>>
      /\ poller[w].pc = "wait" /\ poller[w].stop
      /\ poller' = [poller EXCEPT ![w] = p]
  BY DEF Exit, StaysUp, cacheVars
<1>2. poller[w] \in PollerRecord /\ facts \in Nat /\ doc \in Nat
  BY PollerFacts DEF IInv, CacheInv, CacheTypes
<1>3. /\ p \in PollerRecord /\ p.pc = "exited" /\ p.seen = NoPrint
      /\ p.last = NoPrint /\ p.subs = poller[w].subs
      /\ p.stop = TRUE /\ p.sendTo = {}
  BY <1>2 DEF PollerRecord, PollerPlaces, Unused, NoPrint, Prints, DocVersion
<1>4. ASSUME NEW f \in Nat \X Nat PROVE AtMost(NoPrint, f)
  BY DEF AtMost, NoPrint
<1>5. /\ Files \in Nat \X Nat
      /\ \A c \in Clients : client[c].looked \in Nat \X Nat
  BY <1>2 DEF Files, IInv, WatchInv, WatchTypes, ClientRecord
<1> HIDE DEF p
<1> QED BY <1>1, <1>2, <1>3, <1>4, <1>5, PollerStep

\* Whoever is taken off the list has a notice in the channel: the one just sent,
\* or those that filled it.
LEMMA SendStep ==
    ASSUME IInv, NEW w \in Watchers, NEW c \in Clients, Send(w, c)
    PROVE  WatchInv'
<1> USE WatchAssumption
<1>0. /\ UNCHANGED <<facts, doc, registered>> /\ Files' = Files
      /\ poller[w].pc = "send"
      /\ poller' = [poller EXCEPT ![w].sendTo = @ \ {c}]
      /\ \/ /\ client[c].pc = "subscribed"
            /\ client' = [client EXCEPT ![c].queued = IF @ < Buffer THEN @ + 1 ELSE @]
         \/ client[c].pc # "subscribed" /\ client' = client
  BY DEF Send, cacheVars, Files
<1>t. WatchTypes
  BY DEF IInv, WatchInv
<1>c. /\ client' \in [Clients -> ClientRecord]
      /\ \A d \in Clients :
            /\ client'[d].pc = client[d].pc
            /\ client'[d].watcher = client[d].watcher
            /\ client'[d].looked = client[d].looked
            /\ client[d].queued > 0 => client'[d].queued > 0
      /\ client[c].pc = "subscribed" => client'[c].queued > 0
  BY <1>0, <1>t DEF WatchTypes, ClientRecord
<1>p. /\ poller' \in [Watchers -> PollerRecord]
      /\ \A v \in Watchers :
            /\ poller'[v].pc = poller[v].pc
            /\ poller'[v].last = poller[v].last
            /\ poller'[v].seen = poller[v].seen
            /\ poller'[v].subs = poller[v].subs
            /\ poller'[v].stop = poller[v].stop
            /\ v # w => poller'[v].sendTo = poller[v].sendTo
      /\ poller'[w].sendTo = poller[w].sendTo \ {c}
  BY <1>0, <1>t DEF WatchTypes, PollerRecord, PollerPlaces
<1>1. WatchTypes'
  BY <1>0, <1>t, <1>c, <1>p DEF WatchTypes
<1>2. Ties'
  BY <1>0, <1>c, <1>p, TiesStay DEF IInv
<1>3. PrintsArePast'
  BY <1>0, <1>p DEF IInv, WatchInv, PrintsArePast
<1>4. LooksArePast'
  BY <1>0, <1>c DEF IInv, WatchInv, LooksArePast
<1>5. Informed'
  <2>1. ASSUME NEW v \in Watchers, poller'[v].pc # "send" PROVE poller'[v].sendTo = {}
    BY <1>0, <1>p, <2>1 DEF IInv, WatchInv, Informed
  <2>2. ASSUME NEW v \in Watchers, NEW d \in Clients, d \in poller[v].subs
        PROVE  \/ d \in poller'[v].sendTo \/ client'[d].queued > 0
               \/ AtMost(poller[v].last, client[d].looked)
    <3>1. \/ d \in poller[v].sendTo \/ client[d].queued > 0
          \/ AtMost(poller[v].last, client[d].looked)
      BY <2>2, PollerFacts
    <3>2. client[d].pc = "subscribed"
      BY <2>2 DEF IInv, WatchInv, SubsAreSubscribed
    <3>3. CASE d \in poller[v].sendTo /\ v = w /\ d = c
      BY <1>c, <3>2, <3>3
    <3>4. CASE d \in poller[v].sendTo /\ ~ (v = w /\ d = c)
      <4>1. CASE v = w
        <5>1. poller'[v].sendTo = poller[v].sendTo \ {c}
          BY <4>1, <1>p
        <5> QED BY <4>1, <3>4, <5>1
      <4>2. CASE v # w
        BY <4>2, <3>4, <1>p
      <4> QED BY <4>1, <4>2
    <3>5. CASE client[d].queued > 0
      BY <1>c, <3>5
    <3> QED BY <3>1, <3>3, <3>4, <3>5
  <2> QED BY <1>c, <1>p, <2>1, <2>2 DEF Informed
<1> QED BY <1>1, <1>2, <1>3, <1>4, <1>5 DEF WatchInv, Ties

-----------------------------------------------------------------------------
(* The daemon. *)

LEMMA InitIInv == Init => IInv
BY InitCacheInv, InitWatchInv DEF Init, IInv

LEMMA StepIInv == IInv /\ [Next]_vars => IInv'
<1> SUFFICES ASSUME IInv, [Next]_vars PROVE IInv'
  OBVIOUS
<1>1. CASE UNCHANGED vars
  <2>1. UNCHANGED cacheVars /\ UNCHANGED watchVars /\ facts' = facts /\ doc' = doc
    BY <1>1 DEF vars, cacheVars, watchVars
  <2>2. facts' >= facts /\ doc' >= doc
    BY <2>1 DEF IInv, CacheInv, CacheTypes
  <2> QED BY <2>1, <2>2, CacheStays, WatchStays DEF IInv
<1>2. CASE CacheNext /\ UNCHANGED watchVars
  BY <1>2, CacheStep, WatchStays DEF IInv
<1>3. CASE WatchNext
  <2>1. UNCHANGED cacheVars
    BY <1>3 DEF WatchNext, Attach, Subscribe, Receive, Leave, Unregister, Ask, Sweep, Compare, Send, Sent,
                Exit, StaysUp
  <2>2. ASSUME NEW c \in Clients,
               Attach(c) \/ Subscribe(c) \/ Receive(c) \/ Leave(c) \/ Unregister(c)
        PROVE  WatchInv'
    BY <2>2, AttachStep, SubscribeStep, ReceiveStep, LeaveStep, UnregisterStep
  <2>3. ASSUME NEW w \in Watchers, Ask(w) \/ Sweep(w) \/ Compare(w) \/ Sent(w) \/ Exit(w)
        PROVE  WatchInv'
    BY <2>3, AskStep, SweepStep, CompareStep, SentStep, ExitStep
  <2>4. ASSUME NEW w \in Watchers, NEW c \in Clients, Send(w, c)
        PROVE  WatchInv'
    BY <2>4, SendStep
  <2>5. WatchInv'
    BY <1>3, <2>2, <2>3, <2>4 DEF WatchNext
  <2> QED BY <2>1, <2>5, CacheStays DEF IInv
<1> QED BY <1>1, <1>2, <1>3 DEF Next

\* The inductive invariant of the cache and the watchers together: what is stored
\* was read whole, and whoever is registered, running or subscribed is so in every
\* place that says it.
THEOREM Invariance == Spec => []IInv
BY InitIInv, StepIInv, PTL DEF Spec

\* What the daemon answers from its cache is the facts, and the declared document,
\* of this moment, unless a file moved during the load that filled it (Get,
\* fingerprint): for any number of concurrent requests and edits.
THEOREM CacheIsCurrentUnlessTorn == Spec => []HitIsCurrentUnlessTorn
<1>1. IInv => HitIsCurrentUnlessTorn
  BY DEF IInv, CacheInv, StoredWhole, HitIsCurrentUnlessTorn, WouldHit, Declared, Fingerprint
<1> QED BY <1>1, Invariance, PTL

\* One poller at most sweeps a scope's files, the registered one, however
\* subscribers come and go between its two locks (Watch, unsubscribe).
THEOREM OnePollerPerScope == Spec => []RunningIsRegistered
<1>1. IInv => RunningIsRegistered
  BY DEF IInv, WatchInv
<1> QED BY <1>1, Invariance, PTL

\* A poller that was not stopped has somebody to tell, and nothing is registered
\* once everybody has left (Watch's cancel).
THEOREM NoPollerOutlivesItsClients == Spec => []RunningIsWanted
<1>1. IInv => RunningIsWanted
  BY DEF IInv, WatchInv, RunningIsAwaited, RegisteredIsHeld, RunningIsWanted, Present
<1> QED BY <1>1, Invariance, PTL

\* Dropping a notice for a full channel loses nothing, whatever the channel holds
\* (run): a settled poller's subscriber with nothing left to read has seen the
\* files as they are.
THEOREM DroppedNoticesAreMadeUp == Spec => []NoNoticeLost
<1>1. IInv => NoNoticeLost
  <2> SUFFICES ASSUME IInv, NEW w \in Running, NEW c \in poller[w].subs,
                      Settled(w), client[c].queued = 0
               PROVE  /\ client[c].looked[1] = facts
                      /\ Declared => client[c].looked[2] = doc
    BY DEF NoNoticeLost
  <2>1. w \in Watchers /\ poller[w] \in PollerRecord
    BY PollerFacts DEF Running
  <2>2. c \in Clients
    BY <2>1 DEF PollerRecord, PollerPlaces
  <2>3. AtMost(poller[w].last, client[c].looked)
    BY <2>1, <2>2, PollerFacts DEF Settled
  <2>4. client[c].looked[1] <= facts /\ client[c].looked[2] <= doc
    BY <2>2 DEF IInv, WatchInv, LooksArePast
  <2>5. /\ client[c].looked \in Nat \X Nat /\ facts \in Nat /\ doc \in Nat
    BY <2>2 DEF IInv, WatchInv, WatchTypes, ClientRecord, CacheInv, CacheTypes
  <2>6. facts <= client[c].looked[1] /\ (Declared => doc <= client[c].looked[2])
    BY <2>3, <2>5, ScopeCacheAssumption DEF Settled, AtMost, Fingerprint
  <2> QED BY <2>4, <2>5, <2>6
<1> QED BY <1>1, Invariance, PTL
=============================================================================
