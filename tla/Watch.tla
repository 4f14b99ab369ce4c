------------------------------- MODULE Watch -------------------------------
(***************************************************************************)
(* Change notification (watch.go) beside the cache it takes the declared   *)
(* documents from: the console's subscribers share one poller per scope,   *)
(* which compares fingerprints and sends to the subscribers it found under *)
(* its lock after it let the lock go.                                      *)
(*                                                                         *)
(* A step under w.mu or r.mu is atomic; the poller's sends and a           *)
(* subscriber's two locks (the registry's, then the watcher's) are         *)
(* separate steps.                                                         *)
(***************************************************************************)
EXTENDS ScopeCache, FiniteSets

CONSTANTS
    Clients,        \* connections to /events
    MaxWatchers,    \* bound: watchers ever created
    Buffer,         \* the capacity of a subscriber's channel
    NoWatcher       \* r.watchers holds none for the key

Watchers == 1..MaxWatchers

ASSUME WatchAssumption ==
    /\ MaxWatchers \in Nat
    /\ Buffer \in Nat \ {0}
    /\ NoWatcher \notin Watchers

VARIABLES
    registered,     \* r.watchers[key]
    poller,         \* poller[w]: the run goroutine of watcher w
    client,         \* client[c]: the /events handler of c
    panicked        \* a send on a closed channel ended the process

watchVars == <<registered, poller, client, panicked>>
vars == <<facts, doc, log, scope, lock, get, registered, poller, client, panicked>>

NoPrint == [facts |-> 0, doc |-> Unwatched]
Unused == [pc |-> "unused", last |-> NoPrint, seen |-> NoPrint,
           subs |-> {}, sendTo |-> {}, stop |-> FALSE]
Away == [pc |-> "away", watcher |-> NoWatcher, queued |-> 0, looked |-> <<0, 0>>]

\* What a client that looks sees, of the files the poller can see move.
Files == <<facts, doc>>

WatchInit ==
    /\ registered = NoWatcher
    /\ poller = [w \in Watchers |-> Unused]
    /\ client = [c \in Clients |-> Away]
    /\ panicked = FALSE

\* A panic ends the daemon; every step below is a step of a daemon that is up.
StaysUp == ~ panicked /\ UNCHANGED <<cacheVars, panicked>>

-----------------------------------------------------------------------------
(* A subscriber. *)

\* Mutant of Attach: a joiner gives the shared watcher a new baseline.
MutantRebaseline(c) ==
    /\ client[c].pc = "away"
    /\ lock = Nobody
    /\ \/ /\ registered # NoWatcher
          /\ client' = [client EXCEPT ![c].pc = "attached", ![c].watcher = registered]
          /\ poller' = [poller EXCEPT ![registered].last = Fingerprint(Declared)]
          /\ UNCHANGED registered
       \/ /\ registered = NoWatcher
          /\ \E w \in Watchers :
                /\ poller[w].pc = "unused"
                /\ \A v \in 1..(w - 1) : poller[v].pc # "unused"
                /\ poller' = [poller EXCEPT ![w].pc = "wait", ![w].last = Fingerprint(Declared)]
                /\ registered' = w
                /\ client' = [client EXCEPT ![c].pc = "attached", ![c].watcher = w]
    /\ StaysUp

\* Watch, under r.mu: the scope's watcher, made and started if there is none.
Attach(c) ==
    /\ client[c].pc = "away"
    /\ lock = Nobody
    /\ \/ /\ registered # NoWatcher
          /\ client' = [client EXCEPT ![c].pc = "attached", ![c].watcher = registered]
          /\ UNCHANGED <<registered, poller>>
       \/ /\ registered = NoWatcher
          /\ \E w \in Watchers :
                /\ poller[w].pc = "unused"
                /\ \A v \in 1..(w - 1) : poller[v].pc # "unused"
                /\ poller' = [poller EXCEPT ![w].pc = "wait", ![w].last = Fingerprint(Declared)]
                /\ registered' = w
                /\ client' = [client EXCEPT ![c].pc = "attached", ![c].watcher = w]
    /\ StaysUp

\* subscribe, under w.mu: the client is owed a notice of what moves from now on.
Subscribe(c) ==
    /\ client[c].pc = "attached"
    /\ client' = [client EXCEPT ![c].pc = "subscribed", ![c].looked = Files]
    /\ poller' = [poller EXCEPT ![client[c].watcher].subs = @ \cup {c}]
    /\ UNCHANGED registered
    /\ StaysUp

\* A notice is read and the client looks again.
Receive(c) ==
    /\ client[c].pc = "subscribed"
    /\ client[c].queued > 0
    /\ client' = [client EXCEPT ![c].queued = @ - 1, ![c].looked = Files]
    /\ UNCHANGED <<registered, poller>>
    /\ StaysUp

\* Mutant of Leave: the poller is not told.
MutantNeverStops(c) ==
    /\ client[c].pc = "subscribed"
    /\ LET w == client[c].watcher
           left == poller[w].subs \ {c}
       IN  /\ poller' = [poller EXCEPT ![w].subs = left]
           /\ client' = [client EXCEPT ![c] =
                  IF left = {} THEN [Away EXCEPT !.pc = "leaving", !.watcher = w]
                  ELSE [Away EXCEPT !.pc = "gone"]]
    /\ UNCHANGED registered
    /\ StaysUp

\* unsubscribe, under w.mu: the channel is closed, and the poller stopped if
\* nobody else is subscribed.
Leave(c) ==
    /\ client[c].pc = "subscribed"
    /\ LET w == client[c].watcher
           left == poller[w].subs \ {c}
       IN  /\ poller' = [poller EXCEPT ![w].subs = left, ![w].stop = @ \/ left = {}]
           /\ client' = [client EXCEPT ![c] =
                  IF left = {} THEN [Away EXCEPT !.pc = "leaving", !.watcher = w]
                  ELSE [Away EXCEPT !.pc = "gone"]]
    /\ UNCHANGED registered
    /\ StaysUp

\* Mutant of Unregister: whatever watcher is there is taken out.
MutantUnregistersAny(c) ==
    /\ client[c].pc = "leaving"
    /\ lock = Nobody
    /\ registered' = NoWatcher
    /\ client' = [client EXCEPT ![c] = [Away EXCEPT !.pc = "gone"]]
    /\ UNCHANGED poller
    /\ StaysUp

\* The rest of cancel, under r.mu.
Unregister(c) ==
    /\ client[c].pc = "leaving"
    /\ lock = Nobody
    /\ registered' = IF registered = client[c].watcher THEN NoWatcher ELSE registered
    /\ client' = [client EXCEPT ![c] = [Away EXCEPT !.pc = "gone"]]
    /\ UNCHANGED poller
    /\ StaysUp

-----------------------------------------------------------------------------
(* The poller. *)

\* The timer fires and the declared documents are asked for, under r.mu: the files
\* are to be walked, with or without the document.
Ask(w) ==
    /\ poller[w].pc = "wait"
    /\ lock = Nobody
    /\ poller' = [poller EXCEPT ![w].pc = IF Declared THEN "walk with doc" ELSE "walk"]
    /\ UNCHANGED <<registered, client>>
    /\ StaysUp

\* The files are fingerprinted, with r.mu let go: a Get may load others meanwhile.
Sweep(w) ==
    /\ poller[w].pc \in {"walk", "walk with doc"}
    /\ poller' = [poller EXCEPT ![w].pc = "compare",
                                ![w].seen = Fingerprint(poller[w].pc = "walk with doc")]
    /\ UNCHANGED <<registered, client>>
    /\ StaysUp

\* Under w.mu: what moved, and whom to tell.
Compare(w) ==
    /\ poller[w].pc = "compare"
    /\ \/ /\ poller[w].seen = poller[w].last
          /\ poller' = [poller EXCEPT ![w].pc = "wait"]
       \/ /\ poller[w].seen # poller[w].last
          /\ poller' = [poller EXCEPT ![w].pc = "send", ![w].last = poller[w].seen,
                                      ![w].sendTo = poller[w].subs]
    /\ UNCHANGED <<registered, client>>
    /\ StaysUp

\* One send of the loop, after w.mu was let go: a full channel drops the notice,
\* a channel closed meanwhile panics.
Send(w, c) ==
    /\ ~ panicked
    /\ poller[w].pc = "send"
    /\ c \in poller[w].sendTo
    /\ poller' = [poller EXCEPT ![w].sendTo = @ \ {c}]
    /\ \/ /\ client[c].pc = "subscribed"
          /\ client' = [client EXCEPT ![c].queued = IF @ < Buffer THEN @ + 1 ELSE @]
          /\ UNCHANGED panicked
       \/ /\ client[c].pc # "subscribed"
          /\ panicked' = TRUE
          /\ UNCHANGED client
    /\ UNCHANGED registered
    /\ UNCHANGED cacheVars

Sent(w) ==
    /\ poller[w].pc = "send"
    /\ poller[w].sendTo = {}
    /\ poller' = [poller EXCEPT ![w].pc = "wait"]
    /\ UNCHANGED <<registered, client>>
    /\ StaysUp

\* The select finds `stop` closed.
Exit(w) ==
    /\ poller[w].pc = "wait"
    /\ poller[w].stop
    /\ poller' = [poller EXCEPT ![w] = [Unused EXCEPT !.pc = "exited", !.stop = TRUE,
                                                     !.subs = poller[w].subs]]
    /\ UNCHANGED <<registered, client>>
    /\ StaysUp

WatchNext ==
    \/ \E c \in Clients : Attach(c) \/ Subscribe(c) \/ Receive(c) \/ Leave(c) \/ Unregister(c)
    \/ \E w \in Watchers :
          Ask(w) \/ Sweep(w) \/ Compare(w) \/ Sent(w) \/ Exit(w) \/ \E c \in Clients : Send(w, c)

-----------------------------------------------------------------------------
Init == CacheInit /\ WatchInit

Next ==
    \/ ~ panicked /\ CacheNext /\ UNCHANGED watchVars
    \/ WatchNext

Spec == Init /\ [][Next]_vars

-----------------------------------------------------------------------------
Running == {w \in Watchers : poller[w].pc # "unused" /\ ~ poller[w].stop}

\* "Ten browser tabs must cost one stat sweep, not ten" and no stat sweep may
\* outlive its subscribers: a poller nobody stopped is the one in the registry,
\* where the next subscriber finds it.
RunningIsRegistered == \A w \in Running : registered = w

\* "The poller must stop when the last subscriber leaves, or a long-lived daemon
\* accumulates a stat sweep per project ever opened" (watch_test.go): a poller
\* nobody stopped has a subscriber, or somebody about to subscribe; once everybody
\* has left there is neither a poller nor a watcher to be found.
RunningIsWanted ==
    /\ \A w \in Running : \E c \in Clients :
          client[c].watcher = w /\ client[c].pc \in {"attached", "subscribed"}
    /\ (\A c \in Clients : client[c].pc \in {"away", "gone"}) => registered = NoWatcher

\* The poller has compared, and nothing has moved since.
Settled(w) ==
    poller[w].pc = "wait" /\ poller[w].last = Fingerprint(Declared)

\* "A client that missed one will learn it from the next" (run): dropping a
\* notice for a full channel loses nothing.  A subscriber of a running poller
\* that has settled, with no notice left to read, has looked since the last edit
\* of a file that is watched.
NoNoticeLost ==
    \A w \in Running : \A c \in poller[w].subs :
        Settled(w) /\ client[c].queued = 0 =>
            /\ client[c].looked[1] = facts
            /\ Declared => client[c].looked[2] = doc

\* A poller outlives the leaving of a subscriber: "a slow reader must never stall
\* the poller or its siblings" (subscribe), nor may one that left.
PollerSurvivesLeaving == ~ panicked
=============================================================================
