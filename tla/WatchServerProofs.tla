--------------------------- MODULE WatchServerProofs ---------------------------
(***************************************************************************)
(* Theorems about WatchServer, for every value of its constants.           *)
(***************************************************************************)
EXTENDS WatchServer, PartialMapsProofs, SequenceTheorems, TLAPS

-----------------------------------------------------------------------------
(***************************************************************************)
(* Maps from names to versions.                                            *)
(***************************************************************************)
\* A map of versions is a function on some of the names.
LEMMA VersionMapIsMap ==
  ASSUME NEW m
  PROVE  m \in VersionMaps <=> IsMap(m, Names, 1..MaxVersion)
BY DEF VersionMaps, IsMap

\* The map without entries is a map of versions.
LEMMA NoVersions ==
  EmptyMap \in VersionMaps
BY EmptyIsMap, VersionMapIsMap

\* knownResources[n] = v
LEMMA AssignVersion ==
  ASSUME NEW m \in VersionMaps, NEW n \in Names, NEW v \in 1..MaxVersion
  PROVE  /\ Assign(m, n, v) \in VersionMaps
         /\ \A k : VersionIn(Assign(m, n, v), k) = IF k = n THEN v ELSE VersionIn(m, k)
<1>1. Assign(m, n, v) \in VersionMaps
  BY AssignIsMap, VersionMapIsMap
<1> QED
  BY <1>1 DEF Assign, VersionIn

\* delete(knownResources, n)
LEMMA WithoutVersion ==
  ASSUME NEW m \in VersionMaps, NEW n
  PROVE  /\ Without(m, n) \in VersionMaps
         /\ \A k : VersionIn(Without(m, n), k) = IF k = n THEN 0 ELSE VersionIn(m, k)
<1>1. Without(m, n) \in VersionMaps
  BY WithoutIsMap, VersionMapIsMap
<1> QED
  BY <1>1 DEF Without, Restrict, VersionIn

\* The version of a resource that is there is a version.
LEMMA VersionRange ==
  ASSUME NEW m \in VersionMaps, NEW n
  PROVE  /\ VersionIn(m, n) \in 0..MaxVersion
         /\ n \in DOMAIN m => n \in Names /\ m[n] \in 1..MaxVersion /\ VersionIn(m, n) = m[n]
BY CacheWatcherAssumption DEF VersionMaps, VersionIn

-----------------------------------------------------------------------------
(***************************************************************************)
(* The list of watchers.                                                   *)
(***************************************************************************)
\* RemoveWatcher's shift takes one watcher from a list that has each once.
LEMMA ShiftProperties ==
  ASSUME NEW S, NEW s \in Seq(S), IsInjective(s), NEW i \in DOMAIN s
  PROVE  /\ RemoveAt(s, i) \in Seq(S)
         /\ IsInjective(RemoveAt(s, i))
         /\ Range(RemoveAt(s, i)) = Range(s) \ {s[i]}
<1> DEFINE before == SubSeq(s, 1, i - 1)
           after == SubSeq(s, i + 1, Len(s))
           rest == RemoveAt(s, i)
<1>1. /\ Len(s) \in Nat /\ DOMAIN s = 1..Len(s) /\ \A j \in 1..Len(s) : s[j] \in S
      /\ i \in 1..Len(s)
  BY LenProperties, ElementOfSeq
<1>2. before \in Seq(S) /\ Len(before) = i - 1 /\ \A j \in 1..i - 1 : before[j] = s[j]
  BY <1>1, SubSeqProperties
<1>3. /\ after \in Seq(S) /\ Len(after) = Len(s) - i
      /\ \A j \in 1..Len(s) - i : after[j] = s[i + j]
  BY <1>1, SubSeqProperties
<1>4. rest = before \o after
  BY DEF RemoveAt
<1> HIDE DEF before, after, rest
<1>5. /\ rest \in Seq(S) /\ Len(rest) = Len(s) - 1
      /\ \A j \in 1..Len(s) - 1 : rest[j] = IF j < i THEN s[j] ELSE s[j + 1]
  <2>1. /\ rest \in Seq(S) /\ Len(rest) = Len(before) + Len(after)
        /\ \A j \in 1..Len(before) + Len(after) :
             rest[j] = IF j <= Len(before) THEN before[j] ELSE after[j - Len(before)]
    BY <1>2, <1>3, <1>4, ConcatProperties
  <2>2. Len(before) + Len(after) = Len(s) - 1
    BY <1>1, <1>2, <1>3
  <2>3. ASSUME NEW j \in 1..Len(s) - 1
        PROVE  rest[j] = IF j < i THEN s[j] ELSE s[j + 1]
    <3>1. CASE j < i
      BY <3>1, <1>1, <1>2, <2>1, <2>2
    <3>2. CASE j >= i
      <4>1. j - (i - 1) \in 1..Len(s) - i /\ i + (j - (i - 1)) = j + 1
        BY <3>2, <1>1
      <4>2. rest[j] = after[j - (i - 1)]
        BY <3>2, <1>1, <1>2, <2>1, <2>2
      <4> QED
        BY <3>2, <1>1, <1>3, <4>1, <4>2
    <3> QED
      BY <1>1, <3>1, <3>2
  <2> QED
    BY <2>1, <2>2, <2>3
<1>6. DOMAIN rest = 1..Len(s) - 1
  BY <1>5, LenProperties
<1>7. IsInjective(rest)
  BY <1>1, <1>5, <1>6 DEF IsInjective
<1>8. Range(rest) = Range(s) \ {s[i]}
  <2>1. ASSUME NEW j \in 1..Len(s), j # i
        PROVE  \E k \in DOMAIN rest : rest[k] = s[j]
    <3>1. CASE j < i
      BY <3>1, <1>1, <1>5, <1>6
    <3>2. CASE j > i
      <4>1. j - 1 \in DOMAIN rest /\ rest[j - 1] = s[j]
        BY <3>2, <1>1, <1>5, <1>6
      <4> QED
        BY <4>1
    <3> QED
      BY <2>1, <3>1, <3>2, <1>1
  <2>2. ASSUME NEW j \in DOMAIN rest
        PROVE  \E k \in 1..Len(s) : k # i /\ rest[j] = s[k]
    BY <1>1, <1>5, <1>6
  <2>3. \A k \in 1..Len(s) : k # i => s[k] # s[i]
    BY <1>1 DEF IsInjective
  <2>4. \A x : x \in Range(rest) <=> \E k \in 1..Len(s) : k # i /\ x = s[k]
    BY <2>1, <2>2 DEF Range
  <2>5. \A x : x \in Range(s) <=> \E k \in 1..Len(s) : x = s[k]
    BY <1>1 DEF Range
  <2> QED
    BY <2>3, <2>4, <2>5
<1> QED
  BY <1>5, <1>7, <1>8 DEF rest

\* AddWatcher appends a watcher that is not in the list.
LEMMA AddedProperties ==
  ASSUME NEW S, NEW s \in Seq(S), IsInjective(s), NEW e \in S, e \notin Range(s)
  PROVE  /\ Append(s, e) \in Seq(S)
         /\ IsInjective(Append(s, e))
         /\ Range(Append(s, e)) = Range(s) \cup {e}
<1>1. /\ Append(s, e) \in Seq(S) /\ Len(Append(s, e)) = Len(s) + 1
      /\ \A i \in 1..Len(s) : Append(s, e)[i] = s[i]
      /\ Append(s, e)[Len(s) + 1] = e
  BY AppendProperties
<1>2. /\ Len(s) \in Nat /\ DOMAIN s = 1..Len(s)
      /\ DOMAIN Append(s, e) = 1..Len(s) + 1
  BY <1>1, LenProperties
<1>3. IsInjective(Append(s, e))
  BY <1>1, <1>2 DEF IsInjective, Range
<1>4. Range(Append(s, e)) = Range(s) \cup {e}
  BY <1>1, <1>2 DEF Range
<1> QED
  BY <1>1, <1>3, <1>4

-----------------------------------------------------------------------------
(***************************************************************************)
(* Types, and the list of watchers.                                        *)
(***************************************************************************)
\* With the lock free nobody is in GroupMembershipChanged, so only a goroutine
\* ever gets through RemoveWatcher.
LEMMA OnlyGoroutinesRemove ==
  ASSUME TypeOK, NEW w \in Watchers, NEW caller \in Removers(w), RemoveWatcher(w, caller)
  PROVE  caller = "goroutine" /\ removing = None /\ watcher[w].pc = "exiting"
           /\ watcher[w].outgoing = None
BY WatchServerAssumption DEF TypeOK, LockOK, Removers, RemoveWatcher

\* A new watcher that has not begun to watch has a proper record.
LEMMA NewWatcherType ==
  ASSUME TypeOK, NEW w \in Watchers
  PROVE  ListObjects(w) \in VersionMaps
<1>1. clusters \in VersionMaps
  BY DEF TypeOK
<1> DEFINE S == {n \in DOMAIN access \cap DOMAIN clusters : HasAccess(w, access[n])}
<1>2. S \in SUBSET Names /\ \A n \in S : clusters[n] \in 1..MaxVersion
  BY <1>1 DEF VersionMaps
<1>3. [n \in S |-> clusters[n]] \in [S -> 1..MaxVersion]
  BY <1>2
<1> QED
  BY <1>2, <1>3 DEF ListObjects, Restrict, VersionMaps

\* The watcher has been told of an overflow, or its client is about to be.
Failed(r) == r.cacheError \/ r.outgoing = ErrorEvent

\* The step of one watcher, which keeps to itself.
OwnStep(w) == Watch(w) \/ Goroutine(w) \/ Client(w)

\* What an event makes of a map of versions.
LEMMA AppliedVersion ==
  ASSUME NEW m \in VersionMaps, NEW e \in Events
  PROVE  /\ Applied(m, e) \in VersionMaps
         /\ \A k : VersionIn(Applied(m, e), k) =
              IF k # e.name THEN VersionIn(m, k) ELSE IF e.type = "DELETED" THEN 0 ELSE e.version
<1>1. CASE e.type = "DELETED"
  BY <1>1, WithoutVersion DEF Applied, Events
<1>2. CASE e.type # "DELETED"
  <2>1. e.type \in {"ADDED", "MODIFIED"} /\ e.name \in Names /\ e.version \in 1..MaxVersion
    BY <1>2 DEF Events
  <2>2. Applied(m, e) = Assign(m, e.name, e.version)
    BY <2>1 DEF Applied
  <2> QED
    BY <1>2, <2>1, <2>2, AssignVersion
<1> QED
  BY <1>1, <1>2

\* What a watcher's own step makes of its record.
LEMMA OwnStepType ==
  ASSUME TypeOK, NEW w \in Watchers, OwnStep(w)
  PROVE  /\ UNCHANGED <<feed, lister, notifier>>
         /\ watcher' = [watcher EXCEPT ![w] = watcher'[w]]
         /\ watcher'[w] \in CacheWatchers /\ WatcherOK(watcher'[w])
         /\ watcher'[w].pc = watcher[w].pc \/ <<watcher[w].pc, watcher'[w].pc>> \in
              {<<"absent", "created">>, <<"watching", "exiting">>}
         /\ Failed(watcher'[w]) => Failed(watcher[w])
         /\ \/ watcher[w].pc = "absent"
            \/ /\ watcher'[w].cacheError = watcher[w].cacheError
               /\ watcher'[w].knownResources = watcher[w].knownResources
               /\ watcher'[w].visibleResources = watcher[w].visibleResources
<1> DEFINE r == watcher[w]
<1>0. /\ watcher \in [Watchers -> CacheWatchers] /\ r \in CacheWatchers /\ WatcherOK(r)
      /\ Capacity \in Nat /\ Len(r.cacheIncoming) \in Nat
  BY LenProperties, CacheWatcherAssumption DEF TypeOK, CacheWatchers
<1>e. None # ErrorEvent /\ \A e \in Events : e # ErrorEvent
  BY WatchServerAssumption DEF ErrorEvent, Event, Events
<1> HIDE DEF r
<1>1. CASE Watch(w)
  <2>1. AllowedClusters(w) \in SUBSET Names
    BY DEF AllowedClusters, VersionMaps, TypeOK
  <2>2. EmptyMap \in VersionMaps /\ ListObjects(w) \in VersionMaps
    BY NoVersions, NewWatcherType
  <2>3. <<>> \in Seq(Events) /\ Len(<<>>) = 0
    BY EmptySeq
  <2> DEFINE initial == IF IncludeExisting[w] THEN ListObjects(w) ELSE EmptyMap
             view == IF IncludeExisting[w] THEN EmptyMap ELSE ListObjects(w)
  <2>4. watcher'[w] =
          [pc |-> "created", visibleResources |-> AllowedClusters(w),
           knownResources |-> ListObjects(w), initialResources |-> initial,
           cacheIncoming |-> <<>>, cacheError |-> FALSE, outgoing |-> None,
           userStop |-> FALSE, view |-> view]
    BY <1>0, <1>1 DEF Watch, NewCacheWatcher, NoWatcher
  <2>a. initial \in VersionMaps /\ view \in VersionMaps
    BY <2>2
  <2> HIDE DEF initial, view
  <2>5. watcher'[w] \in CacheWatchers /\ WatcherOK(watcher'[w]) /\ watcher'[w].pc = "created"
       /\ ~Failed(watcher'[w])
    BY <1>0, <1>e, <2>1, <2>2, <2>3, <2>4, <2>a DEF CacheWatchers, WatcherOK, Failed
  <2> QED
    BY <1>0, <1>1, <2>4, <2>5 DEF Watch, NewCacheWatcher
<1>2. CASE EmitInitial(w)
  <2>1. PICK n \in DOMAIN r.initialResources :
          watcher' = [watcher EXCEPT
            ![w].initialResources = Without(@, n),
            ![w].outgoing = Event("ADDED", n, r.initialResources[n])]
    BY <1>2 DEF EmitInitial, r
  <2>2. r.initialResources \in VersionMaps
    BY <1>0 DEF CacheWatchers
  <2>3. Without(r.initialResources, n) \in VersionMaps
    BY <2>2, WithoutVersion
  <2>4. Event("ADDED", n, r.initialResources[n]) \in Events
    BY <2>2, VersionRange DEF Event, Events
  <2>5. watcher'[w] = [r EXCEPT !.initialResources = Without(@, n),
                                !.outgoing = Event("ADDED", n, r.initialResources[n])]
    BY <1>0, <2>1 DEF r
  <2>6. watcher'[w] \in CacheWatchers /\ WatcherOK(watcher'[w])
    BY <1>0, <1>2, <2>3, <2>4, <2>5 DEF CacheWatchers, WatcherOK, EmitInitial, AtSelect, r
  <2>7. Failed(watcher'[w]) => Failed(r)
    BY <1>0, <1>e, <2>4, <2>5 DEF CacheWatchers, Failed
  <2> QED
    BY <1>0, <1>2, <2>1, <2>5, <2>6, <2>7 DEF EmitInitial, r, CacheWatchers
<1>3. CASE EmitIncoming(w)
  <2>1. r.cacheIncoming \in Seq(Events) /\ r.cacheIncoming # <<>>
    BY <1>0, <1>3 DEF CacheWatchers, EmitIncoming, r
  <2>2. /\ Head(r.cacheIncoming) \in Events /\ Tail(r.cacheIncoming) \in Seq(Events)
        /\ Len(Tail(r.cacheIncoming)) = Len(r.cacheIncoming) - 1
    BY <2>1, HeadTailProperties
  <2>3. watcher'[w] = [r EXCEPT !.cacheIncoming = Tail(@), !.outgoing = Head(r.cacheIncoming)]
    BY <1>0, <1>3 DEF EmitIncoming, r
  <2>4. r.pc = "watching" /\ Len(Tail(r.cacheIncoming)) <= Capacity
    BY <1>0, <1>3, <2>2 DEF EmitIncoming, AtSelect, WatcherOK, r
  <2>5. watcher'[w] \in CacheWatchers
    BY <1>0, <2>2, <2>3 DEF CacheWatchers
  <2>6. WatcherOK(watcher'[w])
    BY <1>0, <2>3, <2>4, <2>5 DEF CacheWatchers, WatcherOK
  <2>7. Failed(watcher'[w]) => Failed(r)
    BY <1>0, <1>e, <2>2, <2>3 DEF CacheWatchers, Failed
  <2> QED
    BY <1>0, <1>3, <2>3, <2>5, <2>6, <2>7 DEF EmitIncoming, r, CacheWatchers
<1>4. CASE Leave(w)
  <2>1. PICK reason \in ExitReasons(w) :
          watcher' = [watcher EXCEPT
            ![w].pc = "exiting",
            ![w].outgoing = IF reason = "error" THEN ErrorEvent ELSE None]
    BY <1>4 DEF Leave
  <2>2. watcher'[w] = [r EXCEPT !.pc = "exiting",
                                !.outgoing = IF reason = "error" THEN ErrorEvent ELSE None]
    BY <1>0, <2>1 DEF r
  <2>3. watcher'[w] \in CacheWatchers /\ WatcherOK(watcher'[w])
    BY <1>0, <2>2 DEF CacheWatchers, WatcherOK
  <2>4. Failed(watcher'[w]) => Failed(r)
    BY <1>0, <1>e, <1>4, <2>2 DEF CacheWatchers, Failed, ExitReasons, r
  <2> QED
    BY <1>0, <1>4, <2>1, <2>2, <2>3, <2>4 DEF Leave, AtSelect, r, CacheWatchers
<1>5. CASE Receive(w)
  <2>1. r.view \in VersionMaps /\ r.outgoing \in Events \cup {ErrorEvent}
    BY <1>0, <1>5 DEF CacheWatchers, Receive, r
  <2>2. Applied(r.view, r.outgoing) \in VersionMaps
    <3>1. CASE r.outgoing = ErrorEvent
      BY <2>1, <3>1 DEF Applied, ErrorEvent, Event
    <3> QED
      BY <2>1, <3>1, AppliedVersion
  <2>3. watcher'[w] = [r EXCEPT !.view = Applied(@, r.outgoing), !.outgoing = None]
    BY <1>0, <1>5 DEF Receive, r
  <2>4. watcher'[w] \in CacheWatchers /\ WatcherOK(watcher'[w])
    BY <1>0, <2>2, <2>3 DEF CacheWatchers, WatcherOK
  <2>5. Failed(watcher'[w]) => Failed(r)
    BY <1>0, <1>e, <2>3 DEF CacheWatchers, Failed
  <2> QED
    BY <1>0, <1>5, <2>3, <2>4, <2>5 DEF Receive, r, CacheWatchers
<1>6. CASE Drop(w) \/ Stop(w)
  <2>1. \/ watcher'[w] = [r EXCEPT !.outgoing = None]
        \/ watcher'[w] = [r EXCEPT !.userStop = TRUE]
    BY <1>0, <1>6 DEF Drop, Stop, r
  <2>2. watcher'[w] \in CacheWatchers /\ WatcherOK(watcher'[w])
    BY <1>0, <2>1 DEF CacheWatchers, WatcherOK
  <2>3. Failed(watcher'[w]) => Failed(r)
    BY <1>0, <1>e, <2>1 DEF CacheWatchers, Failed
  <2> QED
    BY <1>0, <1>6, <2>1, <2>2, <2>3 DEF Drop, Stop, r, CacheWatchers
<1> QED
  BY <1>1, <1>2, <1>3, <1>4, <1>5, <1>6 DEF OwnStep, Goroutine, Client

\* What one turn of notifyWatchers' loop makes of the records: of the watcher
\* that is told, what it knows and what is queued for it.
LEMMA TellNextType ==
  ASSUME TypeOK, TellNext, NEW w, w = Head(turn)
  PROVE  /\ w \in Watchers
         /\ watcher' = [watcher EXCEPT ![w] = watcher'[w]]
         /\ watcher'[w] \in CacheWatchers /\ WatcherOK(watcher'[w])
         /\ watcher'[w].pc = watcher[w].pc /\ watcher'[w].cacheError = watcher[w].cacheError
         /\ watcher'[w].outgoing = watcher[w].outgoing
         /\ removing' \in {None, w}
<1> DEFINE r == watcher[w]
           n == note.name
<1>1. w \in Watchers
  BY HeadTailProperties DEF TypeOK, TellNext
<1>2. /\ watcher \in [Watchers -> CacheWatchers] /\ r \in CacheWatchers /\ WatcherOK(r)
      /\ r.knownResources \in VersionMaps /\ r.cacheIncoming \in Seq(Events)
      /\ Capacity \in Nat /\ Len(r.cacheIncoming) \in Nat /\ removing = None
      /\ n \in Names /\ clusters \in VersionMaps
  BY <1>1, LenProperties, CacheWatcherAssumption
  DEF TypeOK, LockOK, FeedTypeOK, TellNext, CacheWatchers
<1> HIDE DEF r, n
<1>3. ASSUME NEW newKnown \in VersionMaps, NEW event \in Events, Send(w, newKnown, event)
      PROVE  /\ watcher' = [watcher EXCEPT ![w] = watcher'[w]]
             /\ watcher'[w] \in CacheWatchers /\ WatcherOK(watcher'[w])
             /\ watcher'[w].pc = r.pc /\ watcher'[w].cacheError = r.cacheError
             /\ watcher'[w].outgoing = r.outgoing
             /\ removing' \in {None, w}
  <2>1. CASE Len(r.cacheIncoming) < Capacity
    <3>1. /\ watcher'[w] = [r EXCEPT !.knownResources = newKnown,
                                     !.cacheIncoming = Append(@, event)]
          /\ watcher' = [watcher EXCEPT ![w] = watcher'[w]] /\ removing' = None
      BY <1>1, <1>2, <1>3, <2>1 DEF Send, r
    <3>2. /\ Append(r.cacheIncoming, event) \in Seq(Events)
          /\ Len(Append(r.cacheIncoming, event)) <= Capacity
      BY <1>2, <2>1, AppendProperties
    <3>3. watcher'[w] \in CacheWatchers
      BY <1>2, <3>1, <3>2 DEF CacheWatchers
    <3> QED
      BY <1>2, <3>1, <3>2, <3>3 DEF CacheWatchers, WatcherOK
  <2>2. CASE ~(Len(r.cacheIncoming) < Capacity)
    <3>1. /\ watcher'[w] = [r EXCEPT !.knownResources = newKnown]
          /\ watcher' = [watcher EXCEPT ![w] = watcher'[w]] /\ removing' = w
      BY <1>1, <1>2, <1>3, <2>2 DEF Send, r
    <3> QED
      BY <1>2, <3>1 DEF CacheWatchers, WatcherOK
  <2> QED
    BY <2>1, <2>2
<1>4. CASE LoseAccess(w)
  <2>1. Without(r.knownResources, n) \in VersionMaps
    BY <1>2, WithoutVersion
  <2>2. Event("DELETED", n, VersionOf(n)) \in Events
    BY <1>2, VersionRange DEF Event, Events, VersionOf
  <2> QED
    BY <1>1, <1>3, <1>4, <2>1, <2>2 DEF LoseAccess, r, n
<1>5. CASE HaveAccess(w)
  <2>1. clusters[n] \in 1..MaxVersion
    BY <1>2, <1>5, VersionRange DEF HaveAccess, IsNews, n
  <2>2. Assign(r.knownResources, n, clusters[n]) \in VersionMaps
    BY <1>2, <2>1, AssignVersion
  <2>3. Event(IF Knows(w, n) THEN "MODIFIED" ELSE "ADDED", n, clusters[n]) \in Events
    BY <1>2, <2>1 DEF Event, Events
  <2> QED
    BY <1>1, <1>3, <1>5, <2>2, <2>3 DEF HaveAccess, r, n
<1>6. CASE NothingToTell(w)
  BY <1>1, <1>2, <1>6 DEF NothingToTell, r
<1> QED
  BY <1>1, <1>4, <1>5, <1>6 DEF TellNext, GroupMembershipChanged, r

\* The types once more, after a step that is a watcher's own or a turn of
\* notifyWatchers.
LEMMA RecordTypes ==
  ASSUME TypeOK, NEW w \in Watchers, watcher' = [watcher EXCEPT ![w] = watcher'[w]],
         watcher'[w] \in CacheWatchers, WatcherOK(watcher'[w])
  PROVE  /\ watcher' \in [Watchers -> CacheWatchers]
         /\ \A v \in Watchers : WatcherOK(watcher'[v])
         /\ \A v \in Watchers \ {w} : watcher'[v] = watcher[v]
BY DEF TypeOK

\* No client is ever told that its queue was full: the synchronizer, in whose
\* hands the news is, waits for the lock it holds (watcher.go:131-134, 163-166).
NoErrorReported == \A w \in Watchers : ~Failed(watcher[w])

\* The inductive invariant: types and the list of watchers need each other, for
\* only from a list that has each watcher once does the shift remove one; and a
\* watcher that had an error before it was added would be in the list against
\* RegisteredWhileWatching.
ListInv == TypeOK /\ RegisteredWhileWatching /\ NoErrorReported

\* It holds before anything is listed or watched.
LEMMA InitListInv ==
  ASSUME Init
  PROVE  ListInv
<1>1. TypeOK
  <2>1. EmptyMap \in VersionMaps
    BY NoVersions
  <2>2. FeedTypeOK
    BY EmptyIsMap DEF Init, FeedInit, FeedTypeOK
  <2>3. NoWatcher \in CacheWatchers /\ WatcherOK(NoWatcher)
    BY <2>1, EmptySeq, CacheWatcherAssumption DEF NoWatcher, CacheWatchers, WatcherOK
  <2>4. watcher \in [Watchers -> CacheWatchers] /\ \A w \in Watchers : WatcherOK(watcher[w])
    BY <2>3 DEF Init, WatchersInit
  <2>5. <<>> \in Seq(Watchers)
    BY EmptySeq
  <2>6. clock \in 0..MaxVersion /\ clusters \in VersionMaps
    BY <2>1, CacheWatcherAssumption DEF Init
  <2>7. locked \in BOOLEAN /\ LockOK /\ removing \in Watchers \cup {None}
        /\ watchers \in Seq(Watchers) /\ turn \in Seq(Watchers)
    BY <2>5 DEF Init, WatchersInit, LockOK
  <2> QED
    BY <2>2, <2>4, <2>6, <2>7 DEF TypeOK
<1>2. RegisteredWhileWatching
  BY DEF Init, WatchersInit, NoWatcher, RegisteredWhileWatching, Range, IsInjective
<1>3. NoErrorReported
  BY WatchServerAssumption DEF Init, WatchersInit, NoWatcher, NoErrorReported, Failed
<1> QED
  BY <1>1, <1>2, <1>3 DEF ListInv

-----------------------------------------------------------------------------
(***************************************************************************)
(* ListInv is inductive.                                                   *)
(***************************************************************************)
\* A step of the lister or of the synchronizer between two notifications.
LEMMA ListInvOutside ==
  ASSUME ListInv, Synchronizer \/ \E n \in Names : PutCluster(n) \/ RemoveCluster(n)
  PROVE  ListInv'
<1>1. RegisteredWhileWatching' /\ NoErrorReported'
  BY DEF ListInv, RegisteredWhileWatching, NoErrorReported, Failed,
         Synchronizer, PutCluster, RemoveCluster, notifier
<1>2. TypeOK /\ UNCHANGED <<notifier, watcher>>
  BY DEF ListInv, Synchronizer, PutCluster, RemoveCluster
<1>3. CASE Synchronizer
  <2>1. FeedTypeOK /\ (note # None => UNCHANGED note)
    BY <1>2, <1>3 DEF TypeOK, Synchronizer, Review, Forget, AnnounceGone, Learn
  <2>2. FeedTypeOK'
    <3>1. ASSUME NEW n \in Names, NEW a \in Answers, Review(n, a.users, a.groups)
          PROVE  FeedTypeOK'
      <4>1. a.users \in SUBSET Users /\ a.groups \in SUBSET Groups
        BY WatchServerAssumption
      <4>2. [users |-> a.users, groups |-> a.groups] \in [users : SUBSET Users, groups : SUBSET Groups]
        BY <4>1
      <4> QED
        BY <2>1, <3>1, <4>1, <4>2, AssignIsMap DEF Review, FeedTypeOK
    <3>2. ASSUME NEW n \in Names, Forget(n)
          PROVE  FeedTypeOK'
      BY <2>1, <3>2, WithoutIsMap DEF Forget, FeedTypeOK
    <3>3. ASSUME NEW n \in Names, AnnounceGone(n)
          PROVE  FeedTypeOK'
      BY <2>1, <3>3 DEF AnnounceGone, FeedTypeOK
    <3>4. ASSUME Learn
          PROVE  FeedTypeOK'
      BY <2>1, <3>4 DEF Learn, FeedTypeOK, IsMap
    <3> QED
      BY <1>3, <3>1, <3>2, <3>3, <3>4 DEF Synchronizer
  <2>3. LockOK'
    BY <1>2, <2>1 DEF TypeOK, LockOK, notifier
  <2> QED
    BY <1>1, <1>2, <1>3, <2>2, <2>3 DEF ListInv, TypeOK, Synchronizer, lister, notifier, WatcherOK
<1>4. CASE \E n \in Names : PutCluster(n) \/ RemoveCluster(n)
  <2>1. clock' \in 0..MaxVersion /\ clusters' \in VersionMaps
    <3>1. ASSUME NEW n \in Names, PutCluster(n)
          PROVE  clock + 1 \in 1..MaxVersion /\ clock' = clock + 1
                 /\ clusters' = Assign(clusters, n, clock + 1)
      BY <1>2, <3>1, CacheWatcherAssumption DEF TypeOK, PutCluster
    <3>2. ASSUME NEW n \in Names, RemoveCluster(n)
          PROVE  clock' = clock /\ clusters' = Without(clusters, n)
      BY <3>2 DEF RemoveCluster
    <3>3. clusters \in VersionMaps /\ clock \in 0..MaxVersion
      BY <1>2 DEF TypeOK
    <3> QED
      BY <1>4, <3>1, <3>2, <3>3, AssignVersion, WithoutVersion
  <2>2. UNCHANGED feed
    BY <1>4 DEF PutCluster, RemoveCluster
  <2> QED
    BY <1>1, <1>2, <2>1, <2>2
    DEF ListInv, TypeOK, FeedTypeOK, LockOK, feed, notifier, WatcherOK
<1> QED
  BY <1>3, <1>4

\* A step of one watcher that leaves the list alone.
LEMMA ListInvOwn ==
  ASSUME ListInv, NEW w \in Watchers, OwnStep(w)
  PROVE  ListInv'
<1>1. TypeOK /\ RegisteredWhileWatching /\ NoErrorReported
  BY DEF ListInv
<1>2. /\ UNCHANGED <<feed, lister, notifier>>
      /\ watcher' = [watcher EXCEPT ![w] = watcher'[w]]
      /\ watcher'[w] \in CacheWatchers /\ WatcherOK(watcher'[w])
      /\ watcher'[w].pc = watcher[w].pc \/ <<watcher[w].pc, watcher'[w].pc>> \in
           {<<"absent", "created">>, <<"watching", "exiting">>}
      /\ watcher'[w].cacheError = watcher[w].cacheError \/ watcher[w].pc = "absent"
      /\ Failed(watcher'[w]) => Failed(watcher[w])
  BY <1>1, OwnStepType
<1>3. /\ watcher' \in [Watchers -> CacheWatchers]
      /\ \A v \in Watchers : WatcherOK(watcher'[v])
      /\ \A v \in Watchers \ {w} : watcher'[v] = watcher[v]
  BY <1>1, <1>2, RecordTypes
<1>4. TypeOK'
  BY <1>1, <1>2, <1>3 DEF TypeOK, FeedTypeOK, LockOK, feed, lister, notifier, WatcherOK
<1>5. RegisteredWhileWatching'
  BY <1>1, <1>2, <1>3 DEF RegisteredWhileWatching, notifier
<1>6. NoErrorReported'
  BY <1>1, <1>2, <1>3 DEF NoErrorReported
<1> QED
  BY <1>4, <1>5, <1>6 DEF ListInv

\* A watcher is added once: before that it is not in the list.
LEMMA ListInvAdd ==
  ASSUME ListInv, NEW w \in Watchers, AddWatcher(w)
  PROVE  ListInv'
<1>1. /\ TypeOK /\ RegisteredWhileWatching /\ NoErrorReported
      /\ watcher \in [Watchers -> CacheWatchers] /\ watcher[w] \in CacheWatchers
      /\ WatcherOK(watcher[w]) /\ watcher[w].pc = "created" /\ watchers \in Seq(Watchers)
  BY DEF ListInv, TypeOK, AddWatcher
<1>2. /\ watcher'[w] = [watcher[w] EXCEPT !.pc = "watching"]
      /\ watcher' = [watcher EXCEPT ![w] = watcher'[w]]
  BY <1>1 DEF AddWatcher
<1>3. watcher'[w] \in CacheWatchers /\ WatcherOK(watcher'[w]) /\ watcher'[w].pc = "watching"
      /\ ~watcher'[w].cacheError /\ ~Failed(watcher'[w])
  BY <1>1, <1>2 DEF CacheWatchers, WatcherOK, NoErrorReported, Failed
<1>4. /\ watcher' \in [Watchers -> CacheWatchers]
      /\ \A v \in Watchers : WatcherOK(watcher'[v])
      /\ \A v \in Watchers \ {w} : watcher'[v] = watcher[v]
  BY <1>1, <1>2, <1>3, RecordTypes
<1>5. w \notin Range(watchers) /\ IsInjective(watchers)
  BY <1>1 DEF RegisteredWhileWatching
<1>6. /\ watchers' \in Seq(Watchers) /\ IsInjective(watchers')
      /\ Range(watchers') = Range(watchers) \cup {w}
  BY <1>1, <1>5, AddedProperties DEF AddWatcher
<1>7. TypeOK'
  BY <1>1, <1>4, <1>6 DEF AddWatcher, TypeOK, FeedTypeOK, LockOK, feed, lister, WatcherOK
<1>8. RegisteredWhileWatching'
  BY <1>1, <1>3, <1>4, <1>6 DEF RegisteredWhileWatching
<1>9. NoErrorReported'
  BY <1>1, <1>3, <1>4 DEF NoErrorReported
<1> QED
  BY <1>7, <1>8, <1>9 DEF ListInv

\* A goroutine that takes its watcher out takes it out for good.
LEMMA ListInvRemoval ==
  ASSUME ListInv, NEW w \in Watchers, Removal(w)
  PROVE  ListInv'
<1>1. PICK caller \in Removers(w) : RemoveWatcher(w, caller)
  BY DEF Removal
<1>2. /\ TypeOK /\ RegisteredWhileWatching /\ NoErrorReported
      /\ watcher \in [Watchers -> CacheWatchers] /\ watcher[w] \in CacheWatchers
      /\ WatcherOK(watcher[w]) /\ watchers \in Seq(Watchers) /\ IsInjective(watchers)
  BY DEF ListInv, TypeOK, RegisteredWhileWatching
<1>3. caller = "goroutine" /\ removing = None /\ watcher[w].pc = "exiting"
      /\ watcher[w].outgoing = None
  BY <1>1, <1>2, OnlyGoroutinesRemove
<1>4. /\ UNCHANGED <<feed, lister, locked, turn, removing>> /\ ~locked
      /\ watcher'[w] = [watcher[w] EXCEPT !.pc = "closed"]
      /\ watcher' = [watcher EXCEPT ![w] = watcher'[w]]
  BY <1>1, <1>2, <1>3 DEF RemoveWatcher
<1>5. /\ watcher'[w] \in CacheWatchers /\ WatcherOK(watcher'[w])
      /\ watcher'[w].pc = "closed" /\ ~Failed(watcher'[w])
  BY <1>2, <1>3, <1>4 DEF CacheWatchers, WatcherOK, NoErrorReported, Failed
<1>6. /\ watcher' \in [Watchers -> CacheWatchers]
      /\ \A v \in Watchers : WatcherOK(watcher'[v])
      /\ \A v \in Watchers \ {w} : watcher'[v] = watcher[v]
  BY <1>2, <1>4, <1>5, RecordTypes
<1>7. /\ watchers' \in Seq(Watchers) /\ IsInjective(watchers')
      /\ Range(watchers') = Range(watchers) \ {w}
  <2>1. CASE w \in Range(watchers)
    <3>1. PICK i \in DOMAIN watchers : watchers[i] = w /\ watchers' = RemoveAt(watchers, i)
      BY <1>1, <2>1 DEF RemoveWatcher
    <3> QED
      BY <1>2, <3>1, ShiftProperties
  <2>2. CASE w \notin Range(watchers)
    BY <1>1, <1>2, <2>2 DEF RemoveWatcher
  <2> QED
    BY <2>1, <2>2
<1>8. TypeOK'
  BY <1>2, <1>4, <1>6, <1>7 DEF TypeOK, FeedTypeOK, LockOK, feed, lister, WatcherOK
<1>9. RegisteredWhileWatching' /\ NoErrorReported'
  BY <1>2, <1>5, <1>6, <1>7 DEF RegisteredWhileWatching, NoErrorReported
<1> QED
  BY <1>8, <1>9 DEF ListInv

\* notifyWatchers goes through the list as it was when it took the lock.
LEMMA ListInvNotifier ==
  ASSUME ListInv, Notifier
  PROVE  ListInv'
<1>1. TypeOK /\ RegisteredWhileWatching /\ NoErrorReported /\ watchers \in Seq(Watchers)
      /\ Len(watchers) \in Nat
  BY LenProperties DEF ListInv, TypeOK
<1>2. CASE LockForNotify
  <2>1. /\ UNCHANGED <<feed, lister, watchers, removing, watcher>>
        /\ note # None /\ locked' = TRUE /\ turn' = watchers
    BY <1>2 DEF LockForNotify
  <2>2. watchers = SubSeq(watchers, 1, Len(watchers))
    BY <1>1, SubSeqFull
  <2>3. LockOK'
    BY <1>1, <2>1, <2>2 DEF LockOK, feed
  <2>4. TypeOK'
    BY <1>1, <2>1, <2>3 DEF TypeOK, FeedTypeOK, feed, lister, WatcherOK
  <2> QED
    BY <1>1, <2>1, <2>4 DEF ListInv, RegisteredWhileWatching, NoErrorReported
<1>3. CASE TellNext
  <2> DEFINE w == Head(turn)
  <2>1. /\ w \in Watchers
        /\ watcher' = [watcher EXCEPT ![w] = watcher'[w]]
        /\ watcher'[w] \in CacheWatchers /\ WatcherOK(watcher'[w])
        /\ watcher'[w].pc = watcher[w].pc /\ watcher'[w].cacheError = watcher[w].cacheError
        /\ watcher'[w].outgoing = watcher[w].outgoing
        /\ removing' \in {None, w}
    BY <1>1, <1>3, TellNextType
  <2>2. /\ UNCHANGED <<feed, lister, locked, watchers>> /\ locked
        /\ turn # <<>> /\ turn' = Tail(turn) /\ turn \in Seq(Watchers)
    BY <1>1, <1>3 DEF TellNext, TypeOK
  <2> HIDE DEF w
  <2>3. /\ watcher' \in [Watchers -> CacheWatchers]
        /\ \A v \in Watchers : WatcherOK(watcher'[v])
        /\ \A v \in Watchers \ {w} : watcher'[v] = watcher[v]
    BY <1>1, <2>1, RecordTypes
  <2>4. LockOK'
    <3>1. PICK i \in 1..Len(watchers) + 1 : turn = SubSeq(watchers, i, Len(watchers))
      BY <1>1, <2>2 DEF TypeOK, LockOK
    <3>2. i \in 1..Len(watchers)
      BY <1>1, <2>2, <3>1, SubSeqEmpty
    <3>4. Tail(turn) = SubSeq(watchers, i + 1, Len(watchers)) /\ i + 1 \in 1..Len(watchers) + 1
      BY <1>1, <3>1, <3>2, HeadTailOfSubSeq
    <3>3. note # None
      BY <1>1, <2>2 DEF TypeOK, LockOK
    <3> QED
      BY <1>1, <2>2, <3>3, <3>4 DEF LockOK, feed
  <2>5. turn' \in Seq(Watchers)
    BY <2>2, HeadTailProperties
  <2>6. TypeOK'
    BY <1>1, <2>1, <2>2, <2>3, <2>4, <2>5 DEF TypeOK, FeedTypeOK, feed, lister, WatcherOK
  <2>7. RegisteredWhileWatching' /\ NoErrorReported'
    BY <1>1, <2>1, <2>2, <2>3 DEF RegisteredWhileWatching, NoErrorReported, Failed
  <2> QED
    BY <2>6, <2>7 DEF ListInv
<1>4. CASE UnlockAfterNotify
  <2>1. /\ UNCHANGED <<access, known, lister, watchers, turn, removing, watcher>>
        /\ note' = None /\ locked' = FALSE /\ turn = <<>> /\ removing = None
    BY <1>4 DEF UnlockAfterNotify, Deliver
  <2>2. TypeOK'
    BY <1>1, <2>1 DEF TypeOK, FeedTypeOK, LockOK, lister, WatcherOK
  <2> QED
    BY <1>1, <2>1, <2>2 DEF ListInv, RegisteredWhileWatching, NoErrorReported
<1> QED
  BY <1>2, <1>3, <1>4 DEF Notifier

\* Every step keeps the invariant.
LEMMA NextListInv ==
  ASSUME ListInv, [Next]_vars
  PROVE  ListInv'
<1>1. CASE Next
  BY <1>1, ListInvOutside, ListInvOwn, ListInvAdd, ListInvRemoval, ListInvNotifier
  DEF Next, WatchersNext, OwnStep
<1>2. CASE UNCHANGED vars
  BY <1>2 DEF vars, ListInv, TypeOK, FeedTypeOK, LockOK, WatcherOK, RegisteredWhileWatching,
              NoErrorReported, feed, lister, notifier
<1> QED
  BY <1>1, <1>2

\* Types, the bound of the queues and the use of watcherLock are right whatever
\* clients, watchers, scopes and answers there are (watcher.go:37-67).
THEOREM WatchTypesCorrect == Spec => []TypeOK
<1>1. Init => ListInv
  BY InitListInv
<1>2. ListInv /\ [Next]_vars => ListInv'
  BY NextListInv
<1>3. ListInv => TypeOK
  BY DEF ListInv
<1> QED
  BY <1>1, <1>2, <1>3, PTL DEF Spec

\* The list of watchers has each watcher that watches once, and no other,
\* in whatever order any number of watchers come and go (common.go:356-371).
THEOREM WatchersRegistered == Spec => []RegisteredWhileWatching
<1>1. Init => ListInv
  BY InitListInv
<1>2. ListInv /\ [Next]_vars => ListInv'
  BY NextListInv
<1>3. ListInv => RegisteredWhileWatching
  BY DEF ListInv
<1> QED
  BY <1>1, <1>2, <1>3, PTL DEF Spec

\* No client is ever told that its queue overflowed, the way watcher.go:42-43
\* says it would be.
THEOREM NoClientIsToldOfOverflow == Spec => []NoErrorReported
<1>1. Init => ListInv
  BY InitListInv
<1>2. ListInv /\ [Next]_vars => ListInv'
  BY NextListInv
<1>3. ListInv => NoErrorReported
  BY DEF ListInv
<1> QED
  BY <1>1, <1>2, <1>3, PTL DEF Spec

-----------------------------------------------------------------------------
(***************************************************************************)
(* Nobody is left out: notifyWatchers' loop, whose invariant is that those *)
(* before the current one in the list have been told.                      *)
(***************************************************************************)
\* w's known resources agree with the answer that is being told.
Told(w) == Sees(w, note.name) /\ Knows(w, note.name) => HasAccess(w, note)

\* Those that notifyWatchers has passed have been told.
PassedAreTold ==
  locked =>
    \E i \in 1..Len(watchers) + 1 :
      turn = SubSeq(watchers, i, Len(watchers)) /\ \A j \in 1..i - 1 : Told(watchers[j])

\* PassedAreTold holds after any step.
LEMMA NextPassedAreTold ==
  ASSUME ListInv, PassedAreTold, [Next]_vars
  PROVE  PassedAreTold'
<1>1. /\ TypeOK /\ RegisteredWhileWatching /\ watchers \in Seq(Watchers) /\ Len(watchers) \in Nat
      /\ \A j \in 1..Len(watchers) : watchers[j] \in Range(watchers) /\ watchers[j] \in Watchers
  BY LenProperties, ElementOfSeq DEF ListInv, TypeOK, Range
<1>2. ASSUME UNCHANGED <<note, notifier>>,
             \A j \in 1..Len(watchers) :
               /\ watcher'[watchers[j]].knownResources = watcher[watchers[j]].knownResources
               /\ watcher'[watchers[j]].visibleResources = watcher[watchers[j]].visibleResources
      PROVE  PassedAreTold'
  <2>1. CASE locked
    <3>1. PICK i \in 1..Len(watchers) + 1 :
            turn = SubSeq(watchers, i, Len(watchers)) /\ \A j \in 1..i - 1 : Told(watchers[j])
      BY <2>1 DEF PassedAreTold
    <3>2. ASSUME NEW j \in 1..i - 1
          PROVE  Told(watchers[j])'
      <4>1. j \in 1..Len(watchers) /\ Told(watchers[j]) /\ UNCHANGED <<watchers, note>>
        BY <1>1, <1>2, <3>1, <3>2 DEF notifier
      <4> QED
        BY <1>2, <4>1 DEF Told, Sees, Knows, HasAccess
    <3> QED
      BY <1>2, <3>1, <3>2 DEF PassedAreTold, notifier
  <2>2. CASE ~locked
    BY <1>2, <2>2 DEF PassedAreTold, notifier
  <2> QED
    BY <2>1, <2>2
<1>3. CASE Synchronizer \/ \E n \in Names : PutCluster(n) \/ RemoveCluster(n)
  <2>1. UNCHANGED <<notifier, watcher>> /\ (note # None => UNCHANGED note)
    BY <1>3 DEF Synchronizer, Review, Forget, AnnounceGone, Learn, PutCluster, RemoveCluster, feed
  <2>2. CASE locked
    BY <1>1, <1>2, <2>1, <2>2 DEF TypeOK, LockOK
  <2>3. CASE ~locked
    BY <2>1, <2>3 DEF PassedAreTold, notifier
  <2> QED
    BY <2>2, <2>3
<1>4. CASE \E w \in Watchers : OwnStep(w)
  <2>1. PICK w \in Watchers : OwnStep(w)
    BY <1>4
  <2>2. /\ UNCHANGED <<feed, lister, notifier>>
        /\ watcher' = [watcher EXCEPT ![w] = watcher'[w]]
        /\ watcher'[w] \in CacheWatchers /\ WatcherOK(watcher'[w])
        /\ \/ watcher[w].pc = "absent"
           \/ /\ watcher'[w].knownResources = watcher[w].knownResources
              /\ watcher'[w].visibleResources = watcher[w].visibleResources
    BY <1>1, <2>1, OwnStepType
  <2>3. \A v \in Watchers \ {w} : watcher'[v] = watcher[v]
    BY <1>1, <2>2, RecordTypes
  <2>4. watcher[w].pc = "absent" => w \notin Range(watchers)
    BY <1>1 DEF RegisteredWhileWatching
  <2> QED
    BY <1>1, <1>2, <2>2, <2>3, <2>4 DEF feed
<1>5. CASE \E w \in Watchers : AddWatcher(w) \/ Removal(w)
  BY <1>5 DEF AddWatcher, Removal, RemoveWatcher, PassedAreTold
<1>6. CASE LockForNotify
  <2>1. watchers = SubSeq(watchers, 1, Len(watchers))
    BY <1>1, SubSeqFull
  <2> QED
    BY <1>1, <1>6, <2>1 DEF LockForNotify, PassedAreTold
<1>7. CASE TellNext
  <2>1. PICK i \in 1..Len(watchers) + 1 :
          turn = SubSeq(watchers, i, Len(watchers)) /\ \A j \in 1..i - 1 : Told(watchers[j])
    BY <1>7 DEF TellNext, PassedAreTold
  <2>2. turn # <<>> /\ turn' = Tail(turn) /\ UNCHANGED <<feed, lister, locked, watchers>>
    BY <1>7 DEF TellNext
  <2>3. i \in 1..Len(watchers)
    BY <1>1, <2>1, <2>2, SubSeqEmpty
  <2>4. /\ Tail(turn) = SubSeq(watchers, i + 1, Len(watchers)) /\ i + 1 \in 1..Len(watchers) + 1
        /\ Head(turn) = watchers[i] /\ watchers[i] \in Watchers
    BY <1>1, <2>1, <2>3, HeadTailOfSubSeq
  <2> DEFINE w == watchers[i]
  <2>5. /\ watcher' = [watcher EXCEPT ![w] = watcher'[w]]
        /\ watcher'[w] \in CacheWatchers /\ WatcherOK(watcher'[w])
    BY <1>1, <1>7, <2>4, TellNextType
  <2>6. \A v \in Watchers \ {w} : watcher'[v] = watcher[v]
    BY <1>1, <2>4, <2>5, RecordTypes
  <2>7. Told(w)'
    <3>1. GroupMembershipChanged(w)
      BY <1>7, <2>4 DEF TellNext
    <3>2. watcher \in [Watchers -> CacheWatchers] /\ watcher[w] \in CacheWatchers
      BY <1>1, <2>4 DEF TypeOK
    <3>3. watcher'[w].visibleResources = watcher[w].visibleResources
      <4>1. UNCHANGED watcher \/ \E newKnown, event : Send(w, newKnown, event)
        BY <3>1 DEF GroupMembershipChanged, LoseAccess, HaveAccess, NothingToTell
      <4> QED
        BY <2>4, <3>2, <4>1 DEF Send, CacheWatchers
    <3>4. CASE LoseAccess(w)
      <4>1. watcher'[w].knownResources = Without(watcher[w].knownResources, note.name)
        BY <2>4, <3>2, <3>4 DEF LoseAccess, Send, CacheWatchers
      <4> QED
        BY <2>2, <4>1 DEF Told, Knows, Without, Restrict, feed
    <3>5. CASE HaveAccess(w)
      BY <2>2, <3>5 DEF HaveAccess, Told, HasAccess, feed
    <3>6. CASE NothingToTell(w)
      BY <2>2, <3>6 DEF NothingToTell, Told, HasAccess, Sees, Knows, feed
    <3> QED
      BY <3>1, <3>4, <3>5, <3>6 DEF GroupMembershipChanged
  <2>8. ASSUME NEW j \in 1..i
        PROVE  Told(watchers[j])'
    <3>1. CASE watchers[j] = w
      BY <2>2, <2>7, <3>1
    <3>2. CASE watchers[j] # w
      <4>1. j \in 1..i - 1 /\ watchers[j] \in Watchers
        BY <1>1, <2>3, <3>2
      <4>2. watcher'[watchers[j]] = watcher[watchers[j]] /\ Told(watchers[j])
        BY <2>1, <2>6, <3>2, <4>1
      <4> QED
        BY <2>2, <4>2 DEF Told, Sees, Knows, HasAccess, feed
    <3> QED
      BY <3>1, <3>2
  <2>9. \A j \in 1..(i + 1) - 1 : Told(watchers[j])'
    BY <2>3, <2>8
  <2> QED
    BY <2>2, <2>4, <2>9 DEF PassedAreTold
<1>8. CASE UnlockAfterNotify
  BY <1>8 DEF UnlockAfterNotify, PassedAreTold
<1>9. CASE UNCHANGED vars
  BY <1>2, <1>9 DEF vars, feed
<1> QED
  BY <1>3, <1>4, <1>5, <1>6, <1>7, <1>8, <1>9
  DEF Next, WatchersNext, Notifier, OwnStep

\* When the loop is through, it has passed everyone.
LEMMA StepLeavesNobodyOut ==
  ASSUME ListInv, PassedAreTold, [Next]_vars, note # None, note' = None
  PROVE  \A w \in Range(watchers) : Told(w)
<1>1. watchers \in Seq(Watchers) /\ Len(watchers) \in Nat /\ DOMAIN watchers = 1..Len(watchers)
  BY LenProperties DEF ListInv, TypeOK
<1>2. locked /\ turn = <<>>
  BY DEF Next, vars, feed, PutCluster, RemoveCluster, Synchronizer, Review, Forget,
         AnnounceGone, Learn, Watch, NewCacheWatcher, WatchersNext, Notifier, LockForNotify,
         TellNext, UnlockAfterNotify, AddWatcher, Goroutine, EmitInitial, EmitIncoming, Leave,
         Drop, Removal, RemoveWatcher, Client, Receive, Stop
<1>3. PICK i \in 1..Len(watchers) + 1 :
        turn = SubSeq(watchers, i, Len(watchers)) /\ \A j \in 1..i - 1 : Told(watchers[j])
  BY <1>2 DEF PassedAreTold
<1>4. i = Len(watchers) + 1
  <2>1. CASE i <= Len(watchers)
    <3>1. Len(turn) = Len(watchers) - i + 1
      BY <1>1, <1>3, <2>1, SubSeqProperties
    <3>2. Len(turn) = 0
      BY <1>2, EmptySeq
    <3> QED
      BY <1>1, <2>1, <3>1, <3>2
  <2> QED
    BY <1>1, <1>3, <2>1
<1> QED
  BY <1>1, <1>3, <1>4 DEF Range

\* When notifyWatchers returns, every registered watcher that sees the resource
\* agrees with the answer, in whatever order watchers have come and gone
\* (common.go:373-379).
THEOREM NobodyIsLeftOut == Spec => NobodyLeftOut
<1>1. Init => ListInv /\ PassedAreTold
  BY InitListInv DEF Init, WatchersInit, PassedAreTold
<1>2. ListInv /\ PassedAreTold /\ [Next]_vars => ListInv' /\ PassedAreTold'
  BY NextListInv, NextPassedAreTold
<1>3. ListInv /\ PassedAreTold /\ [Next]_vars =>
        [note # None /\ note' = None =>
           \A w \in Range(watchers) :
             Sees(w, note.name) /\ Knows(w, note.name) => HasAccess(w, note)]_vars
  BY StepLeavesNobodyOut DEF Told
<1> QED
  BY <1>1, <1>2, <1>3, PTL DEF Spec, NobodyLeftOut

-----------------------------------------------------------------------------
(***************************************************************************)
(* What the events on their way to a client lead to.                       *)
(***************************************************************************)
\* An event that comes last.
LEMMA LastEvent ==
  ASSUME NEW q \in Seq(Events), NEW e \in Events, NEW n, NEW from, NEW to
  PROVE  Leads(Append(q, e), n, from, to) <=>
           IF e.name = n THEN to = VersionAfter(e) ELSE Leads(q, n, from, to)
<1> DEFINE r == Append(q, e)
<1>1. /\ Len(q) \in Nat /\ DOMAIN q = 1..Len(q) /\ DOMAIN r = 1..Len(q) + 1
      /\ \A i \in 1..Len(q) : r[i] = q[i]
      /\ r[Len(q) + 1] = e
  BY AppendProperties, LenProperties
<1> HIDE DEF r
<1>2. \A i \in DOMAIN r : i \in DOMAIN q \/ i = Len(q) + 1
  BY <1>1
<1>3. CASE e.name = n
  BY <1>1, <1>2, <1>3 DEF Leads
<1>4. CASE e.name # n
  BY <1>1, <1>2, <1>4 DEF Leads
<1> QED
  BY <1>3, <1>4 DEF r

\* An event that comes first.
LEMMA FirstEvent ==
  ASSUME NEW q \in Seq(Events), NEW e \in Events, NEW n, NEW from, NEW to
  PROVE  Leads(<<e>> \o q, n, from, to) <=>
           Leads(q, n, IF e.name = n THEN VersionAfter(e) ELSE from, to)
<1> DEFINE r == <<e>> \o q
<1>1. <<e>> \in Seq(Events) /\ Len(<<e>>) = 1 /\ <<e>>[1] = e
  OBVIOUS
<1>2. /\ Len(q) \in Nat /\ DOMAIN q = 1..Len(q) /\ DOMAIN r = 1..Len(q) + 1
      /\ r[1] = e /\ \A i \in 1..Len(q) : r[i + 1] = q[i]
  BY <1>1, ConcatProperties, LenProperties
<1> HIDE DEF r
<1>3. \A i \in DOMAIN r : i = 1 \/ (i - 1 \in DOMAIN q /\ r[i] = q[i - 1])
  BY <1>2
<1>4. \A i \in DOMAIN q : i + 1 \in DOMAIN r /\ r[i + 1] = q[i]
  BY <1>2
<1> DEFINE Silent(u) == \A i \in DOMAIN u : u[i].name # n
           LastAt(u, i) == u[i].name = n /\ to = VersionAfter(u[i])
                             /\ \A j \in DOMAIN u : j > i => u[j].name # n
<1>5. Silent(r) <=> e.name # n /\ Silent(q)
  BY <1>2, <1>3, <1>4
<1>6. LastAt(r, 1) <=> e.name = n /\ to = VersionAfter(e) /\ Silent(q)
  <2>1. \A j \in DOMAIN r : j > 1 => j - 1 \in DOMAIN q /\ r[j] = q[j - 1]
    BY <1>2, <1>3
  <2>2. \A j \in DOMAIN q : j + 1 \in DOMAIN r /\ j + 1 > 1 /\ r[j + 1] = q[j]
    BY <1>2, <1>4
  <2>3. (\A j \in DOMAIN r : j > 1 => r[j].name # n) <=> Silent(q)
    BY <2>1, <2>2
  <2> QED
    BY <1>2, <2>3
<1>7. ASSUME NEW i \in DOMAIN q
      PROVE  LastAt(r, i + 1) <=> LastAt(q, i)
  <2>1. \A j \in DOMAIN r : j > i + 1 => j - 1 \in DOMAIN q /\ j - 1 > i /\ r[j] = q[j - 1]
    BY <1>2, <1>3
  <2>2. \A j \in DOMAIN q : j > i => j + 1 \in DOMAIN r /\ j + 1 > i + 1 /\ r[j + 1] = q[j]
    BY <1>2, <1>4
  <2> QED
    BY <1>4, <2>1, <2>2
<1>8. (\E i \in DOMAIN r : LastAt(r, i)) <=> LastAt(r, 1) \/ \E i \in DOMAIN q : LastAt(q, i)
  <2>1. ASSUME NEW i \in DOMAIN r, LastAt(r, i)
        PROVE  LastAt(r, 1) \/ \E k \in DOMAIN q : LastAt(q, k)
    <3>1. CASE i = 1
      BY <2>1, <3>1
    <3>2. CASE i # 1
      <4>1. i - 1 \in DOMAIN q /\ (i - 1) + 1 = i
        BY <1>2, <1>3, <3>2
      <4>2. LastAt(q, i - 1)
        BY <1>7, <2>1, <4>1
      <4> QED
        BY <4>1, <4>2
    <3> QED
      BY <3>1, <3>2
  <2>2. 1 \in DOMAIN r /\ \A i \in DOMAIN q : i + 1 \in DOMAIN r
    BY <1>2
  <2> QED
    BY <1>7, <2>1, <2>2
<1>9. /\ Leads(r, n, from, to) <=> (to = from /\ Silent(r)) \/ \E i \in DOMAIN r : LastAt(r, i)
      /\ \A f : Leads(q, n, f, to) <=> (to = f /\ Silent(q)) \/ \E i \in DOMAIN q : LastAt(q, i)
  BY DEF Leads
<1>10. (\E i \in DOMAIN q : LastAt(q, i)) => ~Silent(q)
  OBVIOUS
<1> HIDE DEF Silent, LastAt
<1>11. CASE e.name = n
  BY <1>5, <1>6, <1>8, <1>9, <1>11 DEF r
<1>12. CASE e.name # n
  BY <1>5, <1>6, <1>8, <1>9, <1>12 DEF r
<1> QED
  BY <1>11, <1>12

\* Without events the version is what it was.
LEMMA NoEvents ==
  ASSUME NEW n, NEW from, NEW to
  PROVE  Leads(<<>>, n, from, to) <=> to = from
BY DEF Leads

-----------------------------------------------------------------------------
(***************************************************************************)
(* What a client ends up with.                                             *)
(***************************************************************************)
\* The client of r ends up with what r's watcher takes it to know.
Agrees(r) ==
  \A n \in Names :
    Leads((IF r.outgoing = None THEN <<>> ELSE <<r.outgoing>>) \o r.cacheIncoming, n,
          VersionIn(IF n \in DOMAIN r.initialResources THEN r.initialResources ELSE r.view, n),
          VersionIn(r.knownResources, n))

\* A resource that is on its way is not among the initial ones that are to come.
InOrder(r) ==
  r.outgoing # None =>
    r.outgoing \in Events /\ r.outgoing.name \notin DOMAIN r.initialResources

\* The client of r has stopped or will agree.
Settled(r) == r.userStop \/ Agrees(r)

\* With nothing on its way, the queue alone counts.
LEMMA AgreesWhenIdle ==
  ASSUME NEW r \in CacheWatchers, r.outgoing = None
  PROVE  Agrees(r) <=>
           \A n \in Names :
             Leads(r.cacheIncoming, n,
                   VersionIn(IF n \in DOMAIN r.initialResources THEN r.initialResources
                             ELSE r.view, n),
                   VersionIn(r.knownResources, n))
<1>1. r.cacheIncoming \in Seq(Events)
  BY DEF CacheWatchers
<1>2. <<>> \o r.cacheIncoming = r.cacheIncoming
  BY <1>1, ConcatEmptySeq
<1> QED
  BY <1>2 DEF Agrees

\* With an event on its way, it comes before the queue.
LEMMA AgreesWhenSending ==
  ASSUME NEW r \in CacheWatchers, r.outgoing \in Events
  PROVE  Agrees(r) <=>
           \A n \in Names :
             Leads(r.cacheIncoming, n,
                   IF r.outgoing.name = n THEN VersionAfter(r.outgoing)
                   ELSE VersionIn(IF n \in DOMAIN r.initialResources THEN r.initialResources
                                  ELSE r.view, n),
                   VersionIn(r.knownResources, n))
<1>1. r.cacheIncoming \in Seq(Events) /\ r.outgoing # None
  BY WatchServerAssumption DEF CacheWatchers
<1> QED
  BY <1>1, FirstEvent DEF Agrees

\* What the watcher and its client do between them keeps the picture.
LEMMA OwnStepClient ==
  ASSUME ListInv, NEW w \in Watchers, OwnStep(w), InOrder(watcher[w])
  PROVE  InOrder(watcher'[w]) /\ (Settled(watcher[w]) => Settled(watcher'[w]))
<1> DEFINE r == watcher[w]
           q == watcher'[w]
<1>1. /\ TypeOK /\ watcher \in [Watchers -> CacheWatchers] /\ r \in CacheWatchers
      /\ q \in CacheWatchers /\ ~Failed(r) /\ InOrder(r) /\ r.view \in VersionMaps
      /\ r.initialResources \in VersionMaps
  BY OwnStepType DEF ListInv, TypeOK, NoErrorReported, CacheWatchers
<1>2. CASE Watch(w)
  <2>1. /\ q.outgoing = None /\ q.cacheIncoming = <<>> /\ q.knownResources = ListObjects(w)
        /\ q.initialResources = (IF IncludeExisting[w] THEN ListObjects(w) ELSE EmptyMap)
        /\ q.view = (IF IncludeExisting[w] THEN EmptyMap ELSE ListObjects(w))
    BY <1>1, <1>2 DEF Watch, NewCacheWatcher, NoWatcher
  <2>2. DOMAIN EmptyMap = {}
    BY EmptyIsMap
  <2>3. \A n : VersionIn(IF n \in DOMAIN q.initialResources THEN q.initialResources
                         ELSE q.view, n) = VersionIn(q.knownResources, n)
    BY <2>1, <2>2 DEF VersionIn
  <2>4. Agrees(q)
    BY <1>1, <2>1, <2>3, AgreesWhenIdle, NoEvents
  <2> QED
    BY <2>1, <2>4 DEF Settled, InOrder
<1>3. CASE EmitInitial(w)
  <2>1. PICK n \in DOMAIN r.initialResources :
          q = [r EXCEPT !.initialResources = Without(@, n),
                        !.outgoing = Event("ADDED", n, r.initialResources[n])]
    BY <1>1, <1>3 DEF EmitInitial
  <2> DEFINE e == Event("ADDED", n, r.initialResources[n])
  <2>2. /\ e \in Events /\ e.name = n /\ VersionAfter(e) = VersionIn(r.initialResources, n)
    BY <1>1, VersionRange DEF Event, Events, VersionAfter
  <2>3. r.outgoing = None
    BY <1>3 DEF EmitInitial, AtSelect
  <2>4. /\ q.outgoing = e /\ q.initialResources = Without(r.initialResources, n)
        /\ q.cacheIncoming = r.cacheIncoming /\ q.view = r.view
        /\ q.knownResources = r.knownResources /\ q.userStop = r.userStop
    BY <1>1, <2>1 DEF CacheWatchers
  <2>5. DOMAIN q.initialResources = DOMAIN r.initialResources \ {n}
        /\ \A k : k # n => VersionIn(q.initialResources, k) = VersionIn(r.initialResources, k)
    BY <1>1, <2>4, WithoutVersion DEF Without, Restrict
  <2> HIDE DEF e
  <2>6. ASSUME Agrees(r)
        PROVE  Agrees(q)
    <3>1. ASSUME NEW k \in Names
          PROVE  Leads(q.cacheIncoming, k,
                   IF q.outgoing.name = k THEN VersionAfter(q.outgoing)
                   ELSE VersionIn(IF k \in DOMAIN q.initialResources THEN q.initialResources
                                  ELSE q.view, k),
                   VersionIn(q.knownResources, k))
      <4>1. Leads(r.cacheIncoming, k,
                  VersionIn(IF k \in DOMAIN r.initialResources THEN r.initialResources
                            ELSE r.view, k),
                  VersionIn(r.knownResources, k))
        BY <1>1, <2>3, <2>6, AgreesWhenIdle
      <4>2. CASE k = n
        BY <2>2, <2>4, <4>1, <4>2
      <4>3. CASE k # n
        BY <2>2, <2>4, <2>5, <4>1, <4>3
      <4> QED
        BY <4>2, <4>3
    <3> QED
      BY <1>1, <2>2, <2>4, <3>1, AgreesWhenSending
  <2> QED
    BY <1>1, <2>2, <2>4, <2>5, <2>6 DEF Settled, InOrder
<1>4. CASE EmitIncoming(w)
  <2>1. /\ r.cacheIncoming \in Seq(Events) /\ r.cacheIncoming # <<>> /\ r.outgoing = None
        /\ r.initialResources = EmptyMap
    BY <1>1, <1>4 DEF CacheWatchers, EmitIncoming, AtSelect
  <2>2. /\ q.outgoing = Head(r.cacheIncoming) /\ q.cacheIncoming = Tail(r.cacheIncoming)
        /\ q.initialResources = r.initialResources /\ q.view = r.view
        /\ q.knownResources = r.knownResources /\ q.userStop = r.userStop
    BY <1>1, <1>4 DEF EmitIncoming, CacheWatchers
  <2>3. /\ q.outgoing \in Events /\ r.cacheIncoming = <<q.outgoing>> \o q.cacheIncoming
        /\ q.cacheIncoming \in Seq(Events) /\ q.outgoing # None
    BY <2>1, <2>2, HeadTailProperties, WatchServerAssumption
  <2>4. Agrees(r) => Agrees(q)
    BY <1>1, <2>1, <2>2, <2>3, AgreesWhenIdle DEF Agrees
  <2>5. DOMAIN EmptyMap = {}
    BY EmptyIsMap
  <2> QED
    BY <1>1, <2>1, <2>2, <2>3, <2>4, <2>5 DEF Settled, InOrder
<1>5. CASE Leave(w)
  <2>1. r.userStop /\ q = [r EXCEPT !.pc = "exiting", !.outgoing = None]
    <3>1. PICK reason \in ExitReasons(w) :
            q = [r EXCEPT !.pc = "exiting",
                          !.outgoing = IF reason = "error" THEN ErrorEvent ELSE None]
      BY <1>1, <1>5 DEF Leave
    <3>2. reason = "stop" /\ r.userStop
      BY <1>1 DEF ExitReasons, Failed
    <3> QED
      BY <3>1, <3>2
  <2> QED
    BY <1>1, <2>1 DEF Settled, InOrder, CacheWatchers
<1>6. CASE Receive(w)
  <2> DEFINE e == r.outgoing
  <2>1. /\ q.outgoing = None /\ q.cacheIncoming = r.cacheIncoming
        /\ q.initialResources = r.initialResources /\ q.view = Applied(r.view, e)
        /\ q.knownResources = r.knownResources /\ q.userStop = r.userStop
    BY <1>1, <1>6 DEF Receive, CacheWatchers
  <2>2. e \in Events /\ e.name \notin DOMAIN r.initialResources
    BY <1>1, <1>6 DEF Receive, InOrder
  <2>3. \A k : VersionIn(q.view, k) =
               IF e.name = k THEN VersionAfter(e) ELSE VersionIn(r.view, k)
    BY <1>1, <2>1, <2>2, AppliedVersion DEF VersionAfter
  <2> HIDE DEF e
  <2>4. ASSUME Agrees(r)
        PROVE  Agrees(q)
    <3>1. ASSUME NEW k \in Names
          PROVE  Leads(q.cacheIncoming, k,
                   VersionIn(IF k \in DOMAIN q.initialResources THEN q.initialResources
                             ELSE q.view, k),
                   VersionIn(q.knownResources, k))
      <4>1. Leads(r.cacheIncoming, k,
                  IF e.name = k THEN VersionAfter(e)
                  ELSE VersionIn(IF k \in DOMAIN r.initialResources THEN r.initialResources
                                 ELSE r.view, k),
                  VersionIn(r.knownResources, k))
        BY <1>1, <2>2, <2>4, AgreesWhenSending DEF e
      <4>2. CASE k = e.name
        BY <2>1, <2>2, <2>3, <4>1, <4>2
      <4>3. CASE k # e.name
        BY <2>1, <2>3, <4>1, <4>3
      <4> QED
        BY <4>2, <4>3
    <3> QED
      BY <1>1, <2>1, <3>1, AgreesWhenIdle
  <2> QED
    BY <1>1, <2>1, <2>4 DEF Settled, InOrder
<1>7. CASE Drop(w) \/ Stop(w)
  <2>1. \/ q = [r EXCEPT !.outgoing = None] /\ r.userStop
        \/ q = [r EXCEPT !.userStop = TRUE]
    BY <1>1, <1>7 DEF Drop, Stop
  <2> QED
    BY <1>1, <2>1 DEF Settled, InOrder, CacheWatchers
<1> QED
  BY <1>2, <1>3, <1>4, <1>5, <1>6, <1>7 DEF OwnStep, Goroutine, Client

\* A turn of notifyWatchers changes what is known and queues the event that says
\* so, or finds the queue full.
LEMMA TellNextClient ==
  ASSUME ListInv, TellNext, NEW w, w = Head(turn)
  PROVE  /\ InOrder(watcher[w]) => InOrder(watcher'[w])
         /\ Settled(watcher[w]) => Settled(watcher'[w]) \/ removing' = w
<1> DEFINE r == watcher[w]
           q == watcher'[w]
           n == note.name
<1>1. /\ TypeOK /\ w \in Watchers /\ r \in CacheWatchers /\ q \in CacheWatchers
      /\ watcher \in [Watchers -> CacheWatchers] /\ ~Failed(r)
      /\ r.knownResources \in VersionMaps /\ r.cacheIncoming \in Seq(Events)
      /\ r.outgoing \in Events \cup {None} /\ None \notin Events
      /\ n \in Names /\ clusters \in VersionMaps
  <2>1. TypeOK /\ NoErrorReported
    BY DEF ListInv
  <2>2. w \in Watchers /\ q \in CacheWatchers
    BY <2>1, TellNextType
  <2>3. note # None
    BY <2>1 DEF TypeOK, LockOK, TellNext
  <2> QED
    BY <2>1, <2>2, <2>3, WatchServerAssumption
    DEF TypeOK, FeedTypeOK, NoErrorReported, Failed, CacheWatchers
<1> HIDE DEF n
<1>2. ASSUME NEW newKnown, NEW e \in Events, Send(w, newKnown, e),
             \A k \in Names : VersionIn(newKnown, k) =
               IF e.name = k THEN VersionAfter(e) ELSE VersionIn(r.knownResources, k)
      PROVE  (InOrder(r) => InOrder(q)) /\ (Settled(r) => Settled(q) \/ removing' = w)
  <2>1. CASE Len(r.cacheIncoming) < Capacity
    <3>1. /\ q.cacheIncoming = Append(r.cacheIncoming, e) /\ q.knownResources = newKnown
          /\ q.outgoing = r.outgoing /\ q.initialResources = r.initialResources
          /\ q.view = r.view /\ q.userStop = r.userStop
      BY <1>1, <1>2, <2>1 DEF Send, CacheWatchers
    <3>2. ASSUME Agrees(r)
          PROVE  Agrees(q)
      <4>1. \A k, from, to :
              Leads(q.cacheIncoming, k, from, to) <=>
                IF e.name = k THEN to = VersionAfter(e) ELSE Leads(r.cacheIncoming, k, from, to)
        BY <1>1, <3>1, LastEvent
      <4>2. CASE r.outgoing = None
        BY <1>1, <1>2, <3>1, <3>2, <4>1, <4>2, AgreesWhenIdle
      <4>3. CASE r.outgoing \in Events
        <5>1. ASSUME NEW k \in Names
              PROVE  Leads(q.cacheIncoming, k,
                       IF q.outgoing.name = k THEN VersionAfter(q.outgoing)
                       ELSE VersionIn(IF k \in DOMAIN q.initialResources
                                      THEN q.initialResources ELSE q.view, k),
                       VersionIn(q.knownResources, k))
          <6>1. Leads(r.cacheIncoming, k,
                  IF r.outgoing.name = k THEN VersionAfter(r.outgoing)
                  ELSE VersionIn(IF k \in DOMAIN r.initialResources
                                 THEN r.initialResources ELSE r.view, k),
                  VersionIn(r.knownResources, k))
            BY <1>1, <3>2, <4>3, AgreesWhenSending
          <6> QED
            BY <1>2, <3>1, <4>1, <6>1
        <5> QED
          BY <1>1, <3>1, <4>3, <5>1, AgreesWhenSending
      <4> QED
        BY <1>1, <4>2, <4>3
    <3> QED
      BY <3>1, <3>2 DEF Settled, InOrder
  <2>2. CASE ~(Len(r.cacheIncoming) < Capacity)
    <3>1. q.outgoing = r.outgoing /\ q.initialResources = r.initialResources /\ removing' = w
      BY <1>1, <1>2, <2>2 DEF Send, CacheWatchers
    <3> QED
      BY <3>1 DEF InOrder
  <2> QED
    BY <2>1, <2>2
<1>3. CASE LoseAccess(w)
  <2> DEFINE e == Event("DELETED", n, VersionOf(n))
  <2>1. e \in Events /\ e.name = n /\ VersionAfter(e) = 0
    BY <1>1, VersionRange DEF Event, Events, VersionOf, VersionAfter
  <2>2. Send(w, Without(r.knownResources, n), e)
    BY <1>3 DEF LoseAccess, n
  <2> HIDE DEF e
  <2> QED
    BY <1>1, <1>2, <2>1, <2>2, WithoutVersion
<1>4. CASE HaveAccess(w)
  <2> DEFINE e == Event(IF Knows(w, n) THEN "MODIFIED" ELSE "ADDED", n, clusters[n])
  <2>1. clusters[n] \in 1..MaxVersion
    BY <1>1, <1>4, VersionRange DEF HaveAccess, IsNews, n
  <2>2. e \in Events /\ e.name = n /\ VersionAfter(e) = clusters[n]
    BY <1>1, <2>1 DEF Event, Events, VersionAfter
  <2>3. Send(w, Assign(r.knownResources, n, clusters[n]), e)
    BY <1>4 DEF HaveAccess, n
  <2> HIDE DEF e
  <2> QED
    BY <1>1, <1>2, <2>1, <2>2, <2>3, AssignVersion
<1>5. CASE NothingToTell(w)
  BY <1>5 DEF NothingToTell
<1> QED
  BY <1>3, <1>4, <1>5 DEF TellNext, GroupMembershipChanged

\* What is on its way is never out of order, and every client has stopped, lost an
\* event to a full queue, or will agree with its watcher.
ClientInv ==
  \A w \in Watchers : InOrder(watcher[w]) /\ (Settled(watcher[w]) \/ removing = w)

\* It is ViewFollowsKnown, and more.
LEMMA ClientInvSuffices ==
  ASSUME ClientInv
  PROVE  ViewFollowsKnown
BY DEF ClientInv, ViewFollowsKnown, Settled, Agrees, Underway, InitialVersion

\* ClientInv holds after any step.
LEMMA NextClientInv ==
  ASSUME ListInv, ClientInv, [Next]_vars
  PROVE  ClientInv'
<1>1. TypeOK /\ watcher \in [Watchers -> CacheWatchers]
  BY DEF ListInv, TypeOK
<1>2. CASE Synchronizer \/ \E n \in Names : PutCluster(n) \/ RemoveCluster(n)
  BY <1>2 DEF Synchronizer, PutCluster, RemoveCluster, notifier, ClientInv
<1>3. CASE \E w \in Watchers : OwnStep(w)
  <2>1. PICK w \in Watchers : OwnStep(w)
    BY <1>3
  <2>2. UNCHANGED removing /\ \A v \in Watchers \ {w} : watcher'[v] = watcher[v]
    BY <1>1, <2>1, OwnStepType, RecordTypes DEF notifier
  <2>3. InOrder(watcher'[w]) /\ (Settled(watcher[w]) => Settled(watcher'[w]))
    BY <2>1, OwnStepClient DEF ClientInv
  <2> QED
    BY <2>2, <2>3 DEF ClientInv
<1>4. CASE \E w \in Watchers : AddWatcher(w) \/ Removal(w)
  <2>1. PICK w \in Watchers : AddWatcher(w) \/ Removal(w)
    BY <1>4
  <2>2. UNCHANGED removing /\ \E pc : watcher' = [watcher EXCEPT ![w].pc = pc]
    BY <1>1, <2>1, OnlyGoroutinesRemove DEF AddWatcher, Removal, RemoveWatcher
  <2>3. ASSUME NEW v \in Watchers
        PROVE  InOrder(watcher'[v]) /\ (Settled(watcher[v]) => Settled(watcher'[v]))
    <3>1. /\ watcher'[v].outgoing = watcher[v].outgoing
          /\ watcher'[v].cacheIncoming = watcher[v].cacheIncoming
          /\ watcher'[v].initialResources = watcher[v].initialResources
          /\ watcher'[v].view = watcher[v].view
          /\ watcher'[v].knownResources = watcher[v].knownResources
          /\ watcher'[v].userStop = watcher[v].userStop
      BY <1>1, <2>2 DEF CacheWatchers
    <3> QED
      BY <3>1 DEF ClientInv, InOrder, Settled, Agrees
  <2> QED
    BY <2>2, <2>3 DEF ClientInv
<1>5. CASE TellNext
  <2> DEFINE w == Head(turn)
  <2>1. /\ w \in Watchers /\ watcher' = [watcher EXCEPT ![w] = watcher'[w]]
        /\ watcher'[w] \in CacheWatchers /\ WatcherOK(watcher'[w]) /\ removing = None
    BY <1>1, <1>5, TellNextType DEF TellNext
  <2>2. \A v \in Watchers \ {w} : watcher'[v] = watcher[v]
    BY <1>1, <2>1, RecordTypes
  <2>3. /\ InOrder(watcher[w]) => InOrder(watcher'[w])
        /\ Settled(watcher[w]) => Settled(watcher'[w]) \/ removing' = w
    BY <1>5, TellNextClient
  <2>4. None \notin Watchers
    BY WatchServerAssumption
  <2> HIDE DEF w
  <2> QED
    BY <2>1, <2>2, <2>3, <2>4 DEF ClientInv
<1>6. CASE LockForNotify \/ UnlockAfterNotify
  BY <1>6 DEF LockForNotify, UnlockAfterNotify, ClientInv
<1>7. CASE UNCHANGED vars
  BY <1>7 DEF vars, notifier, ClientInv
<1> QED
  BY <1>2, <1>3, <1>4, <1>5, <1>6, <1>7
  DEF Next, WatchersNext, Notifier, OwnStep

\* Nobody knows anything at first.
LEMMA InitClientInv ==
  ASSUME Init
  PROVE  ClientInv
<1>1. NoWatcher \in CacheWatchers
  <2>1. EmptyMap \in VersionMaps /\ <<>> \in Seq(Events)
    BY NoVersions, EmptySeq
  <2> QED
    BY <2>1 DEF NoWatcher, CacheWatchers
<1>2. Agrees(NoWatcher)
  <2>1. /\ NoWatcher.outgoing = None /\ NoWatcher.cacheIncoming = <<>>
        /\ NoWatcher.initialResources = EmptyMap /\ NoWatcher.view = EmptyMap
        /\ NoWatcher.knownResources = EmptyMap
    BY DEF NoWatcher
  <2> HIDE DEF NoWatcher
  <2> QED
    BY <1>1, <2>1, AgreesWhenIdle, NoEvents
<1> QED
  BY <1>2 DEF Init, WatchersInit, ClientInv, InOrder, Settled, NoWatcher

\* Every client that goes on receiving ends up with what its watcher takes it to
\* know, however events, reviews and its own pace interleave, and whatever the
\* size of its queue (watcher.go:119-159, 175-217).
THEOREM ClientsFollow == Spec => []ViewFollowsKnown
<1>1. Init => ListInv /\ ClientInv
  BY InitListInv, InitClientInv
<1>2. ListInv /\ ClientInv /\ [Next]_vars => ListInv' /\ ClientInv'
  BY NextListInv, NextClientInv
<1>3. ClientInv => ViewFollowsKnown
  BY ClientInvSuffices
<1> QED
  BY <1>1, <1>2, <1>3, PTL DEF Spec

-----------------------------------------------------------------------------
(***************************************************************************)
(* Why the events fit.  Each was chosen from what the watcher took its     *)
(* client to know, which is what the events before it lead to; and what is *)
(* known is never newer than what the lister has.                          *)
(***************************************************************************)
\* What is known is known from the lister, whose versions only grow.
KnownIsOld ==
  /\ \A n \in DOMAIN clusters : clusters[n] <= clock
  /\ \A w \in Watchers : \A n \in DOMAIN watcher[w].knownResources :
       /\ watcher[w].knownResources[n] <= clock
       /\ n \in DOMAIN clusters => watcher[w].knownResources[n] <= clusters[n]

\* A step of the watchers that leaves the lister alone and, of what is known,
\* changes at most what w knows, to versions of the lister or to none.
LEMMA KnownFromLister ==
  ASSUME TypeOK, KnownIsOld, UNCHANGED lister,
         \A w \in Watchers : \A n \in DOMAIN watcher'[w].knownResources :
           \/ /\ n \in DOMAIN watcher[w].knownResources
              /\ watcher'[w].knownResources[n] = watcher[w].knownResources[n]
           \/ n \in DOMAIN clusters /\ watcher'[w].knownResources[n] = clusters[n]
  PROVE  KnownIsOld'
<1>1. UNCHANGED <<clusters, clock>>
  BY DEF lister
<1>2. \A n \in DOMAIN clusters : clusters[n] <= clock /\ clusters[n] <= clusters[n]
  BY CacheWatcherAssumption DEF KnownIsOld, TypeOK, VersionMaps
<1> QED
  BY <1>1, <1>2 DEF KnownIsOld

\* A write to the lister is newer than all that is known.
LEMMA KnownIsOldAfterWrite ==
  ASSUME TypeOK, KnownIsOld, UNCHANGED watcher, NEW n \in Names, PutCluster(n) \/ RemoveCluster(n)
  PROVE  KnownIsOld'
<1>1. clock \in Nat /\ clusters \in VersionMaps
  BY CacheWatcherAssumption DEF TypeOK
<1>2. \A w \in Watchers : \A k \in DOMAIN watcher[w].knownResources :
        watcher[w].knownResources[k] \in Nat
  BY CacheWatcherAssumption, VersionRange DEF TypeOK, CacheWatchers
<1>3. \A k \in DOMAIN clusters : clusters[k] \in Nat
  BY <1>1, CacheWatcherAssumption, VersionRange
<1>4. CASE PutCluster(n)
  <2>1. /\ clock' = clock + 1 /\ DOMAIN clusters' = DOMAIN clusters \cup {n}
        /\ clusters'[n] = clock + 1 /\ \A k \in DOMAIN clusters' \ {n} : clusters'[k] = clusters[k]
    BY <1>4 DEF PutCluster, Assign
  <2> QED
    BY <1>1, <1>2, <1>3, <2>1 DEF KnownIsOld
<1>5. CASE RemoveCluster(n)
  <2>1. /\ clock' = clock /\ DOMAIN clusters' = DOMAIN clusters \ {n}
        /\ \A k \in DOMAIN clusters' : clusters'[k] = clusters[k]
    BY <1>5 DEF RemoveCluster, Without, Restrict
  <2> QED
    BY <2>1 DEF KnownIsOld
<1> QED
  BY <1>4, <1>5

\* KnownIsOld holds after any step.
LEMMA NextKnownIsOld ==
  ASSUME ListInv, KnownIsOld, [Next]_vars
  PROVE  KnownIsOld'
<1>1. TypeOK /\ watcher \in [Watchers -> CacheWatchers]
  BY DEF ListInv, TypeOK
<1>2. ASSUME UNCHANGED lister,
             \A w \in Watchers : watcher'[w].knownResources = watcher[w].knownResources
      PROVE  KnownIsOld'
  BY <1>1, <1>2, KnownFromLister
<1>3. CASE Synchronizer \/ LockForNotify \/ UnlockAfterNotify \/ UNCHANGED vars
  BY <1>2, <1>3 DEF Synchronizer, LockForNotify, UnlockAfterNotify, vars
<1>4. CASE \E n \in Names : PutCluster(n) \/ RemoveCluster(n)
  BY <1>1, <1>4, KnownIsOldAfterWrite DEF PutCluster, RemoveCluster
<1>5. ASSUME NEW w \in Watchers, Watch(w)
      PROVE  KnownIsOld'
  <2>1. /\ UNCHANGED lister /\ watcher'[w].knownResources = ListObjects(w)
        /\ \A v \in Watchers \ {w} : watcher'[v] = watcher[v]
    BY <1>1, <1>5 DEF Watch, NewCacheWatcher, NoWatcher
  <2>2. \A n \in DOMAIN ListObjects(w) : n \in DOMAIN clusters /\ ListObjects(w)[n] = clusters[n]
    BY DEF ListObjects, Restrict
  <2> QED
    BY <1>1, <2>1, <2>2, KnownFromLister
<1>6. ASSUME NEW w \in Watchers, Goroutine(w) \/ Client(w) \/ AddWatcher(w) \/ Removal(w)
      PROVE  KnownIsOld'
  <2>1. UNCHANGED lister
    BY <1>6 DEF Goroutine, EmitInitial, EmitIncoming, Leave, Drop, Client, Receive, Stop, AddWatcher,
                Removal, RemoveWatcher
  <2>2. \A v \in Watchers : watcher'[v].knownResources = watcher[v].knownResources
    <3>1. CASE Goroutine(w) \/ Client(w)
      <4>1. /\ watcher' = [watcher EXCEPT ![w] = watcher'[w]] /\ watcher'[w] \in CacheWatchers
            /\ \/ watcher[w].pc = "absent"
               \/ watcher'[w].knownResources = watcher[w].knownResources
        BY <1>1, <3>1, OwnStepType DEF OwnStep
      <4>2. watcher[w].pc # "absent"
        BY <1>1, <3>1 DEF Goroutine, EmitInitial, EmitIncoming, Leave, Drop, Client, Receive, Stop,
                          AtSelect, TypeOK, WatcherOK
      <4>3. \A v \in Watchers \ {w} : watcher'[v] = watcher[v]
        BY <1>1, <4>1, RecordTypes
      <4> QED
        BY <4>1, <4>2, <4>3
    <3>2. CASE AddWatcher(w) \/ Removal(w)
      <4>1. \E pc : watcher' = [watcher EXCEPT ![w].pc = pc]
        BY <1>1, <3>2, OnlyGoroutinesRemove DEF AddWatcher, Removal, RemoveWatcher
      <4> QED
        BY <1>1, <4>1 DEF CacheWatchers
    <3> QED
      BY <1>6, <3>1, <3>2
  <2> QED
    BY <1>1, <1>2, <2>1, <2>2
<1>7. CASE TellNext
  <2> DEFINE w == Head(turn)
  <2>1. /\ w \in Watchers /\ watcher' = [watcher EXCEPT ![w] = watcher'[w]]
        /\ watcher'[w] \in CacheWatchers /\ GroupMembershipChanged(w)
        /\ UNCHANGED <<note, lister>>
    BY <1>1, <1>7, TellNextType DEF TellNext, feed
  <2> HIDE DEF w
  <2>2. \/ watcher'[w].knownResources = watcher[w].knownResources
        \/ watcher'[w].knownResources = Without(watcher[w].knownResources, note.name)
        \/ /\ note.name \in DOMAIN clusters
           /\ watcher'[w].knownResources =
                Assign(watcher[w].knownResources, note.name, clusters[note.name])
    BY <1>1, <2>1 DEF GroupMembershipChanged, LoseAccess, HaveAccess, IsNews, NothingToTell, Send,
                      CacheWatchers
  <2>3. \A n \in DOMAIN watcher'[w].knownResources :
          \/ /\ n \in DOMAIN watcher[w].knownResources
             /\ watcher'[w].knownResources[n] = watcher[w].knownResources[n]
          \/ n \in DOMAIN clusters /\ watcher'[w].knownResources[n] = clusters[n]
    BY <2>2 DEF Without, Restrict, Assign
  <2>4. \A v \in Watchers \ {w} : watcher'[v] = watcher[v]
    BY <1>1, <2>1
  <2> QED
    BY <1>1, <2>1, <2>3, <2>4, KnownFromLister
<1> QED
  BY <1>3, <1>4, <1>5, <1>6, <1>7 DEF Next, WatchersNext, Notifier

\* An event that fits a client with version v of its resource, 0 for none.
FitsVersion(v, e) ==
  CASE e.type = "ADDED" -> v = 0
    [] e.type = "MODIFIED" -> v # 0 /\ v < e.version
    [] OTHER -> v # 0

\* Each event about n fits a client that starts with version from of it and gets
\* the events one by one.
Fitting(events, n, from) ==
  \A i \in DOMAIN events : events[i].name = n =>
    \E v \in 0..MaxVersion : Leads(SubSeq(events, 1, i - 1), n, from, v) /\ FitsVersion(v, events[i])

\* An event that comes last fits when it fits what those before it lead to.
LEMMA FittingLast ==
  ASSUME NEW q \in Seq(Events), NEW e \in Events, NEW n, NEW from, Fitting(q, n, from),
         e.name = n => \E v \in 0..MaxVersion : Leads(q, n, from, v) /\ FitsVersion(v, e)
  PROVE  Fitting(Append(q, e), n, from)
<1> DEFINE r == Append(q, e)
<1>1. /\ Len(q) \in Nat /\ DOMAIN q = 1..Len(q) /\ DOMAIN r = 1..Len(q) + 1
      /\ \A i \in 1..Len(q) : r[i] = q[i]
      /\ r[Len(q) + 1] = e /\ r \in Seq(Events)
  BY AppendProperties, LenProperties
<1> HIDE DEF r
<1>2. ASSUME NEW i \in DOMAIN r
      PROVE  SubSeq(r, 1, i - 1) = SubSeq(q, 1, i - 1)
  BY <1>1, <1>2
<1>3. SubSeq(q, 1, Len(q)) = q
  BY SubSeqFull
<1>4. ASSUME NEW i \in DOMAIN r, r[i].name = n
      PROVE  \E v \in 0..MaxVersion : Leads(SubSeq(r, 1, i - 1), n, from, v) /\ FitsVersion(v, r[i])
  <2>1. CASE i \in DOMAIN q
    BY <1>1, <1>2, <1>4, <2>1 DEF Fitting
  <2>2. CASE i = Len(q) + 1
    <3>1. r[i] = e /\ SubSeq(r, 1, i - 1) = q
      BY <1>1, <1>2, <1>3, <2>2
    <3> QED
      BY <1>4, <3>1
  <2> QED
    BY <1>1, <2>1, <2>2
<1> QED
  BY <1>4 DEF Fitting, r

\* An event that comes first fits what the client starts with, and those after it
\* fit what the client makes of it.
LEMMA FittingFirst ==
  ASSUME NEW q \in Seq(Events), NEW e \in Events, NEW n, NEW from \in 0..MaxVersion
  PROVE  Fitting(<<e>> \o q, n, from) <=>
           /\ e.name = n => FitsVersion(from, e)
           /\ Fitting(q, n, IF e.name = n THEN VersionAfter(e) ELSE from)
<1> DEFINE r == <<e>> \o q
           next == IF e.name = n THEN VersionAfter(e) ELSE from
           FitsAt(u, f, i) ==
             u[i].name = n =>
               \E v \in 0..MaxVersion : Leads(SubSeq(u, 1, i - 1), n, f, v) /\ FitsVersion(v, u[i])
<1>1. <<e>> \in Seq(Events) /\ Len(<<e>>) = 1 /\ <<e>>[1] = e
  OBVIOUS
<1>2. /\ Len(q) \in Nat /\ DOMAIN q = 1..Len(q) /\ DOMAIN r = 1..Len(q) + 1
      /\ r[1] = e /\ \A i \in 1..Len(q) : r[i + 1] = q[i]
      /\ r \in Seq(Events) /\ Len(r) = Len(q) + 1
  BY <1>1, ConcatProperties, LenProperties
<1>3. FitsAt(r, from, 1) <=> (e.name = n => FitsVersion(from, e))
  <2>1. SubSeq(r, 1, 1 - 1) = <<>>
    BY <1>2, SubSeqEmpty
  <2> HIDE DEF r
  <2>2. ASSUME NEW v
        PROVE  Leads(SubSeq(r, 1, 1 - 1), n, from, v) <=> v = from
    <3>1. Leads(<<>>, n, from, v) <=> v = from
      BY NoEvents
    <3> QED
      BY <2>1, <3>1, Zenon
  <2> QED
    BY <1>2, <2>2
<1>4. ASSUME NEW i \in DOMAIN q
      PROVE  FitsAt(r, from, i + 1) <=> FitsAt(q, next, i)
  <2>1. SubSeq(q, 1, i - 1) \in Seq(Events)
    BY <1>2, SubSeqProperties
  <2>2. SubSeq(r, 1, i) = <<e>> \o SubSeq(q, 1, i - 1)
    <3>1. SubSeq(r, 1, i) \in Seq(Events) /\ Len(SubSeq(r, 1, i)) = i
          /\ \A j \in 1..i : SubSeq(r, 1, i)[j] = r[j]
      BY <1>2, SubSeqProperties
    <3>2. /\ Len(SubSeq(q, 1, i - 1)) = i - 1
          /\ \A j \in 1..i - 1 : SubSeq(q, 1, i - 1)[j] = q[j]
      BY <1>2, SubSeqProperties
    <3>3. /\ <<e>> \o SubSeq(q, 1, i - 1) \in Seq(Events)
          /\ Len(<<e>> \o SubSeq(q, 1, i - 1)) = i
          /\ (<<e>> \o SubSeq(q, 1, i - 1))[1] = e
          /\ \A j \in 1..i - 1 : (<<e>> \o SubSeq(q, 1, i - 1))[j + 1] = q[j]
      BY <1>1, <1>2, <2>1, <3>2, ConcatProperties
    <3>4. \A j \in 1..i : j = 1 \/ (j - 1 \in 1..i - 1 /\ j - 1 \in 1..Len(q) /\ (j - 1) + 1 = j)
      BY <1>2
    <3> HIDE DEF r
    <3>5. \A j \in 1..i : SubSeq(r, 1, i)[j] = (<<e>> \o SubSeq(q, 1, i - 1))[j]
      BY <1>2, <3>1, <3>3, <3>4
    <3> QED
      BY <3>1, <3>3, <3>5, SeqEqual
  <2>3. ASSUME NEW v
        PROVE  Leads(SubSeq(r, 1, i), n, from, v) <=> Leads(SubSeq(q, 1, i - 1), n, next, v)
    <3>1. Leads(<<e>> \o SubSeq(q, 1, i - 1), n, from, v) <=> Leads(SubSeq(q, 1, i - 1), n, next, v)
      BY <2>1, FirstEvent
    <3> QED
      BY <2>2, <3>1, Zenon
  <2>4. (i + 1) - 1 = i /\ r[i + 1] = q[i]
    BY <1>2
  <2> HIDE DEF r, next
  <2> QED
    BY <2>3, <2>4
<1> HIDE DEF r, next, FitsAt
<1>5. (\A i \in DOMAIN r : FitsAt(r, from, i)) <=>
        FitsAt(r, from, 1) /\ \A i \in DOMAIN q : FitsAt(q, next, i)
  <2>1. 1 \in DOMAIN r /\ \A i \in DOMAIN q : i + 1 \in DOMAIN r
    BY <1>2
  <2>2. \A i \in DOMAIN r : i = 1 \/ (i - 1 \in DOMAIN q /\ (i - 1) + 1 = i)
    BY <1>2
  <2>3. ASSUME NEW i \in DOMAIN r, i # 1, \A k \in DOMAIN q : FitsAt(q, next, k)
        PROVE  FitsAt(r, from, i)
    <3>1. FitsAt(r, from, (i - 1) + 1)
      BY <1>4, <2>2, <2>3
    <3> QED
      BY <2>2, <2>3, <3>1
  <2> QED
    BY <1>4, <2>1, <2>3
<1>6. /\ Fitting(r, n, from) <=> \A i \in DOMAIN r : FitsAt(r, from, i)
      /\ Fitting(q, n, next) <=> \A i \in DOMAIN q : FitsAt(q, next, i)
  BY DEF Fitting, FitsAt
<1> QED
  BY <1>3, <1>5, <1>6 DEF r, next

\* The version of n that the client of r has when it gets what is on its way.
FirstVersion(r, n) ==
  VersionIn(IF n \in DOMAIN r.initialResources THEN r.initialResources ELSE r.view, n)

\* What is on its way to the client of r fits it.
AllFit(r) ==
  \A n \in Names :
    Fitting((IF r.outgoing = None THEN <<>> ELSE <<r.outgoing>>) \o r.cacheIncoming, n,
            FirstVersion(r, n))

\* The client of r has stopped, or all it gets fits it: the initial resources,
\* none of which it has yet, and what is on its way.
Orderly(r) == r.userStop \/ (DOMAIN r.view \cap DOMAIN r.initialResources = {} /\ AllFit(r))

\* A client's picture is one of versions.
LEMMA FirstVersionRange ==
  ASSUME NEW r \in CacheWatchers, NEW n
  PROVE  FirstVersion(r, n) \in 0..MaxVersion
<1>1. r.initialResources \in VersionMaps /\ r.view \in VersionMaps
  BY DEF CacheWatchers
<1> QED
  BY <1>1, VersionRange DEF FirstVersion

\* With nothing on its way, the queue alone counts.
LEMMA AllFitWhenIdle ==
  ASSUME NEW r \in CacheWatchers, r.outgoing = None
  PROVE  AllFit(r) <=> \A n \in Names : Fitting(r.cacheIncoming, n, FirstVersion(r, n))
<1>1. r.cacheIncoming \in Seq(Events)
  BY DEF CacheWatchers
<1>2. <<>> \o r.cacheIncoming = r.cacheIncoming
  BY <1>1, ConcatEmptySeq
<1> QED
  BY <1>2 DEF AllFit

\* With an event on its way, it comes before the queue.
LEMMA AllFitWhenSending ==
  ASSUME NEW r \in CacheWatchers, r.outgoing \in Events
  PROVE  AllFit(r) <=>
           \A n \in Names :
             /\ r.outgoing.name = n => FitsVersion(FirstVersion(r, n), r.outgoing)
             /\ Fitting(r.cacheIncoming, n,
                        IF r.outgoing.name = n THEN VersionAfter(r.outgoing) ELSE FirstVersion(r, n))
<1>1. r.cacheIncoming \in Seq(Events) /\ r.outgoing # None
  BY WatchServerAssumption DEF CacheWatchers
<1> QED
  BY <1>1, FittingFirst, FirstVersionRange DEF AllFit

\* An empty queue fits.
LEMMA NothingFits ==
  ASSUME NEW n, NEW from
  PROVE  Fitting(<<>>, n, from)
BY DEF Fitting

\* What the watcher and its client do between them leaves only what fits.
LEMMA OwnStepFits ==
  ASSUME ListInv, NEW w \in Watchers, OwnStep(w), InOrder(watcher[w]), Orderly(watcher[w])
  PROVE  Orderly(watcher'[w])
<1> DEFINE r == watcher[w]
           q == watcher'[w]
<1>1. /\ TypeOK /\ watcher \in [Watchers -> CacheWatchers] /\ r \in CacheWatchers
      /\ q \in CacheWatchers /\ ~Failed(r) /\ InOrder(r) /\ r.view \in VersionMaps
      /\ r.initialResources \in VersionMaps /\ Orderly(r)
  BY OwnStepType DEF ListInv, TypeOK, NoErrorReported, CacheWatchers
<1>2. CASE Watch(w)
  <2>1. /\ q.outgoing = None /\ q.cacheIncoming = <<>>
        /\ q.initialResources = EmptyMap \/ q.view = EmptyMap
    BY <1>1, <1>2 DEF Watch, NewCacheWatcher, NoWatcher
  <2>2. DOMAIN EmptyMap = {}
    BY EmptyIsMap
  <2>3. AllFit(q)
    BY <1>1, <2>1, AllFitWhenIdle, NothingFits
  <2> QED
    BY <2>1, <2>2, <2>3 DEF Orderly
<1>3. CASE EmitInitial(w) /\ ~r.userStop
  <2>1. PICK n \in DOMAIN r.initialResources :
          q = [r EXCEPT !.initialResources = Without(@, n),
                        !.outgoing = Event("ADDED", n, r.initialResources[n])]
    BY <1>1, <1>3 DEF EmitInitial
  <2> DEFINE e == Event("ADDED", n, r.initialResources[n])
  <2>2. /\ e \in Events /\ e.name = n /\ VersionAfter(e) = VersionIn(r.initialResources, n)
        /\ FitsVersion(0, e)
    BY <1>1, VersionRange DEF Event, Events, VersionAfter, FitsVersion
  <2>3. r.outgoing = None /\ DOMAIN r.view \cap DOMAIN r.initialResources = {} /\ AllFit(r)
    BY <1>1, <1>3 DEF EmitInitial, AtSelect, Orderly
  <2>4. /\ q.outgoing = e /\ q.initialResources = Without(r.initialResources, n)
        /\ q.cacheIncoming = r.cacheIncoming /\ q.view = r.view
    BY <1>1, <2>1 DEF CacheWatchers
  <2>5. DOMAIN q.initialResources = DOMAIN r.initialResources \ {n}
        /\ \A k : k # n => VersionIn(q.initialResources, k) = VersionIn(r.initialResources, k)
    BY <1>1, <2>4, WithoutVersion DEF Without, Restrict
  <2>6. FirstVersion(q, n) = 0 /\ FirstVersion(r, n) = VersionAfter(e)
    BY <2>1, <2>2, <2>3, <2>4, <2>5 DEF FirstVersion, VersionIn
  <2>7. \A k : k # n => FirstVersion(q, k) = FirstVersion(r, k)
    BY <2>4, <2>5 DEF FirstVersion
  <2> HIDE DEF e
  <2>8. \A k \in Names : Fitting(r.cacheIncoming, k, FirstVersion(r, k))
    BY <1>1, <2>3, AllFitWhenIdle
  <2>9. AllFit(q)
    BY <1>1, <2>2, <2>4, <2>6, <2>7, <2>8, AllFitWhenSending
  <2> QED
    BY <2>3, <2>4, <2>5, <2>9 DEF Orderly
<1>4. CASE EmitIncoming(w) /\ ~r.userStop
  <2>1. /\ r.cacheIncoming \in Seq(Events) /\ r.cacheIncoming # <<>> /\ r.outgoing = None
    BY <1>1, <1>4 DEF CacheWatchers, EmitIncoming, AtSelect
  <2>2. /\ q.outgoing = Head(r.cacheIncoming) /\ q.cacheIncoming = Tail(r.cacheIncoming)
        /\ q.initialResources = r.initialResources /\ q.view = r.view
    BY <1>1, <1>4 DEF EmitIncoming, CacheWatchers
  <2>3. /\ q.outgoing \in Events /\ r.cacheIncoming = <<q.outgoing>> \o q.cacheIncoming
        /\ q.cacheIncoming \in Seq(Events) /\ q.outgoing # None
    BY <2>1, <2>2, HeadTailProperties, WatchServerAssumption
  <2>4. AllFit(r) => AllFit(q)
    BY <1>1, <2>1, <2>2, <2>3, AllFitWhenIdle DEF AllFit, FirstVersion
  <2> QED
    BY <1>1, <1>4, <2>2, <2>4 DEF Orderly
<1>5. CASE Receive(w) /\ ~r.userStop
  <2> DEFINE e == r.outgoing
  <2>1. /\ q.outgoing = None /\ q.cacheIncoming = r.cacheIncoming
        /\ q.initialResources = r.initialResources /\ q.view = Applied(r.view, e)
    BY <1>1, <1>5 DEF Receive, CacheWatchers
  <2>2. /\ e \in Events /\ e.name \notin DOMAIN r.initialResources
        /\ DOMAIN r.view \cap DOMAIN r.initialResources = {} /\ AllFit(r)
    BY <1>1, <1>5 DEF Receive, InOrder, Orderly
  <2>3. /\ DOMAIN q.view \subseteq DOMAIN r.view \cup {e.name}
        /\ \A k : VersionIn(q.view, k) =
                    IF e.name = k THEN VersionAfter(e) ELSE VersionIn(r.view, k)
    <3>1. \A k : VersionIn(q.view, k) =
                    IF e.name = k THEN VersionAfter(e) ELSE VersionIn(r.view, k)
      BY <1>1, <2>1, <2>2, AppliedVersion DEF VersionAfter
    <3>2. DOMAIN q.view \subseteq DOMAIN r.view \cup {e.name}
      BY <2>1 DEF Applied, Assign, Without, Restrict
    <3> QED
      BY <3>1, <3>2
  <2> HIDE DEF e
  <2>4. \A k \in Names : FirstVersion(q, k) =
          IF e.name = k THEN VersionAfter(e) ELSE FirstVersion(r, k)
    BY <2>1, <2>2, <2>3 DEF FirstVersion
  <2>5. \A k \in Names :
          Fitting(r.cacheIncoming, k, IF e.name = k THEN VersionAfter(e) ELSE FirstVersion(r, k))
    BY <1>1, <2>2, AllFitWhenSending DEF e
  <2>6. AllFit(q)
    BY <1>1, <2>1, <2>4, <2>5, AllFitWhenIdle
  <2> QED
    BY <2>1, <2>2, <2>3, <2>6 DEF Orderly
<1>6. CASE ~Watch(w) /\ (r.userStop \/ Leave(w) \/ Drop(w) \/ Stop(w))
  <2>1. r.userStop \/ Stop(w)
    <3>1. CASE Leave(w)
      <4>1. PICK reason \in ExitReasons(w) : TRUE
        BY <3>1 DEF Leave
      <4> QED
        BY <1>1, <4>1 DEF ExitReasons, Failed
    <3> QED
      BY <1>6, <3>1 DEF Drop
  <2>2. q.userStop
    <3>1. CASE r.userStop /\ EmitInitial(w)
      BY <1>1, <3>1 DEF EmitInitial, CacheWatchers
    <3>2. CASE r.userStop /\ EmitIncoming(w)
      BY <1>1, <3>2 DEF EmitIncoming, CacheWatchers
    <3>3. CASE r.userStop /\ (Leave(w) \/ Drop(w) \/ Receive(w))
      BY <1>1, <3>3 DEF Leave, Drop, Receive, CacheWatchers
    <3>4. CASE Stop(w)
      BY <1>1, <3>4 DEF Stop, CacheWatchers
    <3> QED
      BY <1>6, <2>1, <3>1, <3>2, <3>3, <3>4 DEF OwnStep, Goroutine, Client
  <2> QED
    BY <2>2 DEF Orderly
<1> QED
  BY <1>2, <1>3, <1>4, <1>5, <1>6 DEF OwnStep, Goroutine, Client

\* A turn of notifyWatchers queues an event that fits what those before it lead to.
LEMMA TellNextFits ==
  ASSUME ListInv, KnownIsOld, TellNext, NEW w, w = Head(turn),
         InOrder(watcher[w]), Settled(watcher[w]), Orderly(watcher[w])
  PROVE  Orderly(watcher'[w])
<1> DEFINE r == watcher[w]
           q == watcher'[w]
           n == note.name
<1>1. /\ TypeOK /\ w \in Watchers /\ r \in CacheWatchers /\ q \in CacheWatchers
      /\ watcher \in [Watchers -> CacheWatchers]
      /\ r.knownResources \in VersionMaps /\ r.cacheIncoming \in Seq(Events)
      /\ r.outgoing \in Events \cup {None} /\ None \notin Events
      /\ n \in Names /\ clusters \in VersionMaps
  <2>1. TypeOK /\ NoErrorReported
    BY DEF ListInv
  <2>2. w \in Watchers /\ q \in CacheWatchers
    BY <2>1, TellNextType
  <2>3. note # None
    BY <2>1 DEF TypeOK, LockOK, TellNext
  <2> QED
    BY <2>1, <2>2, <2>3, WatchServerAssumption
    DEF TypeOK, FeedTypeOK, NoErrorReported, Failed, CacheWatchers
<1>2. /\ VersionIn(r.knownResources, n) \in 0..MaxVersion
      /\ Knows(w, n) => VersionIn(r.knownResources, n) # 0
                          /\ r.knownResources[n] = VersionIn(r.knownResources, n)
      /\ ~Knows(w, n) => VersionIn(r.knownResources, n) = 0
  BY <1>1, VersionRange, CacheWatcherAssumption DEF Knows, VersionIn
<1> HIDE DEF n
<1>3. ASSUME NEW newKnown, NEW e \in Events, Send(w, newKnown, e), e.name = n,
             FitsVersion(VersionIn(r.knownResources, n), e)
      PROVE  Orderly(q)
  <2>1. CASE Len(r.cacheIncoming) < Capacity /\ ~r.userStop
    <3>1. /\ q.cacheIncoming = Append(r.cacheIncoming, e) /\ q.outgoing = r.outgoing
          /\ q.initialResources = r.initialResources /\ q.view = r.view
      BY <1>1, <1>3, <2>1 DEF Send, CacheWatchers
    <3>2. /\ DOMAIN r.view \cap DOMAIN r.initialResources = {} /\ AllFit(r) /\ Agrees(r)
          /\ \A k : FirstVersion(q, k) = FirstVersion(r, k)
      BY <2>1, <3>1 DEF Orderly, Settled, FirstVersion
    <3>3. ASSUME r.outgoing = None
          PROVE  AllFit(q)
      <4>1. ASSUME NEW k \in Names
            PROVE  Fitting(q.cacheIncoming, k, FirstVersion(q, k))
        <5>1. /\ Fitting(r.cacheIncoming, k, FirstVersion(r, k))
              /\ Leads(r.cacheIncoming, k, FirstVersion(r, k), VersionIn(r.knownResources, k))
          BY <1>1, <3>2, <3>3, AllFitWhenIdle, AgreesWhenIdle DEF FirstVersion
        <5> QED
          BY <1>1, <1>2, <1>3, <3>1, <3>2, <5>1, FittingLast
      <4> QED
        BY <1>1, <3>1, <3>3, <4>1, AllFitWhenIdle
    <3>4. ASSUME r.outgoing \in Events
          PROVE  AllFit(q)
      <4>1. ASSUME NEW k \in Names
            PROVE  /\ q.outgoing.name = k => FitsVersion(FirstVersion(q, k), q.outgoing)
                   /\ Fitting(q.cacheIncoming, k,
                        IF q.outgoing.name = k THEN VersionAfter(q.outgoing) ELSE FirstVersion(q, k))
        <5> DEFINE from == IF r.outgoing.name = k THEN VersionAfter(r.outgoing)
                           ELSE FirstVersion(r, k)
        <5>1. /\ r.outgoing.name = k => FitsVersion(FirstVersion(r, k), r.outgoing)
              /\ Fitting(r.cacheIncoming, k, from)
              /\ Leads(r.cacheIncoming, k, from, VersionIn(r.knownResources, k))
          BY <1>1, <3>2, <3>4, AllFitWhenSending, AgreesWhenSending DEF FirstVersion
        <5> HIDE DEF from
        <5>2. Fitting(Append(r.cacheIncoming, e), k, from)
          BY <1>1, <1>2, <1>3, <5>1, FittingLast
        <5> QED
          BY <3>1, <3>2, <5>1, <5>2 DEF from
      <4> QED
        BY <1>1, <3>1, <3>4, <4>1, AllFitWhenSending
    <3>5. AllFit(q)
      BY <1>1, <3>3, <3>4
    <3> QED
      BY <3>1, <3>2, <3>5 DEF Orderly
  <2>2. CASE r.userStop
    BY <1>1, <1>3, <2>2 DEF Send, Orderly, CacheWatchers
  <2>3. CASE ~(Len(r.cacheIncoming) < Capacity) /\ ~r.userStop
    <3>1. /\ q.cacheIncoming = r.cacheIncoming /\ q.outgoing = r.outgoing
          /\ q.initialResources = r.initialResources /\ q.view = r.view
      BY <1>1, <1>3, <2>3 DEF Send, CacheWatchers
    <3> QED
      BY <2>3, <3>1 DEF Orderly, AllFit, FirstVersion
  <2> QED
    BY <2>1, <2>2, <2>3
<1>4. CASE LoseAccess(w)
  <2> DEFINE e == Event("DELETED", n, VersionOf(n))
  <2>1. /\ e \in Events /\ e.name = n
        /\ \A v : v # 0 => FitsVersion(v, e)
    BY <1>1, VersionRange DEF Event, Events, VersionOf, FitsVersion
  <2>2. Send(w, Without(r.knownResources, n), e) /\ Knows(w, n)
    BY <1>4 DEF LoseAccess, n
  <2> HIDE DEF e
  <2> QED
    BY <1>2, <1>3, <2>1, <2>2
<1>5. CASE HaveAccess(w)
  <2> DEFINE e == Event(IF Knows(w, n) THEN "MODIFIED" ELSE "ADDED", n, clusters[n])
  <2>1. clusters[n] \in 1..MaxVersion /\ n \in DOMAIN clusters
    BY <1>1, <1>5, VersionRange DEF HaveAccess, IsNews, n
  <2>2. /\ e \in Events /\ e.name = n /\ e.version = clusters[n]
        /\ e.type = IF Knows(w, n) THEN "MODIFIED" ELSE "ADDED"
    BY <1>1, <2>1 DEF Event, Events
  <2>3. Send(w, Assign(r.knownResources, n, clusters[n]), e)
    BY <1>5 DEF HaveAccess, n
  <2>4. Knows(w, n) => VersionIn(r.knownResources, n) < clusters[n]
    <3>1. Knows(w, n) => r.knownResources[n] <= clusters[n] /\ r.knownResources[n] # clusters[n]
      BY <1>1, <1>5, <2>1 DEF HaveAccess, IsNews, n, KnownIsOld, Knows
    <3> QED
      BY <1>2, <2>1, <3>1, CacheWatcherAssumption
  <2> HIDE DEF e
  <2>5. FitsVersion(VersionIn(r.knownResources, n), e)
    BY <1>2, <2>2, <2>4 DEF FitsVersion
  <2> QED
    BY <1>3, <2>2, <2>3, <2>5
<1>6. CASE NothingToTell(w)
  BY <1>6 DEF NothingToTell
<1> QED
  BY <1>4, <1>5, <1>6 DEF TellNext, GroupMembershipChanged

\* Every client gets only what fits it, up to the event that its queue had no room
\* for, if there is one: the watcher is told of nothing after it.
FitInv == \A w \in Watchers : Orderly(watcher[w])

\* FitInv holds after any step.
LEMMA NextFitInv ==
  ASSUME ListInv, KnownIsOld, ClientInv, FitInv, [Next]_vars
  PROVE  FitInv'
<1>1. TypeOK /\ watcher \in [Watchers -> CacheWatchers]
  BY DEF ListInv, TypeOK
<1>2. CASE Synchronizer \/ \E n \in Names : PutCluster(n) \/ RemoveCluster(n)
  BY <1>2 DEF Synchronizer, PutCluster, RemoveCluster, notifier, FitInv
<1>3. CASE \E w \in Watchers : OwnStep(w)
  <2>1. PICK w \in Watchers : OwnStep(w)
    BY <1>3
  <2>2. UNCHANGED removing /\ \A v \in Watchers \ {w} : watcher'[v] = watcher[v]
    BY <1>1, <2>1, OwnStepType, RecordTypes DEF notifier
  <2>3. Orderly(watcher[w]) => Orderly(watcher'[w])
    BY <2>1, OwnStepFits DEF ClientInv
  <2> QED
    BY <2>2, <2>3 DEF FitInv
<1>4. CASE \E w \in Watchers : AddWatcher(w) \/ Removal(w)
  <2>1. PICK w \in Watchers : AddWatcher(w) \/ Removal(w)
    BY <1>4
  <2>2. UNCHANGED removing /\ \E pc : watcher' = [watcher EXCEPT ![w].pc = pc]
    BY <1>1, <2>1, OnlyGoroutinesRemove DEF AddWatcher, Removal, RemoveWatcher
  <2>3. ASSUME NEW v \in Watchers
        PROVE  Orderly(watcher[v]) => Orderly(watcher'[v])
    <3>1. /\ watcher'[v].outgoing = watcher[v].outgoing
          /\ watcher'[v].cacheIncoming = watcher[v].cacheIncoming
          /\ watcher'[v].initialResources = watcher[v].initialResources
          /\ watcher'[v].view = watcher[v].view
          /\ watcher'[v].userStop = watcher[v].userStop
      BY <1>1, <2>2 DEF CacheWatchers
    <3> QED
      BY <3>1 DEF Orderly, AllFit, FirstVersion
  <2> QED
    BY <2>2, <2>3 DEF FitInv
<1>5. CASE TellNext
  <2> DEFINE w == Head(turn)
  <2>1. /\ w \in Watchers /\ watcher' = [watcher EXCEPT ![w] = watcher'[w]]
        /\ watcher'[w] \in CacheWatchers /\ WatcherOK(watcher'[w]) /\ removing = None
    BY <1>1, <1>5, TellNextType DEF TellNext
  <2>2. \A v \in Watchers \ {w} : watcher'[v] = watcher[v]
    BY <1>1, <2>1, RecordTypes
  <2>3. None \notin Watchers
    BY WatchServerAssumption
  <2>4. InOrder(watcher[w]) /\ Settled(watcher[w]) /\ Orderly(watcher[w])
    BY <2>1, <2>3 DEF ClientInv, FitInv
  <2>5. Orderly(watcher'[w])
    BY <1>5, <2>4, TellNextFits
  <2> HIDE DEF w
  <2> QED
    BY <2>1, <2>2, <2>5 DEF FitInv
<1>6. CASE LockForNotify \/ UnlockAfterNotify
  BY <1>6 DEF LockForNotify, UnlockAfterNotify, FitInv
<1>7. CASE UNCHANGED vars
  BY <1>7 DEF vars, notifier, FitInv
<1> QED
  BY <1>2, <1>3, <1>4, <1>5, <1>6, <1>7
  DEF Next, WatchersNext, Notifier, OwnStep

\* At first there is nothing to know and nothing on its way.
LEMMA InitFits ==
  ASSUME Init
  PROVE  KnownIsOld /\ FitInv
<1>1. NoWatcher \in CacheWatchers
  <2>1. EmptyMap \in VersionMaps /\ <<>> \in Seq(Events)
    BY NoVersions, EmptySeq
  <2> QED
    BY <2>1 DEF NoWatcher, CacheWatchers
<1>2. DOMAIN EmptyMap = {}
  BY EmptyIsMap
<1>3. /\ clusters = EmptyMap /\ \A w \in Watchers : watcher[w] = NoWatcher
      /\ NoWatcher.outgoing = None /\ NoWatcher.cacheIncoming = <<>>
      /\ NoWatcher.view = EmptyMap /\ NoWatcher.knownResources = EmptyMap
  BY DEF Init, WatchersInit, NoWatcher
<1> HIDE DEF NoWatcher
<1>4. AllFit(NoWatcher)
  BY <1>1, <1>3, AllFitWhenIdle, NothingFits
<1> QED
  BY <1>2, <1>3, <1>4 DEF KnownIsOld, FitInv, Orderly

\* The event that a client is to receive fits what it has.
LEMMA OutgoingFits ==
  ASSUME TypeOK, ClientInv, FitInv, NEW w \in Watchers,
         watcher[w].outgoing # None, ~watcher[w].userStop
  PROVE  Fits(watcher[w].view, watcher[w].outgoing)
<1> DEFINE r == watcher[w]
           e == r.outgoing
<1>1. /\ r \in CacheWatchers /\ e \in Events /\ e.name \notin DOMAIN r.initialResources
      /\ AllFit(r) /\ r.view \in VersionMaps
  BY DEF TypeOK, ClientInv, InOrder, FitInv, Orderly, CacheWatchers
<1>2. e.name \in Names /\ e.type \in {"ADDED", "MODIFIED", "DELETED"}
  BY <1>1 DEF Events
<1>3. FitsVersion(VersionIn(r.view, e.name), e)
  BY <1>1, <1>2, AllFitWhenSending DEF FirstVersion
<1>4. /\ VersionIn(r.view, e.name) = 0 => e.name \notin DOMAIN r.view
      /\ VersionIn(r.view, e.name) # 0 =>
           e.name \in DOMAIN r.view /\ r.view[e.name] = VersionIn(r.view, e.name)
  BY <1>1, VersionRange DEF VersionIn
<1> HIDE DEF r, e
<1>5. Fits(r.view, e)
  BY <1>2, <1>3, <1>4 DEF Fits, FitsVersion
<1> QED
  BY <1>5 DEF r, e

\* No client is told of an addition of what it has, of a change or deletion of what
\* it has not, or of a version that is not newer than its own, however reviews,
\* writes to the store and its own pace interleave (watcher.go:119-159, 186-217).
THEOREM EventsFit == Spec => ReceivedEventsFit
<1>1. Init => ListInv /\ ClientInv /\ KnownIsOld /\ FitInv
  BY InitListInv, InitClientInv, InitFits
<1>2. ListInv /\ ClientInv /\ KnownIsOld /\ FitInv /\ [Next]_vars =>
        ListInv' /\ ClientInv' /\ KnownIsOld' /\ FitInv'
  BY NextListInv, NextClientInv, NextKnownIsOld, NextFitInv
<1>3. ListInv /\ ClientInv /\ FitInv =>
        [\A w \in Watchers :
           watcher[w].outgoing # None /\ watcher[w].view # watcher'[w].view
             /\ ~watcher[w].userStop
           => Fits(watcher[w].view, watcher[w].outgoing)]_vars
  BY OutgoingFits DEF ListInv
<1> QED
  BY <1>1, <1>2, <1>3, PTL DEF Spec, ReceivedEventsFit
=============================================================================
