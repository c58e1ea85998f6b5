----------------------------- MODULE CacheReaders -----------------------------
(***************************************************************************)
(* REST.List beside the synchronizer: a request reads the user's entry of  *)
(* the indexes, then the entry of each of its groups, then each resource   *)
(* from the lister, every read at its own moment and none under a lock.    *)
(*                                                                         *)
(* An entry is a Go map that the synchronizer may be writing to while it   *)
(* is iterated over.  The runtime may then end the process, after which    *)
(* there is nothing to say; otherwise the iteration gives the entry as it  *)
(* was before or after the write, which is of one name.                    *)
(***************************************************************************)
EXTENDS AuthCache

CONSTANTS
  Caller,      \* userInfo.GetName()
  CallerGroups \* userInfo.GetGroups()

ASSUME CacheReadersAssumption == Caller \in Users /\ CallerGroups \subseteq Groups

VARIABLES
  reader,     \* the request: what it has still to read, and what it has read
  \* history: grants that hold now and have held
  lasting,    \* since the current cycle of synchronize() began
  established \* for a whole cycle and since

history == <<lasting, established>>
readerVars == <<vars, reader, history>>

-----------------------------------------------------------------------------
(***************************************************************************)
(* What the cluster roles and bindings let the caller get.  A grant is a   *)
(* name, a binding and the subject of the binding that the caller is; or a *)
(* name alone, when it does not matter which binding and which subject.    *)
(***************************************************************************)
CallerIn(b) ==
  {[kind |-> "user", of |-> u] : u \in bindings[b].users \cap {Caller}}
    \cup {[kind |-> "group", of |-> g] : g \in bindings[b].groups \cap CallerGroups}

GrantsOf(b, n) ==
  IF Grants(b, n) THEN {[name |-> n, by |-> b, as |-> s] : s \in CallerIn(b)} ELSE {}

GrantsNow == UNION {GrantsOf(b, n) : b \in DOMAIN bindings, n \in DOMAIN clusters}

AnyGrant(grants) == {[name |-> g.name, by |-> None, as |-> None] : g \in grants}

Holding == GrantsNow \cup AnyGrant(GrantsNow)

\* The history after any step.
Remember ==
  /\ lasting' = IF phase = "idle" /\ phase' = "resources" THEN Holding' ELSE lasting \cap Holding'
  /\ established' = (IF phase' = "idle" THEN established \cup lasting ELSE established) \cap Holding'

-----------------------------------------------------------------------------
(***************************************************************************)
(* listNames, then List's loop over the names.                             *)
(***************************************************************************)
NoRequest == [pc |-> "idle", groups |-> {}, names |-> {}, items |-> EmptyMap, sure |-> {}]

\* The request arrives; grants established now are those it is to be judged by.
StartList ==
  /\ reader.pc = "idle"
  /\ reader' = [NoRequest EXCEPT !.pc = "user", !.groups = CallerGroups, !.sure = established]

\* ac.userSubjectRecordStore.GetByKey(user)
ReadUser ==
  /\ reader.pc = "user"
  /\ reader' = [reader EXCEPT !.pc = "groups",
                              !.names = @ \cup NamesOf(userSubjectRecordStore, Caller)]

\* Mutant of ReadGroup: the names of a group replace those read before.
ReadGroupReplacing(g) ==
  /\ reader.pc = "groups" /\ g \in reader.groups
  /\ reader' = [reader EXCEPT !.groups = @ \ {g},
                              !.names = NamesOf(groupSubjectRecordStore, g)]

\* One turn of the loop over the groups.
ReadGroup(g) ==
  /\ reader.pc = "groups" /\ g \in reader.groups
  /\ reader' = [reader EXCEPT !.groups = @ \ {g},
                              !.names = @ \cup NamesOf(groupSubjectRecordStore, g)]

\* One turn of List's loop: a name that the lister does not have is left out.
ReadItem(n) ==
  /\ reader.pc = "groups" /\ reader.groups = {} /\ n \in reader.names
  /\ reader' = [reader EXCEPT
       !.names = @ \ {n},
       !.items = IF n \in DOMAIN clusters THEN Assign(@, n, clusters[n]) ELSE @]

Finished == reader.pc = "groups" /\ reader.groups = {} /\ reader.names = {}

Return ==
  /\ Finished
  /\ reader' = NoRequest

Reader ==
  /\ \/ StartList
     \/ ReadUser
     \/ \E g \in CallerGroups : ReadGroup(g)
     \/ \E n \in Names : ReadItem(n)
     \/ Return
  /\ UNCHANGED <<vars, history>>

-----------------------------------------------------------------------------
ReadersInit == Init /\ reader = NoRequest /\ lasting = {} /\ established = {}

\* What else happens while the request is on its way.
Meanwhile ==
  /\ InformerEvent \/ Synchronize
  /\ Remember
  /\ reader' = [reader EXCEPT !.sure = @ \cap established']

ReadersNext == Meanwhile \/ Reader

ReadersSpec == ReadersInit /\ [][ReadersNext]_readerVars

-----------------------------------------------------------------------------
\* The names that the indexes have for a subject.
Indexed(s) ==
  IF s.kind = "user" THEN NamesOf(userSubjectRecordStore, s.of)
  ELSE NamesOf(groupSubjectRecordStore, s.of)

\* A grant that a binding has given for one whole cycle is in the indexes, and
\* stays there for as long as it lasts, whatever else is written and reviewed
\* meanwhile: no skipped review, purge or half-done replacement drops it
\* (common.go:213-246, 264-268, 439-461).
EstablishedGrantsListed ==
  \A g \in established : g.by # None => g.name \in Indexed(g.as)

\* A request returns every resource that one binding has let the caller get, as
\* one and the same subject, for a cycle before the request and until its end,
\* however its reads fall between the passes of the synchronizer
\* (common.go:324-347, managedcluster.go:67-86).
ListHasEstablishedGrants ==
  Finished => \A g \in reader.sure : g.by # None => g.name \in DOMAIN reader.items

\* "List returns the list of ManagedClusterr items that the user can access"
\* (managedcluster.go:22): those it could access at every moment for a cycle
\* before the request and until its end, by whatever bindings and subjects.
ListHasWhatUserCanAccess ==
  Finished => \A g \in reader.sure : g.name \in DOMAIN reader.items
=============================================================================
