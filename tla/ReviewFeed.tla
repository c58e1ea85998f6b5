------------------------------ MODULE ReviewFeed ------------------------------
(***************************************************************************)
(* What an authorization cache promises its watchers, of whatever resource *)
(* type: it changes its mind about one name at a time, as a whole, and     *)
(* tells the watchers of each answer before it looks for the next; and a   *)
(* name that it has once learnt it does not drop without a word.           *)
(*                                                                         *)
(* What it does not promise shows as well: a name that has not been learnt *)
(* (one that came up between two Lists) may be forgotten in silence.       *)
(***************************************************************************)
EXTENDS PartialMaps

CONSTANTS
  Names,        \* names of resources
  Users,
  Groups,
  SuperUser,    \* a user that every answer includes
  MastersGroup, \* a group that every answer includes
  None

VARIABLES
  access, \* name -> [users, groups] that may get it
  known,  \* names whose loss will be announced
  note    \* what the watchers are being told: [name, users, groups], or None

feed == <<access, known, note>>

FeedTypeOK ==
  /\ IsMap(access, Names, [users : SUBSET Users, groups : SUBSET Groups])
  /\ known \subseteq Names
  /\ note \in [name : Names, users : SUBSET Users, groups : SUBSET Groups] \cup {None}

FeedInit == access = EmptyMap /\ known = {} /\ note = None

\* A review of n has been made and recorded; the watchers are about to hear of it.
Review(n, users, groups) ==
  /\ note = None
  /\ SuperUser \in users /\ MastersGroup \in groups
  /\ access' = Assign(access, n, [users |-> users, groups |-> groups])
  /\ note' = [name |-> n, users |-> users, groups |-> groups]
  /\ UNCHANGED known

\* The watchers have all been told.
Deliver ==
  /\ note # None
  /\ note' = None
  /\ UNCHANGED <<access, known>>

\* The last List did not have n.
Forget(n) ==
  /\ note = None /\ n \in DOMAIN access
  /\ access' = Without(access, n)
  /\ UNCHANGED <<known, note>>

\* n was known and is no more: nobody has access.
AnnounceGone(n) ==
  /\ note = None /\ n \in known \ DOMAIN access
  /\ known' = known \ {n}
  /\ note' = [name |-> n, users |-> {}, groups |-> {}]
  /\ UNCHANGED access

\* The names of the last List become known, once the lost ones are announced.
Learn ==
  /\ note = None /\ known \subseteq DOMAIN access
  /\ known' = DOMAIN access
  /\ UNCHANGED <<access, note>>

FeedNext ==
  \/ \E n \in Names, users \in SUBSET Users, groups \in SUBSET Groups : Review(n, users, groups)
  \/ Deliver
  \/ \E n \in Names : Forget(n) \/ AnnounceGone(n)
  \/ Learn

FeedSpec == FeedInit /\ [][FeedNext]_feed
=============================================================================
