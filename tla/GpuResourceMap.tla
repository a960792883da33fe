--------------------------- MODULE GpuResourceMap ---------------------------
(***************************************************************************)
(* What a render device promises the program that holds its handles: a     *)
(* partial map from handles to resources.  A handle names at most one      *)
(* resource at a time, no resource has two names, and the only ways to     *)
(* change what a handle names are to create under it and to destroy it.    *)
(* Nothing is said of slots, indices or generations: GpuResourceTable      *)
(* implements this map with them.                                          *)
(***************************************************************************)
CONSTANTS
  Handle,     \* every handle the program could hold
  Resource,   \* identities a resource can have while it lives
  None        \* what a handle names when it names nothing: no Resource

VARIABLES
  issued,     \* the handles given out so far
  resourceOf  \* what each handle names

mapVars == <<issued, resourceOf>>

MapInit ==
  /\ issued = {}
  /\ resourceOf = [h \in Handle |-> None]

(* A handle is given out once, and names nothing yet. *)
Issue(h) ==
  /\ h \notin issued
  /\ resourceOf[h] = None
  /\ issued' = issued \cup {h}
  /\ UNCHANGED resourceOf

(* Creating under a handle that names nothing binds it to a new resource. *)
CreateUnder(h, r) ==
  /\ h \in issued
  /\ resourceOf[h] = None
  /\ \A g \in Handle : resourceOf[g] # r
  /\ resourceOf' = [resourceOf EXCEPT ![h] = r]
  /\ UNCHANGED issued

(* Destroying unbinds the handle and nothing else. *)
DestroyUnder(h) ==
  /\ resourceOf[h] # None
  /\ resourceOf' = [resourceOf EXCEPT ![h] = None]
  /\ UNCHANGED issued

MapNext ==
  \E h \in Handle :
    \/ Issue(h)
    \/ \E r \in Resource : CreateUnder(h, r)
    \/ DestroyUnder(h)

MapSpec == MapInit /\ [][MapNext]_mapVars
=============================================================================
