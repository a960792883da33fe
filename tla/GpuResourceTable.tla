-------------------------- MODULE GpuResourceTable --------------------------
(***************************************************************************)
(* Handles and the tables behind them.  RenderGraph gives out handles:     *)
(* memory_resources_ and gpu_objects_ grow by one entry (a generation) for *)
(* each, and the handle's index is the size reached.  A RenderDevice keeps,*)
(* for each of the two kinds, a vector of (pointer, generation) slots      *)
(* indexed by the handle's index; a lookup succeeds only when the slot's   *)
(* generation is the handle's.                                             *)
(*                                                                         *)
(* The two backends share this code but for two things, and the constant   *)
(* Backend says which is modelled: only WebGPU turns the default handle    *)
(* away before it indexes the vector, and only WebGPU's destroy does       *)
(* anything.                                                               *)
(*                                                                         *)
(* The C++ heap is the variable heap: new takes any free address, so an    *)
(* address freed by destroy may be handed out again.                       *)
(*                                                                         *)
(* The definitions that stand just before another one and share its name   *)
(* with a suffix (SuccNoWrap, CreateAlways, ...) are slips a change to the *)
(* code could make.  Nothing uses them: each is put in the place of its    *)
(* neighbour to show that some property notices.                           *)
(***************************************************************************)
EXTENDS Naturals, Sequences

CONSTANTS
  Backend,     \* the device modelled: "WebGPU" or "Vulkan"
  UHalfMax,    \* largest value of a generation or of an index (uhalf::max)
  MaxHandles,  \* bound: handles the program asks for, of each table
  Names,       \* names the program registers handles under
  Addr,        \* heap addresses
  Null         \* nullptr

ASSUME BackendAssumption == Backend \in {"WebGPU", "Vulkan"}

ASSUME HalfWordAssumption ==
  /\ UHalfMax \in Nat
  /\ MaxHandles \in Nat
  /\ MaxHandles < UHalfMax

VARIABLES
  generations,    \* memory_resources_ and gpu_objects_: the entries pushed
  named_handles,  \* named_handles_
  size,           \* created_resources.size() and created_objects.size()
  created,        \* their slots
  heap,           \* the handle_ of the object at an address, Null if free
  destroyed       \* history: destroyed, and not created again since

vars == <<generations, named_handles, size, created, heap, destroyed>>

Tables == {"memory_resources", "gpu_objects"}
Half   == 0 .. UHalfMax
Handle == [table : Tables, gen : Half, idx : Half]
Slot   == [first : Addr \cup {Null}, second : Half]

ASSUME NullAssumption == Null \notin Addr /\ Null \notin Handle

(* GenerationalId::UNINITIALIZED, every bit of the word set: the value of a *)
(* handle nobody gave a value to.                                           *)
UNINITIALIZED(t) == [table |-> t, gen |-> UHalfMax, idx |-> UHalfMax]

SuccNoWrap(x) == x + 1
(* ++ on a generation and index() + 1 wrap at the width of uhalf_t. *)
Succ(x) == IF x = UHalfMax THEN 0 ELSE x + 1

EmptySlot == [first |-> Null, second |-> 0]

(* The handles given out: one for each entry pushed, 1-based. *)
Issued(t) ==
  {[table |-> t, gen |-> generations[t][i], idx |-> i] :
     i \in 1 .. Len(generations[t])}

AllIssued == UNION {Issued(t) : t \in Tables}

(* RenderGraph::query: the default handle for a name never registered. *)
Query(n) == named_handles[n]

TypeOK ==
  /\ generations \in [Tables -> Seq(Half)]
  /\ \A t \in Tables : Len(generations[t]) <= MaxHandles
  /\ named_handles \in [Names -> Handle]
  /\ size \in [Tables -> Nat]
  /\ created \in [Tables -> [Half -> Slot]]
  /\ heap \in [Addr -> Handle \cup {Null}]
  /\ destroyed \subseteq Handle

Init ==
  /\ generations = [t \in Tables |-> <<>>]
  /\ named_handles = [n \in Names |-> UNINITIALIZED("memory_resources")]
  /\ size = [t \in Tables |-> 0]
  /\ created = [t \in Tables |-> [i \in Half |-> EmptySlot]]
  /\ heap = [a \in Addr |-> Null]
  /\ destroyed = {}
-----------------------------------------------------------------------------
(* RenderGraph: giving out handles                                         *)

(* emplace_back(gen), then a handle whose index is the size reached. *)
Push(t, g) ==
  /\ Len(generations[t]) < MaxHandles
  /\ generations' = [generations EXCEPT ![t] = Append(@, g)]

NewHandle(t, g) == [table |-> t, gen |-> g, idx |-> Len(generations[t]) + 1]

(* element(): generation 0.  elementUnsafe(): generation uhalf::max. *)
MakeResource(g) ==
  /\ Push("memory_resources", g)
  /\ UNCHANGED <<named_handles, size, created, heap, destroyed>>

(* The named forms also insert_or_assign the handle under the name. *)
MakeNamedResource(g, n) ==
  /\ Push("memory_resources", g)
  /\ named_handles' =
       [named_handles EXCEPT ![n] = NewHandle("memory_resources", g)]
  /\ UNCHANGED <<size, created, heap, destroyed>>

(* Objects have generation 0; the named form forgets the name. *)
MakeObject ==
  /\ Push("gpu_objects", 0)
  /\ UNCHANGED <<named_handles, size, created, heap, destroyed>>
-----------------------------------------------------------------------------
(* RenderDevice: lookups                                                   *)

(* The comparison with UNINITIALIZED, which Vulkan's lookups do not make. *)
RefusedNever(h) == FALSE
Refused(h) == Backend = "WebGPU" /\ h = UNINITIALIZED(h.table)

(* created.size() < index() + 1 *)
PastEnd(h) == size[h.table] < Succ(h.idx)

ReadsSlot(h) == ~Refused(h) /\ ~PastEnd(h)

(* There is a slot to read: operator[] makes no such test. *)
InBounds(h) == h.idx < size[h.table]

(* The resource in the handle's slot, when the slot has its generation. *)
Named(h) ==
  LET slot == created[h.table][h.idx] IN
  IF ReadsSlot(h) /\ InBounds(h) /\ h.gen = slot.second THEN slot.first ELSE Null

(* optional_unsafe, for either table: the answers it may give.  A read past *)
(* the end of the vector is undefined: it may answer any address, or none.  *)
Optional(h) ==
  IF ReadsSlot(h) /\ ~InBounds(h) THEN Addr \cup {Null} ELSE {Named(h)}

(* What create and destroy find: they are called with handles given out,    *)
(* which are never read past the end.                                       *)
Valid(h) == Named(h) # Null
-----------------------------------------------------------------------------
(* RenderDevice: create and destroy                                        *)

(* resize(index + 1) when the vector is too short: new slots are empty. *)
ResizedAfresh(h) ==
  IF PastEnd(h) THEN [i \in Half |-> EmptySlot] ELSE created[h.table]
Resized(h) ==
  IF PastEnd(h)
  THEN [i \in Half |-> IF i < size[h.table] THEN created[h.table][i] ELSE EmptySlot]
  ELSE created[h.table]

ResizedSize(h) == IF PastEnd(h) THEN Succ(h.idx) ELSE size[h.table]

CreateAlways(h, a) ==
  /\ heap[a] = Null
  /\ heap' = [heap EXCEPT ![a] = h]
  /\ size' = [size EXCEPT ![h.table] = ResizedSize(h)]
  /\ created' =
       [created EXCEPT
          ![h.table] = [Resized(h) EXCEPT
                          ![h.idx] = [first |-> a, second |-> h.gen]]]
  /\ destroyed' = destroyed \ {h}
  /\ UNCHANGED <<generations, named_handles>>

(* _create_resouce_impl and _create_object_impl.  When the handle already   *)
(* names something they log and change nothing: no step.                    *)
Create(h, a) ==
  /\ ~Valid(h)
  /\ heap[a] = Null
  /\ heap' = [heap EXCEPT ![a] = h]
  /\ size' = [size EXCEPT ![h.table] = ResizedSize(h)]
  /\ created' =
       [created EXCEPT
          ![h.table] = [Resized(h) EXCEPT
                          ![h.idx] = [first |-> a, second |-> h.gen]]]
  /\ destroyed' = destroyed \ {h}
  /\ UNCHANGED <<generations, named_handles>>

(* WebGPU's destroy: delete the object, null the slot, next generation. *)
FreeSlotDangling(h) ==
  /\ heap' = [heap EXCEPT ![Named(h)] = Null]
  /\ UNCHANGED created
FreeSlot(h) ==
  /\ heap' = [heap EXCEPT ![Named(h)] = Null]
  /\ created' =
       [created EXCEPT
          ![h.table][h.idx] = [first |-> Null, second |-> Succ(@.second)]]

(* destroy takes memory resources only and returns at once when the handle  *)
(* names nothing, UNINITIALIZED included.  Vulkan's always does.            *)
Destroy(h) ==
  /\ Valid(h)
  /\ IF Backend = "WebGPU" THEN FreeSlot(h) ELSE UNCHANGED <<heap, created>>
  /\ destroyed' = destroyed \cup {h}
  /\ UNCHANGED <<generations, named_handles, size>>
-----------------------------------------------------------------------------
Next ==
  \/ \E g \in {0, UHalfMax} : MakeResource(g)
  \/ \E g \in {0, UHalfMax}, n \in Names : MakeNamedResource(g, n)
  \/ MakeObject
  \/ \E h \in AllIssued, a \in Addr : Create(h, a)
  \/ \E h \in Issued("memory_resources") : Destroy(h)

Spec == Init /\ [][Next]_vars
-----------------------------------------------------------------------------
(* Properties                                                              *)

(* The handles the program can pass: those given out, what query answers,   *)
(* and the default value of a handle field that was never assigned.         *)
Held == AllIssued \cup {Query(n) : n \in Names} \cup {UNINITIALIZED(t) : t \in Tables}

(* A lookup never yields a dangling pointer or somebody else's resource:    *)
(* whatever optional_unsafe may return for a handle is nothing, or is alive *)
(* and was constructed with that very handle.                               *)
LookupSound ==
  \A h \in Held : \A a \in Optional(h) \ {Null} : heap[a] = h

(* A lookup never indexes past the end of the vector, whatever handle the   *)
(* program holds: the size test guards operator[] even where index() + 1    *)
(* wraps to zero.                                                           *)
LookupInBounds ==
  \A h \in Held : ReadsSlot(h) => InBounds(h)

(* Nothing the device allocated is ever out of reach: every live resource   *)
(* is what its own handle resolves to, so no create, resize or destroy of   *)
(* another handle loses it.                                                 *)
NoLeak ==
  \A a \in Addr : heap[a] # Null => heap[a] \in AllIssued /\ Named(heap[a]) = a

(* RenderDevice.h, destroy: the resource of the handle is destroyed and its *)
(* generation moves on, so the handle names nothing until create is called  *)
(* with it again.                                                           *)
DestroyedIsGone ==
  \A h \in destroyed : ~Valid(h)

(* The slots and generations implement the map of GpuResourceMap.           *)
Map == INSTANCE GpuResourceMap WITH
  Resource <- Addr, None <- Null,
  issued <- AllIssued, resourceOf <- [h \in Handle |-> Named(h)]

(* create, destroy and the giving out of handles do to the map from handles *)
(* to resources exactly what they promise: no other handle's answer moves.  *)
ImplementsMap == Map!MapSpec
=============================================================================
