----------------------- MODULE GpuResourceTable_proofs -----------------------
(***************************************************************************)
(* Proofs about GpuResourceTable, for any number of handles, names and     *)
(* addresses and any width of the half word.                               *)
(***************************************************************************)
EXTENDS GpuResourceTable, TLAPS

(* The slot of a handle, read without the tests of the vector's size. *)
SlotOf(h) ==
  IF h.gen = created[h.table][h.idx].second
  THEN created[h.table][h.idx].first ELSE Null

(* A slot that points somewhere points to the resource of the one handle    *)
(* given out for its index and generation, and lies within the vector.      *)
SlotsOwned ==
  \A t \in Tables, i \in Half :
    created[t][i].first # Null =>
      /\ heap[created[t][i].first] =
           [table |-> t, gen |-> created[t][i].second, idx |-> i]
      /\ i \in 1 .. Len(generations[t])
      /\ generations[t][i] = created[t][i].second
      /\ i < size[t]

(* A live resource is in the slot its handle selects. *)
LiveReachable ==
  \A a \in Addr :
    heap[a] # Null => heap[a] \in AllIssued /\ SlotOf(heap[a]) = a

(* A name stands for a handle given out, or for the default handle. *)
NamesHeld ==
  \A n \in Names :
    \/ named_handles[n] = UNINITIALIZED("memory_resources")
    \/ named_handles[n] \in AllIssued

(* A handle that was destroyed was given out, and on the backend whose      *)
(* destroy does something its slot is empty or has another generation.      *)
DestroyedEmpty ==
  \A h \in destroyed :
    h \in AllIssued /\ (Backend = "WebGPU" => SlotOf(h) = Null)

IInv == TypeOK /\ SlotsOwned /\ LiveReachable /\ NamesHeld /\ DestroyedEmpty
-----------------------------------------------------------------------------
(* What a handle given out looks like, for any contents of the two vectors  *)
(* of generations.                                                          *)
LEMMA HandleShape ==
  ASSUME NEW gs \in [Tables -> Seq(Half)],
         \A t \in Tables : Len(gs[t]) <= MaxHandles,
         NEW h
  PROVE  h \in UNION {{[table |-> t, gen |-> gs[t][i], idx |-> i] :
                          i \in 1 .. Len(gs[t])} : t \in Tables}
         <=> /\ h \in Handle
             /\ h.idx \in 1 .. Len(gs[h.table])
             /\ h.gen = gs[h.table][h.idx]
<1> DEFINE Out(t) == {[table |-> t, gen |-> gs[t][i], idx |-> i] :
                        i \in 1 .. Len(gs[t])}
<1>1. ASSUME NEW t \in Tables, h \in Out(t)
      PROVE  /\ h \in Handle
             /\ h.idx \in 1 .. Len(gs[h.table])
             /\ h.gen = gs[h.table][h.idx]
  <2>1. PICK i \in 1 .. Len(gs[t]) :
          h = [table |-> t, gen |-> gs[t][i], idx |-> i]
    BY <1>1
  <2>2. gs[t] \in Seq(Half) /\ Len(gs[t]) <= MaxHandles
    OBVIOUS
  <2>3. gs[t][i] \in Half /\ i \in Half
    BY <2>2, HalfWordAssumption DEF Half
  <2> QED BY <2>1, <2>3 DEF Handle
<1>2. ASSUME h \in Handle, h.idx \in 1 .. Len(gs[h.table]),
             h.gen = gs[h.table][h.idx]
      PROVE  h.table \in Tables /\ h \in Out(h.table)
  <2>1. h = [table |-> h.table, gen |-> gs[h.table][h.idx], idx |-> h.idx]
    BY <1>2 DEF Handle
  <2> QED BY <1>2, <2>1 DEF Handle
<1> QED BY <1>1, <1>2

(* A handle was given out when its index is one, and its generation is the  *)
(* one its vector holds at that index.                                      *)
LEMMA IssuedShape ==
  ASSUME TypeOK, NEW h
  PROVE  h \in AllIssued <=>
           /\ h \in Handle
           /\ h.idx \in 1 .. Len(generations[h.table])
           /\ h.gen = generations[h.table][h.idx]
BY HandleShape DEF TypeOK, AllIssued, Issued

(* The same, of the state after a step.                                     *)
LEMMA IssuedShapeNext ==
  ASSUME TypeOK', NEW h
  PROVE  h \in AllIssued' <=>
           /\ h \in Handle
           /\ h.idx \in 1 .. Len(generations'[h.table])
           /\ h.gen = generations'[h.table][h.idx]
BY HandleShape DEF TypeOK, AllIssued, Issued

(* An index given out is far from the wrap of index() + 1. *)
LEMMA IssuedIndex ==
  ASSUME TypeOK, NEW t \in Tables, NEW i \in 1 .. Len(generations[t])
  PROVE  i \in Half /\ i # UHalfMax /\ Succ(i) = i + 1
BY HalfWordAssumption DEF TypeOK, Half, Succ

(* The tests of the vector's size never hide a resource: a lookup answers   *)
(* what the slot says.                                                      *)
LEMMA NamedIsSlot ==
  ASSUME IInv, NEW h \in Handle
  PROVE  Named(h) = SlotOf(h)
<1>1. CASE SlotOf(h) = Null
  BY <1>1 DEF Named, SlotOf
<1>2. CASE SlotOf(h) # Null
  <2> DEFINE slot == created[h.table][h.idx]
  <2>1. h.table \in Tables /\ h.idx \in Half
    BY DEF Handle
  <2>2. slot.first # Null /\ h.gen = slot.second
    BY <1>2 DEF SlotOf
  <2>3. h.idx \in 1 .. Len(generations[h.table]) /\ h.idx < size[h.table]
    BY <2>1, <2>2 DEF IInv, SlotsOwned
  <2>4. h.idx # UHalfMax /\ Succ(h.idx) = h.idx + 1
    BY <2>1, <2>3, IssuedIndex DEF IInv
  <2>5. size[h.table] \in Nat /\ h.idx \in Nat
    BY <2>1, <2>3 DEF IInv, TypeOK
  <2>6. ~PastEnd(h)
    BY <2>3, <2>4, <2>5 DEF PastEnd
  <2>7. ~Refused(h)
    BY <2>4 DEF Refused, UNINITIALIZED
  <2> QED BY <2>2, <2>3, <2>6, <2>7 DEF Named, SlotOf, ReadsSlot, InBounds
<1> QED BY <1>1, <1>2
-----------------------------------------------------------------------------
(* Type correctness.                                                        *)

(* The slot a handle selects has the type of a slot.                        *)
LEMMA SlotType ==
  ASSUME TypeOK, NEW h \in Handle
  PROVE  /\ h.table \in Tables /\ h.idx \in Half /\ h.gen \in Half
         /\ created[h.table] \in [Half -> Slot]
         /\ created[h.table][h.idx] \in Slot
         /\ size[h.table] \in Nat
BY DEF TypeOK, Handle

(* The default handle, the empty slot and the wrapped successor of a half   *)
(* word are in their ranges.                                                *)
LEMMA ConstantTypes ==
  /\ 0 \in Half /\ UHalfMax \in Half
  /\ EmptySlot \in Slot
  /\ \A t \in Tables : UNINITIALIZED(t) \in Handle
  /\ \A x \in Half : Succ(x) \in Half
BY HalfWordAssumption DEF Half, EmptySlot, Slot, UNINITIALIZED, Handle, Succ

(* make_handle adds one generation and stays within the bound.              *)
LEMMA PushType ==
  ASSUME TypeOK, NEW t \in Tables, NEW g \in Half, Push(t, g)
  PROVE  /\ generations' \in [Tables -> Seq(Half)]
         /\ \A u \in Tables : Len(generations'[u]) <= MaxHandles
         /\ NewHandle(t, g) \in Handle
<1>1. /\ generations[t] \in Seq(Half)
      /\ Len(generations[t]) \in Nat
      /\ Len(generations[t]) < MaxHandles
  BY DEF TypeOK, Push
<1>2. Append(generations[t], g) \in Seq(Half)
  BY <1>1
<1>3. Len(Append(generations[t], g)) = Len(generations[t]) + 1
  BY <1>1
<1>4. generations' \in [Tables -> Seq(Half)]
  BY <1>2 DEF TypeOK, Push
<1>5. \A u \in Tables : Len(generations'[u]) <= MaxHandles
  BY <1>1, <1>3, HalfWordAssumption DEF TypeOK, Push
<1>6. Len(generations[t]) + 1 \in Half
  BY <1>1, HalfWordAssumption DEF Half
<1> QED BY <1>4, <1>5, <1>6 DEF NewHandle, Handle

(* create_* keeps the types, the resize of the vector included.             *)
LEMMA CreateType ==
  ASSUME TypeOK, NEW h \in Handle, NEW a \in Addr, Create(h, a)
  PROVE  TypeOK'
<1>1. ResizedSize(h) \in Nat
  BY SlotType, ConstantTypes DEF ResizedSize, Half
<1>2. Resized(h) \in [Half -> Slot]
  BY SlotType, ConstantTypes DEF Resized
<1>3. [first |-> a, second |-> h.gen] \in Slot
  BY SlotType DEF Slot
<1>4. size' \in [Tables -> Nat]
  BY <1>1, SlotType DEF TypeOK, Create
<1>5. created' \in [Tables -> [Half -> Slot]]
  BY <1>2, <1>3, SlotType DEF TypeOK, Create
<1>6. heap' \in [Addr -> Handle \cup {Null}]
  BY DEF TypeOK, Create
<1> QED BY <1>4, <1>5, <1>6 DEF TypeOK, Create

(* destroy keeps the types, the wrap of the generation included.            *)
LEMMA DestroyType ==
  ASSUME TypeOK, NEW h \in Handle, Destroy(h)
  PROVE  TypeOK'
<1>1. CASE Backend = "WebGPU"
  <2>1. FreeSlot(h)
    BY <1>1 DEF Destroy
  <2>2. [first |-> Null, second |-> Succ(created[h.table][h.idx].second)] \in Slot
    BY SlotType, ConstantTypes DEF Slot
  <2>3. created' \in [Tables -> [Half -> Slot]]
    BY <2>1, <2>2, SlotType DEF TypeOK, FreeSlot
  <2>4. heap' \in [Addr -> Handle \cup {Null}]
    BY <2>1 DEF TypeOK, FreeSlot
  <2> QED BY <2>3, <2>4 DEF TypeOK, Destroy
<1>2. CASE Backend # "WebGPU"
  BY <1>2 DEF TypeOK, Destroy
<1> QED BY <1>1, <1>2

(* Every variable has its type in the initial states.                       *)
LEMMA TypeInit == Init => TypeOK
<1> SUFFICES ASSUME Init PROVE TypeOK
  OBVIOUS
<1>1. generations \in [Tables -> Seq(Half)]
  BY DEF Init
<1>2. \A t \in Tables : Len(generations[t]) <= MaxHandles
  BY HalfWordAssumption DEF Init
<1> QED BY <1>1, <1>2, ConstantTypes DEF Init, TypeOK, Tables

(* Every step keeps the types.                                              *)
LEMMA TypeStep == TypeOK /\ [Next]_vars => TypeOK'
<1> SUFFICES ASSUME TypeOK, [Next]_vars PROVE TypeOK'
  OBVIOUS
<1>1. ASSUME NEW g \in {0, UHalfMax}, MakeResource(g) PROVE TypeOK'
  <2>1. g \in Half /\ "memory_resources" \in Tables
    BY ConstantTypes DEF Tables
  <2> QED BY <1>1, <2>1, PushType DEF MakeResource, TypeOK
<1>2. ASSUME NEW g \in {0, UHalfMax}, NEW n \in Names, MakeNamedResource(g, n)
      PROVE  TypeOK'
  <2>1. g \in Half /\ "memory_resources" \in Tables
    BY ConstantTypes DEF Tables
  <2> QED BY <1>2, <2>1, PushType DEF MakeNamedResource, TypeOK
<1>3. CASE MakeObject
  <2>1. 0 \in Half /\ "gpu_objects" \in Tables
    BY ConstantTypes DEF Tables
  <2> QED BY <1>3, <2>1, PushType DEF MakeObject, TypeOK
<1>4. ASSUME NEW h \in AllIssued, NEW a \in Addr, Create(h, a) PROVE TypeOK'
  BY <1>4, IssuedShape, CreateType
<1>5. ASSUME NEW h \in Issued("memory_resources"), Destroy(h) PROVE TypeOK'
  <2>1. h \in AllIssued
    BY DEF AllIssued, Tables
  <2> QED BY <1>5, <2>1, IssuedShape, DestroyType
<1>6. CASE UNCHANGED vars
  BY <1>6 DEF vars, TypeOK
<1> QED BY <1>1, <1>2, <1>3, <1>4, <1>5, <1>6 DEF Next

(* Every variable keeps its type: no generation outgrows the half word, no  *)
(* slot index leaves it, whatever handles are made, created and destroyed.  *)
THEOREM TypeCorrect == Spec => []TypeOK
BY TypeInit, TypeStep, PTL DEF Spec
-----------------------------------------------------------------------------
(* The inductive invariant.                                                 *)

(* No two handles given out share a table and an index. *)
LEMMA IssuedDistinct ==
  ASSUME TypeOK, NEW g \in AllIssued, NEW h \in AllIssued,
         g.table = h.table, g.idx = h.idx
  PROVE  g = h
<1>1. g \in Handle /\ h \in Handle /\ g.gen = h.gen
  BY IssuedShape
<1> QED BY <1>1 DEF Handle

(* Giving out a handle adds it to those given out, and takes none away. *)
LEMMA PushIssues ==
  ASSUME TypeOK, NEW t \in Tables, NEW g \in Half, Push(t, g), TypeOK'
  PROVE  /\ AllIssued' = AllIssued \cup {NewHandle(t, g)}
         /\ NewHandle(t, g) \notin AllIssued
         /\ \A u \in Tables, i \in Nat :
              i \in 1 .. Len(generations[u]) =>
                /\ i \in 1 .. Len(generations'[u])
                /\ generations'[u][i] = generations[u][i]
<1> DEFINE n == Len(generations[t]) + 1
<1>1. /\ generations[t] \in Seq(Half)
      /\ Len(generations[t]) \in Nat
      /\ generations'[t] = Append(generations[t], g)
      /\ \A u \in Tables : u # t => generations'[u] = generations[u]
  BY DEF TypeOK, Push
<1>2. /\ Len(generations'[t]) = n
      /\ generations'[t][n] = g
      /\ \A i \in 1 .. Len(generations[t]) : generations'[t][i] = generations[t][i]
  BY <1>1
<1>3. NewHandle(t, g) \in Handle
  BY PushType
<1>4. ASSUME NEW x \in AllIssued PROVE x \in AllIssued'
  <2>1. /\ x \in Handle
        /\ x.idx \in 1 .. Len(generations[x.table])
        /\ x.gen = generations[x.table][x.idx]
    BY IssuedShape
  <2>2. x.table \in Tables
    BY <2>1 DEF Handle
  <2>3. /\ x.idx \in 1 .. Len(generations'[x.table])
        /\ x.gen = generations'[x.table][x.idx]
    BY <1>1, <1>2, <2>1, <2>2
  <2> QED BY <2>1, <2>3, IssuedShapeNext
<1>5. NewHandle(t, g) \in AllIssued' /\ NewHandle(t, g) \notin AllIssued
  <2>1. /\ NewHandle(t, g).table = t
        /\ NewHandle(t, g).idx = n
        /\ NewHandle(t, g).gen = g
    BY DEF NewHandle
  <2>2. n \in 1 .. Len(generations'[t]) /\ n \notin 1 .. Len(generations[t])
    BY <1>1, <1>2
  <2> QED BY <1>2, <1>3, <2>1, <2>2, IssuedShape, IssuedShapeNext
<1>6. ASSUME NEW x \in AllIssued', x \notin AllIssued
      PROVE  x = NewHandle(t, g)
  <2>1. /\ x \in Handle
        /\ x.idx \in 1 .. Len(generations'[x.table])
        /\ x.gen = generations'[x.table][x.idx]
    BY IssuedShapeNext
  <2>2. x.table = t
    <3> SUFFICES ASSUME x.table # t PROVE FALSE
      OBVIOUS
    <3>1. generations'[x.table] = generations[x.table]
      BY <1>1, <2>1 DEF Handle
    <3> QED BY <1>6, <2>1, <3>1, IssuedShape
  <2>3. x.idx = n
    <3> SUFFICES ASSUME x.idx # n PROVE FALSE
      OBVIOUS
    <3>1. x.idx \in 1 .. Len(generations[t])
      BY <1>1, <1>2, <2>1, <2>2
    <3> QED BY <1>2, <1>6, <2>1, <2>2, <3>1, IssuedShape
  <2>4. x.gen = g
    BY <1>2, <2>1, <2>2, <2>3
  <2> QED BY <2>1, <2>2, <2>3, <2>4 DEF NewHandle, Handle
<1>7. ASSUME NEW u \in Tables, NEW i \in 1 .. Len(generations[u])
      PROVE  /\ i \in 1 .. Len(generations'[u])
             /\ generations'[u][i] = generations[u][i]
  BY <1>1, <1>2
<1> QED BY <1>4, <1>5, <1>6, <1>7

(* Nothing was given out and no slot is filled, so the invariant holds.     *)
LEMMA InvInit == Init => IInv
<1> SUFFICES ASSUME Init PROVE IInv
  OBVIOUS
<1>1. TypeOK
  BY TypeInit
<1>2. SlotsOwned
  BY DEF Init, SlotsOwned, EmptySlot
<1> QED BY <1>1, <1>2 DEF Init, IInv, LiveReachable, NamesHeld, DestroyedEmpty

(* Giving out a handle: no slot and no resource changes. *)
LEMMA InvPush ==
  ASSUME IInv, NEW t \in Tables, NEW g \in Half, Push(t, g), TypeOK',
         UNCHANGED <<size, created, heap, destroyed>>,
         \A n \in Names :
           named_handles'[n] = named_handles[n] \/ named_handles'[n] = NewHandle(t, g)
  PROVE  IInv'
<1>1. TypeOK
  BY DEF IInv
<1>2. /\ AllIssued' = AllIssued \cup {NewHandle(t, g)}
      /\ \A u \in Tables, i \in Nat :
           i \in 1 .. Len(generations[u]) =>
             /\ i \in 1 .. Len(generations'[u])
             /\ generations'[u][i] = generations[u][i]
  BY <1>1, PushIssues
<1>3. \A h : SlotOf(h)' = SlotOf(h)
  BY DEF SlotOf
<1>4. SlotsOwned'
  BY <1>2 DEF IInv, SlotsOwned, Half
<1>5. LiveReachable'
  BY <1>2, <1>3 DEF IInv, LiveReachable
<1>6. NamesHeld'
  BY <1>2 DEF IInv, NamesHeld, UNINITIALIZED
<1>7. DestroyedEmpty'
  BY <1>2, <1>3 DEF IInv, DestroyedEmpty
<1> QED BY <1>4, <1>5, <1>6, <1>7 DEF IInv

(* Growing the vector loses no slot that points somewhere. *)
LEMMA ResizedKeeps ==
  ASSUME IInv, NEW h \in AllIssued
  PROVE  /\ h.idx < ResizedSize(h)
         /\ size[h.table] <= ResizedSize(h)
         /\ \A i \in Half :
              /\ Resized(h)[i].first = created[h.table][i].first
              /\ created[h.table][i].first # Null =>
                   Resized(h)[i] = created[h.table][i]
<1>1. /\ TypeOK
      /\ h \in Handle
      /\ h.idx \in 1 .. Len(generations[h.table])
  BY IssuedShape DEF IInv
<1>2. h.table \in Tables /\ size[h.table] \in Nat
  BY <1>1, SlotType
<1>3. h.idx \in Nat /\ Succ(h.idx) = h.idx + 1
  BY <1>1, <1>2, IssuedIndex DEF Half
<1>4. h.idx < ResizedSize(h) /\ size[h.table] <= ResizedSize(h)
  BY <1>2, <1>3 DEF ResizedSize, PastEnd
<1>5. ASSUME NEW i \in Half
      PROVE  /\ Resized(h)[i].first = created[h.table][i].first
             /\ created[h.table][i].first # Null =>
                  Resized(h)[i] = created[h.table][i]
  <2>1. created[h.table][i].first # Null => i < size[h.table]
    BY <1>2 DEF IInv, SlotsOwned
  <2> QED BY <2>1 DEF Resized, EmptySlot
<1> QED BY <1>4, <1>5

(* What create does to the slots, as the other lemmas need it. *)
LEMMA CreateSlots ==
  ASSUME IInv, NEW h \in AllIssued, NEW a \in Addr, Create(h, a)
  PROVE  /\ SlotOf(h)' = a
         /\ created'[h.table][h.idx] = [first |-> a, second |-> h.gen]
         /\ \A t \in Tables, i \in Half :
              ~(t = h.table /\ i = h.idx) =>
                /\ created'[t][i].first = created[t][i].first
                /\ created[t][i].first # Null => created'[t][i] = created[t][i]
<1>1. TypeOK /\ h \in Handle
  BY IssuedShape DEF IInv
<1>2. h.table \in Tables /\ h.idx \in Half /\ created \in [Tables -> [Half -> Slot]]
  BY <1>1, SlotType DEF TypeOK
<1>3. Resized(h) \in [Half -> Slot]
  BY <1>1, SlotType, ConstantTypes DEF Resized
<1>4. created'[h.table] =
        [Resized(h) EXCEPT ![h.idx] = [first |-> a, second |-> h.gen]]
  BY <1>2 DEF Create
<1>5. created'[h.table][h.idx] = [first |-> a, second |-> h.gen]
  BY <1>2, <1>3, <1>4
<1>6. SlotOf(h)' = a
  BY <1>5 DEF SlotOf
<1>7. ASSUME NEW t \in Tables, NEW i \in Half, ~(t = h.table /\ i = h.idx)
      PROVE  /\ created'[t][i].first = created[t][i].first
             /\ created[t][i].first # Null => created'[t][i] = created[t][i]
  <2>1. CASE t # h.table
    BY <1>2, <2>1 DEF Create
  <2>2. CASE t = h.table
    <3>1. created'[t][i] = Resized(h)[i]
      BY <1>3, <1>4, <1>7, <2>2
    <3> QED BY <2>2, <3>1, ResizedKeeps
  <2> QED BY <2>1, <2>2
<1> QED BY <1>5, <1>6, <1>7

(* create_* fills the slot of one handle, empty before, with a resource that*)
(* nobody owned; the resize loses no other slot.                            *)
LEMMA InvCreate ==
  ASSUME IInv, NEW h \in AllIssued, NEW a \in Addr, Create(h, a)
  PROVE  IInv'
<1>1. /\ TypeOK /\ TypeOK'
      /\ h \in Handle
      /\ h.table \in Tables /\ h.idx \in Half
      /\ h.idx \in 1 .. Len(generations[h.table])
      /\ h.gen = generations[h.table][h.idx]
  BY IssuedShape, CreateType, SlotType DEF IInv
<1>2. AllIssued' = AllIssued
  BY DEF Create, AllIssued, Issued
<1>3. SlotOf(h) = Null
  BY <1>1, NamedIsSlot DEF Create, Valid
<1>4. /\ heap[a] = Null /\ heap'[a] = h
      /\ \A b \in Addr : b # a => heap'[b] = heap[b]
  BY <1>1 DEF TypeOK, Create
<1>5. SlotsOwned'
  <2> SUFFICES ASSUME NEW t \in Tables, NEW i \in Half, created'[t][i].first # Null
               PROVE  /\ heap'[created'[t][i].first] =
                            [table |-> t, gen |-> created'[t][i].second, idx |-> i]
                      /\ i \in 1 .. Len(generations'[t])
                      /\ generations'[t][i] = created'[t][i].second
                      /\ i < size'[t]
    BY DEF SlotsOwned
  <2>1. generations' = generations /\ size'[h.table] = ResizedSize(h)
    BY <1>1 DEF Create, TypeOK
  <2>2. CASE t = h.table /\ i = h.idx
    <3>1. created'[t][i] = [first |-> a, second |-> h.gen]
      BY <2>2, CreateSlots
    <3>2. h = [table |-> t, gen |-> h.gen, idx |-> i]
      BY <1>1, <2>2 DEF Handle
    <3> QED BY <1>1, <1>4, <2>1, <2>2, <3>1, <3>2, ResizedKeeps
  <2>3. CASE ~(t = h.table /\ i = h.idx)
    <3>1. created[t][i].first # Null /\ created'[t][i] = created[t][i]
      BY <2>3, CreateSlots
    <3>2. /\ heap[created[t][i].first] =
               [table |-> t, gen |-> created[t][i].second, idx |-> i]
          /\ i \in 1 .. Len(generations[t])
          /\ generations[t][i] = created[t][i].second
          /\ i < size[t]
      BY <3>1 DEF IInv, SlotsOwned
    <3>3. /\ created[t][i].first \in Addr
          /\ [table |-> t, gen |-> created[t][i].second, idx |-> i] \in Handle
      BY <1>1, <3>1 DEF TypeOK, Slot, Handle
    <3>4. created[t][i].first # a
      BY <1>4, <3>2, <3>3, NullAssumption
    <3>5. size[t] \in Nat /\ size'[t] \in Nat /\ size[t] <= size'[t] /\ i \in Nat
      BY <1>1, <2>1, ResizedKeeps DEF TypeOK, Create, Half
    <3> QED BY <1>4, <2>1, <3>1, <3>2, <3>3, <3>4, <3>5
  <2> QED BY <2>2, <2>3
<1>6. ASSUME NEW g \in AllIssued, g # h
      PROVE  SlotOf(g)' = SlotOf(g)
  <2>1. /\ g \in Handle /\ g.table \in Tables /\ g.idx \in Half
        /\ ~(g.table = h.table /\ g.idx = h.idx)
    BY <1>1, <1>6, IssuedShape, IssuedDistinct, SlotType
  <2>2. /\ created'[g.table][g.idx].first = created[g.table][g.idx].first
        /\ created[g.table][g.idx].first # Null =>
             created'[g.table][g.idx] = created[g.table][g.idx]
    BY <2>1, CreateSlots
  <2> QED BY <2>2 DEF SlotOf
<1>7. ASSUME NEW b \in Addr, NEW g, g = heap'[b], g # Null
      PROVE  g \in AllIssued /\ SlotOf(g)' = b
  <2>1. CASE b = a
    BY <1>4, <1>7, <2>1, CreateSlots
  <2>2. CASE b # a
    <3>1. g = heap[b] /\ g \in AllIssued /\ SlotOf(g) = b
      BY <1>4, <1>7, <2>2 DEF IInv, LiveReachable
    <3>2. g # h
      BY <1>3, <3>1, NullAssumption
    <3> QED BY <1>6, <3>1, <3>2
  <2> QED BY <2>1, <2>2
<1>8. LiveReachable'
  BY <1>2, <1>7 DEF LiveReachable, SlotOf
<1>9. NamesHeld'
  BY <1>2 DEF IInv, NamesHeld, Create, UNINITIALIZED
<1>10. DestroyedEmpty'
  BY <1>2, <1>6 DEF IInv, DestroyedEmpty, Create
<1> QED BY <1>1, <1>5, <1>8, <1>9, <1>10 DEF IInv

(* What destroy does on the backend that has it. *)
LEMMA FreeSlots ==
  ASSUME IInv, NEW h \in AllIssued, Valid(h), FreeSlot(h)
  PROVE  /\ Named(h) \in Addr /\ heap[Named(h)] = h
         /\ Named(h) = SlotOf(h)
         /\ heap'[Named(h)] = Null
         /\ \A b \in Addr : b # Named(h) => heap'[b] = heap[b]
         /\ created'[h.table][h.idx].first = Null
         /\ \A t \in Tables, i \in Half :
              ~(t = h.table /\ i = h.idx) => created'[t][i] = created[t][i]
<1>1. /\ TypeOK /\ h \in Handle
      /\ h.table \in Tables /\ h.idx \in Half
      /\ created[h.table][h.idx] \in Slot
  BY IssuedShape, SlotType DEF IInv
<1>2. Named(h) = SlotOf(h) /\ SlotOf(h) # Null
  BY <1>1, NamedIsSlot DEF Valid
<1>3. /\ SlotOf(h) = created[h.table][h.idx].first
      /\ h.gen = created[h.table][h.idx].second
  BY <1>2 DEF SlotOf
<1>4. h = [table |-> h.table, gen |-> h.gen, idx |-> h.idx]
  BY <1>1 DEF Handle
<1>5. heap[SlotOf(h)] = h
  BY <1>1, <1>2, <1>3, <1>4 DEF IInv, SlotsOwned
<1>6. SlotOf(h) \in Addr
  BY <1>1, <1>2, <1>3 DEF Slot
<1>7. heap'[SlotOf(h)] = Null /\ \A b \in Addr : b # SlotOf(h) => heap'[b] = heap[b]
  BY <1>1, <1>2, <1>6 DEF FreeSlot, TypeOK
<1>8. created'[h.table][h.idx].first = Null
  BY <1>1 DEF FreeSlot, TypeOK
<1>9. \A t \in Tables, i \in Half :
        ~(t = h.table /\ i = h.idx) => created'[t][i] = created[t][i]
  BY <1>1 DEF FreeSlot, TypeOK
<1> QED BY <1>2, <1>5, <1>6, <1>7, <1>8, <1>9

(* destroy empties one slot and raises its generation; the other slots stay.*)
LEMMA InvDestroy ==
  ASSUME IInv, NEW h \in AllIssued, Destroy(h)
  PROVE  IInv'
<1>1. /\ TypeOK /\ TypeOK'
      /\ h \in Handle
      /\ h.table \in Tables /\ h.idx \in Half
  BY IssuedShape, DestroyType, SlotType DEF IInv
<1>2. AllIssued' = AllIssued /\ generations' = generations /\ size' = size
  BY DEF Destroy, AllIssued, Issued
<1>3. NamesHeld'
  BY <1>2 DEF IInv, NamesHeld, Destroy, UNINITIALIZED
<1>4. CASE Backend # "WebGPU"
  <2>1. UNCHANGED <<heap, created>>
    BY <1>4 DEF Destroy
  <2>2. \A g : SlotOf(g)' = SlotOf(g)
    BY <2>1 DEF SlotOf
  <2>3. SlotsOwned' /\ LiveReachable'
    BY <1>2, <2>1, <2>2 DEF IInv, SlotsOwned, LiveReachable
  <2>4. DestroyedEmpty'
    BY <1>2, <1>4, <2>2 DEF IInv, DestroyedEmpty, Destroy
  <2> QED BY <1>1, <1>3, <2>3, <2>4 DEF IInv
<1>5. CASE Backend = "WebGPU"
  <2>1. Valid(h) /\ FreeSlot(h)
    BY <1>5 DEF Destroy
  <2>2. ASSUME NEW g \in AllIssued, g # h
        PROVE  SlotOf(g)' = SlotOf(g)
    <3>1. /\ g \in Handle /\ g.table \in Tables /\ g.idx \in Half
          /\ ~(g.table = h.table /\ g.idx = h.idx)
      BY <1>1, <2>2, IssuedShape, IssuedDistinct, SlotType
    <3> QED BY <2>1, <3>1, FreeSlots DEF SlotOf
  <2>3. SlotOf(h)' = Null
    BY <2>1, FreeSlots DEF SlotOf
  <2>4. SlotsOwned'
    <3> SUFFICES ASSUME NEW t \in Tables, NEW i \in Half, created'[t][i].first # Null
                 PROVE  /\ heap'[created'[t][i].first] =
                              [table |-> t, gen |-> created'[t][i].second, idx |-> i]
                        /\ i \in 1 .. Len(generations[t])
                        /\ generations[t][i] = created'[t][i].second
                        /\ i < size[t]
      BY <1>2 DEF SlotsOwned
    <3>1. ~(t = h.table /\ i = h.idx) /\ created'[t][i] = created[t][i]
      BY <2>1, FreeSlots
    <3>2. /\ heap[created[t][i].first] =
               [table |-> t, gen |-> created[t][i].second, idx |-> i]
          /\ i \in 1 .. Len(generations[t])
          /\ generations[t][i] = created[t][i].second
          /\ i < size[t]
      BY <3>1 DEF IInv, SlotsOwned
    <3>3. created[t][i].first \in Addr
      BY <1>1, <3>1 DEF TypeOK, Slot
    <3>4. created[t][i].first # Named(h)
      BY <2>1, <3>1, <3>2, FreeSlots
    <3> QED BY <2>1, <3>1, <3>2, <3>3, <3>4, FreeSlots
  <2>5. ASSUME NEW b \in Addr, NEW g, g = heap'[b], g # Null
        PROVE  g \in AllIssued /\ SlotOf(g)' = b
    <3>1. b # Named(h) /\ g = heap[b]
      BY <2>1, <2>5, FreeSlots
    <3>2. g \in AllIssued /\ SlotOf(g) = b
      BY <2>5, <3>1 DEF IInv, LiveReachable
    <3>3. g # h
      BY <2>1, <3>1, <3>2, FreeSlots
    <3> QED BY <2>2, <3>2, <3>3
  <2>6. LiveReachable'
    BY <1>2, <2>5 DEF LiveReachable, SlotOf
  <2>7. DestroyedEmpty'
    BY <1>2, <2>2, <2>3 DEF IInv, DestroyedEmpty, Destroy
  <2> QED BY <1>1, <1>3, <2>4, <2>6, <2>7 DEF IInv
<1> QED BY <1>4, <1>5

(* Every step keeps the invariant.                                          *)
LEMMA InvStep == IInv /\ [Next]_vars => IInv'
<1> SUFFICES ASSUME IInv, [Next]_vars PROVE IInv'
  OBVIOUS
<1> TypeOK /\ TypeOK'
  BY TypeStep DEF IInv
<1>1. ASSUME NEW g \in {0, UHalfMax}, MakeResource(g) PROVE IInv'
  <2>1. g \in Half /\ "memory_resources" \in Tables
    BY ConstantTypes DEF Tables
  <2> QED BY <1>1, <2>1, InvPush DEF MakeResource
<1>2. ASSUME NEW g \in {0, UHalfMax}, NEW n \in Names, MakeNamedResource(g, n)
      PROVE  IInv'
  <2>1. g \in Half /\ "memory_resources" \in Tables
    BY ConstantTypes DEF Tables
  <2>2. \A m \in Names :
          \/ named_handles'[m] = named_handles[m]
          \/ named_handles'[m] = NewHandle("memory_resources", g)
    BY <1>2 DEF MakeNamedResource, TypeOK
  <2> QED BY <1>2, <2>1, <2>2, InvPush DEF MakeNamedResource
<1>3. CASE MakeObject
  <2>1. 0 \in Half /\ "gpu_objects" \in Tables
    BY ConstantTypes DEF Tables
  <2> QED BY <1>3, <2>1, InvPush DEF MakeObject
<1>4. ASSUME NEW h \in AllIssued, NEW a \in Addr, Create(h, a) PROVE IInv'
  BY <1>4, InvCreate
<1>5. ASSUME NEW h \in Issued("memory_resources"), Destroy(h) PROVE IInv'
  <2>1. h \in AllIssued
    BY DEF AllIssued, Tables
  <2> QED BY <1>5, <2>1, InvDestroy
<1>6. CASE UNCHANGED vars
  BY <1>6 DEF vars, IInv, TypeOK, SlotsOwned, LiveReachable, NamesHeld,
              DestroyedEmpty, SlotOf, AllIssued, Issued
<1> QED BY <1>1, <1>2, <1>3, <1>4, <1>5, <1>6 DEF Next

(* The invariant holds in every state the program reaches.                  *)
THEOREM Invariance == Spec => []IInv
BY InvInit, InvStep, PTL DEF Spec
-----------------------------------------------------------------------------
(* Safety.                                                                  *)

(* What a program asks a device about was given out or is the default       *)
(* handle.                                                                  *)
LEMMA HeldAreHandles ==
  ASSUME IInv, NEW h \in Held
  PROVE  /\ h \in Handle
         /\ h \in AllIssued \/ h = UNINITIALIZED(h.table)
<1>1. CASE h \in AllIssued
  BY <1>1, IssuedShape DEF IInv
<1>2. CASE h = UNINITIALIZED("memory_resources") \/ h = UNINITIALIZED("gpu_objects")
  BY <1>2, ConstantTypes DEF UNINITIALIZED, Tables
<1> QED BY <1>1, <1>2 DEF Held, Query, IInv, NamesHeld, Tables

(* A handle given out is never read past the end of the vector.             *)
LEMMA IssuedInBounds ==
  ASSUME IInv, NEW h \in AllIssued, ReadsSlot(h)
  PROVE  InBounds(h)
<1>1. /\ h \in Handle /\ h.idx \in 1 .. Len(generations[h.table])
      /\ TypeOK
  BY IssuedShape DEF IInv
<1>2. /\ h.table \in Tables /\ size[h.table] \in Nat
      /\ h.idx \in Nat /\ Succ(h.idx) = h.idx + 1
  BY <1>1, SlotType, IssuedIndex DEF Half
<1> QED BY <1>2 DEF ReadsSlot, PastEnd, InBounds

(* A slot that answers a handle holds the live resource made with it.       *)
LEMMA NamedIsAlive ==
  ASSUME IInv, NEW h \in Handle, Valid(h)
  PROVE  heap[Named(h)] = h
<1>1. h.table \in Tables /\ h.idx \in Half
  BY DEF Handle
<1>2. Named(h) = SlotOf(h) /\ SlotOf(h) # Null
  BY NamedIsSlot DEF Valid
<1>3. /\ SlotOf(h) = created[h.table][h.idx].first
      /\ h.gen = created[h.table][h.idx].second
  BY <1>2 DEF SlotOf
<1>4. h = [table |-> h.table, gen |-> h.gen, idx |-> h.idx]
  BY DEF Handle
<1> QED BY <1>1, <1>2, <1>3, <1>4 DEF IInv, SlotsOwned

(* A lookup of a handle given out answers nothing, or the live resource     *)
(* made with it: what LookupSound says but for the default handle.          *)
IssuedLookupSound ==
  \A h \in AllIssued : \A a \in Optional(h) \ {Null} : heap[a] = h

(* On either backend a lookup of a handle RenderGraph gave out answers      *)
(* nothing, or the live resource made with it.                              *)
THEOREM IssuedLookupsAreSound == Spec => []IssuedLookupSound
<1>1. IInv => IssuedLookupSound
  <2> SUFFICES ASSUME IInv, NEW h \in AllIssued, NEW a \in Optional(h), a # Null
               PROVE  heap[a] = h
    BY DEF IssuedLookupSound
  <2>1. a = Named(h)
    BY IssuedInBounds DEF Optional
  <2>2. h \in Handle
    BY IssuedShape DEF IInv
  <2> QED BY <2>1, <2>2, NamedIsAlive DEF Valid
<1> QED BY <1>1, Invariance, PTL

(* On WebGPU a handle the program looks up is turned away or was given out. *)
LEMMA HeldReadsIssued ==
  ASSUME Backend = "WebGPU", IInv, NEW h \in Held, ReadsSlot(h)
  PROVE  h \in AllIssued
BY HeldAreHandles DEF ReadsSlot, Refused

(* On WebGPU a lookup answers nothing, or the live resource made with the   *)
(* handle, the default handle included.  (On Vulkan that handle is read     *)
(* past the vector, where the memory may hold anything.)                    *)
THEOREM LookupsAreSound ==
  ASSUME Backend = "WebGPU"
  PROVE  Spec => []LookupSound
<1>1. IInv => LookupSound
  <2> SUFFICES ASSUME IInv, NEW h \in Held, NEW a \in Optional(h), a # Null
               PROVE  heap[a] = h
    BY DEF LookupSound
  <2>1. a = Named(h)
    BY HeldReadsIssued, IssuedInBounds DEF Optional
  <2>2. h \in Handle
    BY HeldAreHandles
  <2> QED BY <2>1, <2>2, NamedIsAlive DEF Valid
<1> QED BY <1>1, Invariance, PTL

(* On WebGPU no lookup indexes past the end of the vector.                  *)
THEOREM LookupsAreInBounds ==
  ASSUME Backend = "WebGPU"
  PROVE  Spec => []LookupInBounds
<1>1. IInv => LookupInBounds
  BY HeldReadsIssued, IssuedInBounds DEF LookupInBounds
<1> QED BY <1>1, Invariance, PTL

(* Every live resource is what its own handle resolves to.                  *)
THEOREM NothingLeaks == Spec => []NoLeak
<1>1. IInv => NoLeak
  <2> SUFFICES ASSUME IInv, NEW a \in Addr, heap[a] # Null
               PROVE  heap[a] \in AllIssued /\ Named(heap[a]) = a
    BY DEF NoLeak
  <2>1. heap[a] \in AllIssued /\ SlotOf(heap[a]) = a
    BY DEF IInv, LiveReachable
  <2> QED BY <2>1, IssuedShape, NamedIsSlot DEF IInv
<1> QED BY <1>1, Invariance, PTL

(* On WebGPU a destroyed handle names nothing until it is created again.    *)
THEOREM DestroyedAreGone ==
  ASSUME Backend = "WebGPU"
  PROVE  Spec => []DestroyedIsGone
<1>1. IInv => DestroyedIsGone
  BY IssuedShape, NamedIsSlot DEF IInv, DestroyedIsGone, DestroyedEmpty, Valid
<1> QED BY <1>1, Invariance, PTL
-----------------------------------------------------------------------------
(* Refinement: every step of the tables is a step of the map, or none.      *)

LookupsAgree == \A h \in Handle : Named(h) = SlotOf(h)

(* In every state a lookup answers what the slot says.                      *)
LEMMA LookupsReadSlots == IInv => LookupsAgree
BY NamedIsSlot DEF LookupsAgree

(* Another generation of an index given out names nothing. *)
OneGeneration ==
  \A h \in AllIssued, x \in Handle :
    x # h /\ x.table = h.table /\ x.idx = h.idx => Named(x) = Null

(* In every state an index names one generation at most.                    *)
LEMMA OneGenerationOnly == IInv => OneGeneration
<1> SUFFICES ASSUME IInv, NEW h \in AllIssued, NEW x \in Handle,
                    x # h, x.table = h.table, x.idx = h.idx
             PROVE  SlotOf(x) = Null
  BY NamedIsSlot DEF OneGeneration
<1>1. /\ h \in Handle /\ h.table \in Tables /\ h.idx \in Half
      /\ h.gen = generations[h.table][h.idx]
  BY IssuedShape, SlotType DEF IInv
<1>2. x.gen # h.gen
  BY <1>1 DEF Handle
<1>3. created[h.table][h.idx].first # Null => h.gen = created[h.table][h.idx].second
  BY <1>1 DEF IInv, SlotsOwned
<1> QED BY <1>2, <1>3 DEF SlotOf

(* An index not given out yet has an empty slot. *)
LEMMA NotIssuedNamesNothing ==
  ASSUME IInv, NEW h \in Handle, h.idx \notin 1 .. Len(generations[h.table])
  PROVE  Named(h) = Null
<1>1. h.table \in Tables /\ h.idx \in Half
  BY SlotType DEF IInv
<1>2. created[h.table][h.idx].first = Null
  BY <1>1 DEF IInv, SlotsOwned
<1> QED BY <1>2, NamedIsSlot DEF SlotOf

(* The initial states are initial states of the abstract map.               *)
LEMMA MapInitially == Init => Map!MapInit
<1> SUFFICES ASSUME Init PROVE Map!MapInit
  OBVIOUS
<1>1. AllIssued = {}
  BY DEF Init, AllIssued, Issued
<1>2. \A h \in Handle : Named(h) = Null
  BY DEF Init, Named, EmptySlot, Handle
<1> QED BY <1>1, <1>2 DEF Map!MapInit

(* Giving out a handle is a step of the map, which learns of the handle.    *)
LEMMA MapPush ==
  ASSUME IInv, NEW t \in Tables, NEW g \in Half, Push(t, g), IInv',
         UNCHANGED <<size, created>>
  PROVE  Map!MapNext
<1> DEFINE h == NewHandle(t, g)
<1>1. h \in Handle
  BY PushType DEF IInv
<1>2. h \notin AllIssued /\ AllIssued' = AllIssued \cup {h}
  BY PushIssues DEF IInv
<1>3. \A x \in Handle : Named(x)' = Named(x)
  BY DEF Named, ReadsSlot, InBounds, PastEnd
<1>4. Named(h) = Null
  <2>1. h.table = t /\ h.idx = Len(generations[t]) + 1
    BY DEF NewHandle
  <2>2. generations[t] \in Seq(Half) /\ Len(generations[t]) \in Nat
    BY DEF IInv, TypeOK
  <2>3. h.idx \notin 1 .. Len(generations[h.table])
    BY <2>1, <2>2
  <2> QED BY <1>1, <2>3, NotIssuedNamesNothing
<1>5. [x \in Handle |-> Named(x)]' = [x \in Handle |-> Named(x)]
  BY <1>3
<1>6. Map!Issue(h)
  BY <1>1, <1>2, <1>4, <1>5 DEF Map!Issue
<1> QED BY <1>1, <1>6 DEF Map!MapNext

(* create_* is the step of the map that binds the handle.                   *)
LEMMA MapCreate ==
  ASSUME IInv, NEW h \in AllIssued, NEW a \in Addr, Create(h, a), IInv'
  PROVE  Map!MapNext
<1>1. TypeOK /\ TypeOK' /\ h \in Handle /\ h.table \in Tables /\ h.idx \in Half
  BY IssuedShape, SlotType DEF IInv
<1>2. AllIssued' = AllIssued
  BY DEF Create, AllIssued, Issued
<1>3. Named(h) = Null /\ heap[a] = Null
  BY DEF Create, Valid
<1>4. /\ \A x \in Handle : Named(x) = SlotOf(x)
      /\ \A x \in Handle : Named(x)' = SlotOf(x)'
  <2>1. LookupsAgree /\ LookupsAgree'
    BY LookupsReadSlots, PTL
  <2> QED BY <2>1 DEF LookupsAgree
<1>5. Named(h)' = a
  BY <1>1, <1>4, CreateSlots
<1>6. \A x \in Handle : Named(x) # a
  <2> SUFFICES ASSUME NEW x \in Handle, SlotOf(x) = a PROVE FALSE
    BY <1>4
  <2>1. x.table \in Tables /\ x.idx \in Half
    BY <1>1, SlotType
  <2>2. created[x.table][x.idx].first = a
    BY NullAssumption DEF SlotOf
  <2>3. heap[a] = [table |-> x.table,
                   gen |-> created[x.table][x.idx].second, idx |-> x.idx]
    BY <2>1, <2>2, NullAssumption DEF IInv, SlotsOwned
  <2>4. heap[a] \in Handle
    BY <1>1, <2>1, <2>3, SlotType DEF Handle, Slot
  <2> QED BY <1>3, <2>4, NullAssumption
<1>7. ASSUME NEW x \in Handle, x # h
      PROVE  Named(x)' = Named(x)
  <2>1. x.table \in Tables /\ x.idx \in Half
    BY <1>1, SlotType
  <2>2. CASE x.table = h.table /\ x.idx = h.idx
    <3>1. OneGeneration /\ OneGeneration'
      BY OneGenerationOnly, PTL
    <3> QED BY <1>2, <1>7, <2>2, <3>1 DEF OneGeneration
  <2>3. CASE ~(x.table = h.table /\ x.idx = h.idx)
    <3>1. /\ created'[x.table][x.idx].first = created[x.table][x.idx].first
          /\ created[x.table][x.idx].first # Null =>
               created'[x.table][x.idx] = created[x.table][x.idx]
      BY <2>1, <2>3, CreateSlots
    <3>2. SlotOf(x)' = SlotOf(x)
      BY <3>1 DEF SlotOf
    <3> QED BY <1>4, <3>2
  <2> QED BY <2>2, <2>3
<1>8. [x \in Handle |-> Named(x)]' =
        [[x \in Handle |-> Named(x)] EXCEPT ![h] = a]
  BY <1>1, <1>5, <1>7
<1>9. Map!CreateUnder(h, a)
  BY <1>1, <1>2, <1>3, <1>6, <1>8 DEF Map!CreateUnder
<1> QED BY <1>1, <1>9 DEF Map!MapNext

(* On WebGPU destroy is the step of the map that unbinds the handle; where  *)
(* destroy does nothing it is a stutter.                                    *)
LEMMA MapDestroy ==
  ASSUME IInv, NEW h \in AllIssued, Destroy(h), IInv'
  PROVE  Map!MapNext \/ UNCHANGED Map!mapVars
<1>1. h \in Handle /\ h.table \in Tables /\ h.idx \in Half /\ TypeOK
  BY IssuedShape, SlotType DEF IInv
<1>2. AllIssued' = AllIssued /\ size' = size
  BY DEF Destroy, AllIssued, Issued
<1>3. CASE Backend # "WebGPU"
  <2>1. UNCHANGED <<created, size>>
    BY <1>2, <1>3 DEF Destroy
  <2>2. \A x \in Handle : Named(x)' = Named(x)
    BY <2>1 DEF Named, ReadsSlot, InBounds, PastEnd
  <2> QED BY <1>2, <2>2 DEF Map!mapVars
<1>4. CASE Backend = "WebGPU"
  <2>1. Valid(h) /\ FreeSlot(h)
    BY <1>4 DEF Destroy
  <2>2. /\ \A x \in Handle : Named(x) = SlotOf(x)
        /\ \A x \in Handle : Named(x)' = SlotOf(x)'
    <3>1. LookupsAgree /\ LookupsAgree'
      BY LookupsReadSlots, PTL
    <3> QED BY <3>1 DEF LookupsAgree
  <2>3. Named(h)' = Null
    BY <1>1, <2>1, <2>2, FreeSlots DEF SlotOf
  <2>4. ASSUME NEW x \in Handle, x # h
        PROVE  Named(x)' = Named(x)
    <3>1. x.table \in Tables /\ x.idx \in Half
      BY <1>1, SlotType
    <3>2. CASE x.table = h.table /\ x.idx = h.idx
      <4>1. OneGeneration /\ OneGeneration'
        BY OneGenerationOnly, PTL
      <4> QED BY <1>2, <2>4, <3>2, <4>1 DEF OneGeneration
    <3>3. CASE ~(x.table = h.table /\ x.idx = h.idx)
      <4>1. created'[x.table][x.idx] = created[x.table][x.idx]
        BY <2>1, <3>1, <3>3, FreeSlots
      <4> QED BY <2>2, <4>1 DEF SlotOf
    <3> QED BY <3>2, <3>3
  <2>5. [x \in Handle |-> Named(x)]' =
          [[x \in Handle |-> Named(x)] EXCEPT ![h] = Null]
    BY <1>1, <2>3, <2>4
  <2>6. Map!DestroyUnder(h)
    BY <1>1, <1>2, <2>1, <2>5 DEF Map!DestroyUnder, Valid
  <2> QED BY <1>1, <2>6 DEF Map!MapNext
<1> QED BY <1>3, <1>4

(* Every step is a step of the map or a stutter.                            *)
LEMMA MapStep == IInv /\ IInv' /\ [Next]_vars => [Map!MapNext]_(Map!mapVars)
<1> SUFFICES ASSUME IInv, IInv', [Next]_vars
             PROVE  Map!MapNext \/ UNCHANGED Map!mapVars
  OBVIOUS
<1>1. ASSUME NEW g \in {0, UHalfMax}, MakeResource(g) PROVE Map!MapNext
  <2>1. g \in Half /\ "memory_resources" \in Tables
    BY ConstantTypes DEF Tables
  <2> QED BY <1>1, <2>1, MapPush DEF MakeResource
<1>2. ASSUME NEW g \in {0, UHalfMax}, NEW n \in Names, MakeNamedResource(g, n)
      PROVE  Map!MapNext
  <2>1. g \in Half /\ "memory_resources" \in Tables
    BY ConstantTypes DEF Tables
  <2> QED BY <1>2, <2>1, MapPush DEF MakeNamedResource
<1>3. CASE MakeObject
  <2>1. 0 \in Half /\ "gpu_objects" \in Tables
    BY ConstantTypes DEF Tables
  <2> QED BY <1>3, <2>1, MapPush DEF MakeObject
<1>4. ASSUME NEW h \in AllIssued, NEW a \in Addr, Create(h, a) PROVE Map!MapNext
  BY <1>4, MapCreate
<1>5. ASSUME NEW h \in Issued("memory_resources"), Destroy(h)
      PROVE  Map!MapNext \/ UNCHANGED Map!mapVars
  <2>1. h \in AllIssued
    BY DEF AllIssued, Tables
  <2> QED BY <1>5, <2>1, MapDestroy
<1>6. CASE UNCHANGED vars
  BY <1>6 DEF vars, Map!mapVars, AllIssued, Issued, Named, ReadsSlot,
              InBounds, PastEnd
<1> QED BY <1>1, <1>2, <1>3, <1>4, <1>5, <1>6 DEF Next

(* On WebGPU, whose lookups answer what the slots say and whose destroy     *)
(* empties them, the tables implement the map from handles to resources.    *)
THEOREM Refinement ==
  ASSUME Backend = "WebGPU"
  PROVE  Spec => ImplementsMap
BY MapInitially, MapStep, Invariance, PTL DEF Spec, ImplementsMap, Map!MapSpec
=============================================================================
