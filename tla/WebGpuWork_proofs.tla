-------------------------- MODULE WebGpuWork_proofs --------------------------
(***************************************************************************)
(* What the WebGPU device submits is what the list says, whatever earlier  *)
(* frames left in the cache (ExecutesList), for any lists that are         *)
(* Complete.                                                               *)
(***************************************************************************)
EXTENDS WebGpuFrame_proofs

(* The definitions behind ExecutesList, with the list and the pass as       *)
(* parameters.                                                              *)
Latest(S) == CHOOSE j \in S : \A i \in S : i <= j

Ops(cmds, k, o) == {j \in 1 .. k - 1 : cmds[j].op = o}
Bindings(cmds, k, i, j) == {m \in 1 .. k - 1 : IsBinding(cmds[m], i, j)}

LatestOp(cmds, k, o) == cmds[Latest(Ops(cmds, k, o))]
LatestBinding(cmds, k, i, j) == cmds[Latest(Bindings(cmds, k, i, j))]

DrawWork(p, cmds, k) ==
  [vb |-> LatestOp(cmds, k, "vb").res,
   ib |-> LatestOp(cmds, k, "ib").res,
   groups |-> [i \in DOMAIN Layout[p] |->
                 [j \in DOMAIN Layout[p][i] |-> LatestBinding(cmds, k, i, j).res]],
   offsets |-> [i \in DOMAIN Layout[p] |->
                  [j \in {n \in DOMAIN Layout[p][i] : Layout[p][i][n] = "uniform"} |->
                     LatestBinding(cmds, k, i, j).offset]]]

CommandWork(p, cmds, k) ==
  IF cmds[k].op = "copy" THEN [src |-> cmds[k].src, dst |-> cmds[k].dst]
  ELSE DrawWork(p, cmds, k)

WorkedIn(cmds) == {k \in DOMAIN cmds : cmds[k].op \in {"draw", "copy"}}
OrdinalIn(cmds, k) == Cardinality({j \in WorkedIn(cmds) : j <= k})
Nth(cmds, n) == CHOOSE k \in WorkedIn(cmds) : OrdinalIn(cmds, k) = n

(* The work of the first k commands.                                        *)
WorkUpTo(p, cmds, k) ==
  [n \in 1 .. OrdinalIn(cmds, k) |-> CommandWork(p, cmds, Nth(cmds, n))]

LEMMA WorkOfIs ==
  ASSUME NEW k PROVE WorkOf(k) = CommandWork(pass, list, k)
BY DEF WorkOf, Asked, AskedBinding, CommandWork, DrawWork, LatestOp, LatestBinding,
       Latest, Ops, Bindings, IsBinding

LEMMA WorkIs ==
  Work = [n \in 1 .. Cardinality(WorkedIn(list)) |->
            CommandWork(pass, list, Nth(list, n))]
BY WorkOfIs DEF Work, Worked, Ordinal, WorkedIn, OrdinalIn, Nth
-----------------------------------------------------------------------------
(* Counting the commands                                                   *)

LEMMA LatestIsNew ==
  ASSUME NEW k \in Nat, NEW S, \A j \in S : j \in Nat /\ j < k
  PROVE  Latest(S \cup {k}) = k
BY DEF Latest

LEMMA OpsNext ==
  ASSUME NEW cmds, NEW k \in Nat \ {0}, NEW o
  PROVE  /\ cmds[k].op # o => Ops(cmds, k + 1, o) = Ops(cmds, k, o)
         /\ cmds[k].op = o => Latest(Ops(cmds, k + 1, o)) = k
<1>1. cmds[k].op # o => Ops(cmds, k + 1, o) = Ops(cmds, k, o)
  BY DEF Ops
<1>2. cmds[k].op = o => Ops(cmds, k + 1, o) = Ops(cmds, k, o) \cup {k}
  BY DEF Ops
<1>3. \A j \in Ops(cmds, k, o) : j \in Nat /\ j < k
  BY DEF Ops
<1> QED BY <1>1, <1>2, <1>3, LatestIsNew

LEMMA BindingsNext ==
  ASSUME NEW cmds, NEW k \in Nat \ {0}, NEW i, NEW j
  PROVE  /\ ~IsBinding(cmds[k], i, j) =>
              Bindings(cmds, k + 1, i, j) = Bindings(cmds, k, i, j)
         /\ IsBinding(cmds[k], i, j) => Latest(Bindings(cmds, k + 1, i, j)) = k
<1>1. ~IsBinding(cmds[k], i, j) =>
        Bindings(cmds, k + 1, i, j) = Bindings(cmds, k, i, j)
  BY DEF Bindings
<1>2. IsBinding(cmds[k], i, j) =>
        Bindings(cmds, k + 1, i, j) = Bindings(cmds, k, i, j) \cup {k}
  BY DEF Bindings
<1>3. \A m \in Bindings(cmds, k, i, j) : m \in Nat /\ m < k
  BY DEF Bindings
<1> QED BY <1>1, <1>2, <1>3, LatestIsNew

LEMMA OrdinalType ==
  ASSUME NEW cmds, Len(cmds) \in Nat, DOMAIN cmds = 1 .. Len(cmds), NEW k \in Nat
  PROVE  /\ IsFiniteSet({j \in WorkedIn(cmds) : j <= k})
         /\ OrdinalIn(cmds, k) \in Nat
<1> DEFINE S == {j \in WorkedIn(cmds) : j <= k}
<1>1. IsFiniteSet(1 .. Len(cmds))
  BY FS_Interval
<1>2. S \in SUBSET (1 .. Len(cmds))
  BY DEF WorkedIn
<1> HIDE DEF S
<1>3. IsFiniteSet(S)
  BY <1>1, <1>2, FS_Subset
<1>4. Cardinality(S) \in Nat
  BY <1>3, FS_CardinalityType
<1> QED BY <1>3, <1>4 DEF S, OrdinalIn

LEMMA OrdinalGrows ==
  ASSUME NEW cmds, Len(cmds) \in Nat, DOMAIN cmds = 1 .. Len(cmds),
         NEW h \in Nat, NEW k \in Nat, h <= k
  PROVE  OrdinalIn(cmds, h) <= OrdinalIn(cmds, k)
<1>1. {j \in WorkedIn(cmds) : j <= h} \in SUBSET {j \in WorkedIn(cmds) : j <= k}
  BY DEF WorkedIn
<1>2. IsFiniteSet({j \in WorkedIn(cmds) : j <= k})
  BY OrdinalType
<1> QED BY <1>1, <1>2, FS_Subset DEF OrdinalIn

LEMMA OrdinalNext ==
  ASSUME NEW cmds, Len(cmds) \in Nat, DOMAIN cmds = 1 .. Len(cmds),
         NEW k \in 1 .. Len(cmds)
  PROVE  OrdinalIn(cmds, k) =
           OrdinalIn(cmds, k - 1) + (IF k \in WorkedIn(cmds) THEN 1 ELSE 0)
<1> DEFINE S == {j \in WorkedIn(cmds) : j <= k - 1}
           T == {j \in WorkedIn(cmds) : j <= k}
<1>1. k - 1 \in Nat
  OBVIOUS
<1>2. IsFiniteSet(S) /\ Cardinality(S) \in Nat
  BY <1>1, OrdinalType DEF OrdinalIn
<1>3. k \notin S
  OBVIOUS
<1>4. T = IF k \in WorkedIn(cmds) THEN S \cup {k} ELSE S
  BY DEF WorkedIn
<1> HIDE DEF S, T
<1>5. Cardinality(S \cup {k}) = Cardinality(S) + 1
  BY <1>2, <1>3, FS_AddElement
<1>6. OrdinalIn(cmds, k) = Cardinality(T) /\ OrdinalIn(cmds, k - 1) = Cardinality(S)
  BY DEF OrdinalIn, S, T
<1> QED BY <1>2, <1>4, <1>5, <1>6

(* A command that is work is the one its ordinal says.                      *)
LEMMA NthIs ==
  ASSUME NEW cmds, Len(cmds) \in Nat, DOMAIN cmds = 1 .. Len(cmds),
         NEW k \in WorkedIn(cmds)
  PROVE  Nth(cmds, OrdinalIn(cmds, k)) = k
<1>1. \A h \in WorkedIn(cmds) :
        h \in 1 .. Len(cmds) /\ h \in Nat /\ h - 1 \in Nat /\ OrdinalIn(cmds, h) \in Nat
          /\ OrdinalIn(cmds, h) = OrdinalIn(cmds, h - 1) + 1
          /\ OrdinalIn(cmds, h - 1) \in Nat
  <2> TAKE h \in WorkedIn(cmds)
  <2>1. h \in 1 .. Len(cmds) /\ h \in Nat /\ h - 1 \in Nat
    BY DEF WorkedIn
  <2> QED BY <2>1, OrdinalNext, OrdinalType
<1>2. \A g, h \in WorkedIn(cmds) :
        g < h => OrdinalIn(cmds, g) < OrdinalIn(cmds, h)
  <2> SUFFICES ASSUME NEW g \in WorkedIn(cmds), NEW h \in WorkedIn(cmds), g < h
               PROVE  OrdinalIn(cmds, g) < OrdinalIn(cmds, h)
    OBVIOUS
  <2>1. g \in Nat /\ h - 1 \in Nat /\ g <= h - 1
    BY <1>1
  <2>2. OrdinalIn(cmds, g) <= OrdinalIn(cmds, h - 1)
    BY <2>1, OrdinalGrows
  <2>3. /\ OrdinalIn(cmds, g) \in Nat /\ OrdinalIn(cmds, h - 1) \in Nat
        /\ OrdinalIn(cmds, h) = OrdinalIn(cmds, h - 1) + 1
    BY <1>1
  <2> QED BY <2>2, <2>3
<1>3. \A h \in WorkedIn(cmds) : OrdinalIn(cmds, h) = OrdinalIn(cmds, k) => h = k
  <2> TAKE h \in WorkedIn(cmds)
  <2>1. h < k \/ h = k \/ k < h
    BY <1>1
  <2> QED BY <2>1, <1>1, <1>2
<1> QED BY <1>3 DEF Nth

LEMMA Appended ==
  ASSUME NEW n \in Nat, NEW f, f = [m \in 1 .. n |-> f[m]], NEW e
  PROVE  Append(f, e) = [m \in 1 .. n + 1 |-> IF m = n + 1 THEN e ELSE f[m]]
<1> DEFINE S == {f[m] : m \in 1 .. n} \cup {e}
<1>1. f \in Seq(S) /\ Len(f) = n
  OBVIOUS
<1> HIDE DEF S
<1> QED BY <1>1

(* The work of one command more.                                            *)
LEMMA WorkNext ==
  ASSUME NEW p, NEW cmds, Len(cmds) \in Nat, DOMAIN cmds = 1 .. Len(cmds),
         NEW k \in 1 .. Len(cmds)
  PROVE  /\ k \notin WorkedIn(cmds) => WorkUpTo(p, cmds, k) = WorkUpTo(p, cmds, k - 1)
         /\ k \in WorkedIn(cmds) =>
              WorkUpTo(p, cmds, k) =
                Append(WorkUpTo(p, cmds, k - 1), CommandWork(p, cmds, k))
<1> DEFINE n == OrdinalIn(cmds, k - 1)
           f == WorkUpTo(p, cmds, k - 1)
<1>1. n \in Nat
  <2>1. k - 1 \in Nat
    OBVIOUS
  <2> QED BY <2>1, OrdinalType
<1>2. OrdinalIn(cmds, k) = n + (IF k \in WorkedIn(cmds) THEN 1 ELSE 0)
  BY OrdinalNext
<1>3. f = [m \in 1 .. n |-> CommandWork(p, cmds, Nth(cmds, m))]
  BY DEF WorkUpTo
<1>4. ASSUME k \in WorkedIn(cmds)
      PROVE  WorkUpTo(p, cmds, k) = Append(f, CommandWork(p, cmds, k))
  <2>1. OrdinalIn(cmds, k) = n + 1
    BY <1>2, <1>4
  <2>2. Nth(cmds, n + 1) = k
    BY <2>1, <1>4, NthIs
  <2> HIDE DEF n, f
  <2>3. f = [m \in 1 .. n |-> f[m]]
    BY <1>3
  <2>4. Append(f, CommandWork(p, cmds, k)) =
          [m \in 1 .. n + 1 |-> IF m = n + 1 THEN CommandWork(p, cmds, k) ELSE f[m]]
    BY <1>1, <2>3, Appended
  <2>5. WorkUpTo(p, cmds, k) = [m \in 1 .. n + 1 |-> CommandWork(p, cmds, Nth(cmds, m))]
    BY <2>1 DEF WorkUpTo
  <2>6. \A m \in 1 .. n + 1 :
          CommandWork(p, cmds, Nth(cmds, m)) =
            IF m = n + 1 THEN CommandWork(p, cmds, k) ELSE f[m]
    BY <1>1, <1>3, <2>2
  <2> QED BY <2>4, <2>5, <2>6
<1>5. k \notin WorkedIn(cmds) => WorkUpTo(p, cmds, k) = f
  BY <1>1, <1>2 DEF WorkUpTo
<1> QED BY <1>4, <1>5
-----------------------------------------------------------------------------
(* What is encoded                                                         *)

EncodingIs(v, i, g, w) == encoding = [vb |-> v, ib |-> i, groups |-> g, work |-> w]

(* Of what the list has asked for so far, the encoder has the buffers set   *)
(* last, the cache the bindings made last, and the work is what it says.    *)
Told ==
  cursor > 0 =>
    /\ Complete(list)
    /\ EncodingIs(encoding.vb, encoding.ib, encoding.groups, encoding.work)
    /\ Ops(list, cursor, "vb") # {} => encoding.vb = LatestOp(list, cursor, "vb").res
    /\ Ops(list, cursor, "ib") # {} => encoding.ib = LatestOp(list, cursor, "ib").res
    /\ encoding.work = WorkUpTo(pass, list, cursor - 1)

BindingTold(i, j) ==
  LET b == LatestBinding(list, cursor, i, j) IN
  cache[pass].sets[i][j] = [set |-> i, slot |-> j, res |-> b.res, offset |-> b.offset]

SlotsTold ==
  cursor > 0 =>
    \A i \in DOMAIN Layout[pass] : \A j \in DOMAIN Layout[pass][i] :
      Bindings(list, cursor, i, j) # {} => BindingTold(i, j)

LEMMA Counted ==
  ASSUME IInv, cursor \in DOMAIN list
  PROVE  /\ Len(list) \in Nat /\ DOMAIN list = 1 .. Len(list)
         /\ cursor \in 1 .. Len(list) /\ cursor \in Nat \ {0}
         /\ (cursor + 1) - 1 = cursor /\ cursor > 0 /\ cursor + 1 > 0
         /\ command = list[cursor]
<1>1. list \in Seq(Command(Fixed \cup live)) /\ cursor \in 1 .. Len(list) /\ command = list[cursor]
  BY CommandTaken
<1> QED BY <1>1

(* A command that is neither work nor sets a buffer.                        *)
LEMMA TellsNothing ==
  ASSUME IInv, Told, cursor \in DOMAIN list, Advance, encoding' = encoding,
         command.op \notin {"vb", "ib", "draw", "copy"}
  PROVE  Told'
<1>1. pass' = pass /\ list' = list /\ cursor' = cursor + 1
  BY DEF Advance, pass, list
<1>2. /\ Ops(list, cursor + 1, "vb") = Ops(list, cursor, "vb")
      /\ Ops(list, cursor + 1, "ib") = Ops(list, cursor, "ib")
  BY Counted, OpsNext
<1>3. cursor \notin WorkedIn(list)
  BY Counted DEF WorkedIn
<1>4. WorkUpTo(pass, list, cursor) = WorkUpTo(pass, list, cursor - 1)
  BY <1>3, Counted, WorkNext
<1> QED BY <1>1, <1>2, <1>4, Counted DEF Told, EncodingIs, LatestOp

(* A command that binds nothing.                                            *)
LEMMA BindsNothing ==
  ASSUME IInv, SlotsTold, cursor \in DOMAIN list, Advance, command.op # "bind",
         cache'[pass].sets = cache[pass].sets
  PROVE  SlotsTold'
<1>1. pass' = pass /\ list' = list /\ cursor' = cursor + 1
  BY DEF Advance, pass, list
<1>2. \A i, j : Bindings(list, cursor + 1, i, j) = Bindings(list, cursor, i, j)
  BY Counted, BindingsNext DEF IsBinding
<1> QED BY <1>1, <1>2, Counted DEF SlotsTold, BindingTold, LatestBinding

LEMMA EnqueueTells ==
  ASSUME IInv, NEW cmds \in Seq(Command(Resource)), Complete(cmds), Enqueue(cmds)
  PROVE  Told' /\ SlotsTold'
<1>1. pass \in Passes /\ pass' = pass /\ cursor' = 1 /\ encoding' = NoEncoding
  BY PassIsPass DEF IInv, Typed, Enqueue, pass
<1>2. list' = cmds
  BY <1>1 DEF list, Enqueue, IInv, Typed
<1>3. \A o : Ops(cmds, 1, o) = {}
  BY DEF Ops
<1>4. \A i, j : Bindings(cmds, 1, i, j) = {}
  BY DEF Bindings
<1>5. WorkUpTo(pass, cmds, 0) = <<>>
  <2>1. {j \in WorkedIn(cmds) : j <= 0} = {}
    BY DEF WorkedIn
  <2>2. OrdinalIn(cmds, 0) = 0
    BY <2>1, FS_EmptySet DEF OrdinalIn
  <2> QED BY <2>2 DEF WorkUpTo
<1>6. Told'
  BY <1>1, <1>2, <1>3, <1>5 DEF Told, EncodingIs, NoEncoding
<1>7. SlotsTold'
  BY <1>1, <1>2, <1>4 DEF SlotsTold
<1> QED BY <1>6, <1>7

(* A render pass begins with no buffers set, and none had been.             *)
LEMMA BeginTells ==
  ASSUME IInv, Told, SlotsTold, BeginRenderPass PROVE Told' /\ SlotsTold'
<1>1. /\ cursor \in DOMAIN list /\ command.op = "begin" /\ Advance
      /\ encoding' = [NoEncoding EXCEPT !.work = encoding.work]
      /\ cache' = [cache EXCEPT ![pass].pipeline = TRUE, ![pass].encoder = "open"]
  BY DEF BeginRenderPass, At
<1>2. pass' = pass /\ list' = list /\ cursor' = cursor + 1
  BY <1>1 DEF Advance, pass, list
<1>3. /\ ~Begun(list, cursor)
      /\ \A k \in DOMAIN list : list[k].op \in {"begin", "copy"} \/ Begun(list, k)
  BY <1>1, CommandTaken DEF WellFormed
<1>4. \A o \in {"vb", "ib"} : Ops(list, cursor + 1, o) = {}
  <2> TAKE o \in {"vb", "ib"}
  <2>1. ASSUME NEW m \in Ops(list, cursor, o) PROVE FALSE
    <3>1. m \in 1 .. cursor - 1 /\ m \in DOMAIN list /\ list[m].op = o
      BY <2>1, <1>1, Counted DEF Ops
    <3>2. Begun(list, m)
      BY <3>1, <1>3
    <3> QED BY <3>1, <3>2, <1>1, <1>3, Counted DEF Begun
  <2>2. Ops(list, cursor + 1, o) = Ops(list, cursor, o)
    BY <1>1, Counted, OpsNext
  <2> QED BY <2>1, <2>2
<1>5. cursor \notin WorkedIn(list)
  BY <1>1, Counted DEF WorkedIn
<1>6. WorkUpTo(pass, list, cursor) = WorkUpTo(pass, list, cursor - 1)
  BY <1>1, <1>5, Counted, WorkNext
<1>7. encoding' = [vb |-> Null, ib |-> Null, groups |-> <<>>, work |-> encoding.work]
  BY <1>1 DEF NoEncoding
<1>8. Told'
  BY <1>1, <1>2, <1>4, <1>6, <1>7, Counted DEF Told, EncodingIs
<1>9. cache'[pass].sets = cache[pass].sets
  BY <1>1, CommandTaken DEF IInv, Typed, Cache
<1>10. SlotsTold'
  BY <1>1, <1>9, BindsNothing
<1> QED BY <1>8, <1>10

LEMMA EndTells ==
  ASSUME IInv, Told, SlotsTold, EndRenderPass PROVE Told' /\ SlotsTold'
<1>1. /\ cursor \in DOMAIN list /\ command.op = "end" /\ Advance /\ encoding' = encoding
      /\ cache' = [cache EXCEPT ![pass].encoder = "ended"]
  BY DEF EndRenderPass, At
<1>2. cache'[pass].sets = cache[pass].sets
  BY <1>1, CommandTaken DEF IInv, Typed, Cache
<1> QED BY <1>1, <1>2, TellsNothing, BindsNothing

LEMMA SetVBTells ==
  ASSUME IInv, Told, SlotsTold, SetVB PROVE Told' /\ SlotsTold'
<1>1. /\ cursor \in DOMAIN list /\ command.op = "vb" /\ Advance /\ cache' = cache
      /\ encoding' = [encoding EXCEPT !.vb = command.res]
  BY DEF SetVB, At
<1>2. pass' = pass /\ list' = list /\ cursor' = cursor + 1
  BY <1>1 DEF Advance, pass, list
<1>3. /\ Latest(Ops(list, cursor + 1, "vb")) = cursor
      /\ Ops(list, cursor + 1, "ib") = Ops(list, cursor, "ib")
  BY <1>1, Counted, OpsNext
<1>4. cursor \notin WorkedIn(list)
  BY <1>1, Counted DEF WorkedIn
<1>5. WorkUpTo(pass, list, cursor) = WorkUpTo(pass, list, cursor - 1)
  BY <1>1, <1>4, Counted, WorkNext
<1>6. EncodingIs(encoding.vb, encoding.ib, encoding.groups, encoding.work)
  BY <1>1, Counted DEF Told
<1>7. encoding' = [vb |-> command.res, ib |-> encoding.ib,
                   groups |-> encoding.groups, work |-> encoding.work]
  BY <1>1, <1>6 DEF EncodingIs
<1>8. Told'
  BY <1>1, <1>2, <1>3, <1>5, <1>7, Counted DEF Told, EncodingIs, LatestOp
<1>9. SlotsTold'
  BY <1>1, BindsNothing
<1> QED BY <1>8, <1>9

LEMMA SetIBTells ==
  ASSUME IInv, Told, SlotsTold, SetIB PROVE Told' /\ SlotsTold'
<1>1. /\ cursor \in DOMAIN list /\ command.op = "ib" /\ Advance /\ cache' = cache
      /\ encoding' = [encoding EXCEPT !.ib = command.res]
  BY DEF SetIB, At
<1>2. pass' = pass /\ list' = list /\ cursor' = cursor + 1
  BY <1>1 DEF Advance, pass, list
<1>3. /\ Latest(Ops(list, cursor + 1, "ib")) = cursor
      /\ Ops(list, cursor + 1, "vb") = Ops(list, cursor, "vb")
  BY <1>1, Counted, OpsNext
<1>4. cursor \notin WorkedIn(list)
  BY <1>1, Counted DEF WorkedIn
<1>5. WorkUpTo(pass, list, cursor) = WorkUpTo(pass, list, cursor - 1)
  BY <1>1, <1>4, Counted, WorkNext
<1>6. EncodingIs(encoding.vb, encoding.ib, encoding.groups, encoding.work)
  BY <1>1, Counted DEF Told
<1>7. encoding' = [vb |-> encoding.vb, ib |-> command.res,
                   groups |-> encoding.groups, work |-> encoding.work]
  BY <1>1, <1>6 DEF EncodingIs
<1>8. Told'
  BY <1>1, <1>2, <1>3, <1>5, <1>7, Counted DEF Told, EncodingIs, LatestOp
<1>9. SlotsTold'
  BY <1>1, BindsNothing
<1> QED BY <1>8, <1>9

LEMMA UpdateBindingTells ==
  ASSUME IInv, Told, SlotsTold, UpdateBinding PROVE Told' /\ SlotsTold'
<1>1. cursor \in DOMAIN list /\ command.op = "bind" /\ Advance /\ encoding' = encoding
  BY DEF UpdateBinding, At
<1>2. pass' = pass /\ list' = list /\ cursor' = cursor + 1
  BY <1>1 DEF Advance, pass, list
<1>3. Told'
  BY <1>1, TellsNothing
<1>4. ASSUME NEW i \in DOMAIN Layout[pass], NEW j \in DOMAIN Layout[pass][i],
             Bindings(list, cursor + 1, i, j) # {}
      PROVE  BindingTold(i, j)'
  <2>1. CASE i = command.set /\ j = command.slot
    <3>1. IsBinding(list[cursor], i, j)
      BY <2>1, <1>1, Counted DEF IsBinding
    <3>2. LatestBinding(list, cursor + 1, i, j) = command
      BY <3>1, <1>1, Counted, BindingsNext DEF LatestBinding
    <3>3. cache'[pass].sets[i][j] =
            [set |-> i, slot |-> j, res |-> command.res, offset |-> command.offset]
      BY <2>1, <1>4, UpdateBindingGood
    <3> QED BY <3>2, <3>3, <1>2 DEF BindingTold
  <2>2. CASE ~(i = command.set /\ j = command.slot)
    <3>1. ~IsBinding(list[cursor], i, j)
      BY <2>2, <1>1, Counted DEF IsBinding
    <3>2. Bindings(list, cursor + 1, i, j) = Bindings(list, cursor, i, j)
      BY <3>1, <1>1, Counted, BindingsNext
    <3>3. PICK m \in 1 .. cursor - 1 : IsBinding(list[m], i, j)
      BY <3>2, <1>4 DEF Bindings
    <3>4. cache[pass].sets # <<>>
      BY <3>3, <1>1, Counted DEF IInv, BoundGood, IsBinding
    <3>5. cache'[pass].sets[i][j] = cache[pass].sets[i][j]
      BY <3>4, <2>2, <1>4, UpdateBindingGood
    <3>6. BindingTold(i, j)
      BY <3>2, <1>1, <1>4, Counted DEF SlotsTold
    <3> QED BY <3>2, <3>5, <3>6, <1>2 DEF BindingTold, LatestBinding
  <2> QED BY <2>1, <2>2
<1>5. SlotsTold'
  BY <1>2, <1>4 DEF SlotsTold
<1> QED BY <1>3, <1>5

(* A command that is work adds what it says.                                *)
LEMMA Works ==
  ASSUME IInv, Told, cursor \in DOMAIN list, Advance, command.op \in {"draw", "copy"},
         NEW g,
         encoding' = [vb |-> encoding.vb, ib |-> encoding.ib, groups |-> g,
                      work |-> Append(encoding.work, CommandWork(pass, list, cursor))]
  PROVE  Told'
<1>1. pass' = pass /\ list' = list /\ cursor' = cursor + 1
  BY DEF Advance, pass, list
<1>2. /\ Ops(list, cursor + 1, "vb") = Ops(list, cursor, "vb")
      /\ Ops(list, cursor + 1, "ib") = Ops(list, cursor, "ib")
  BY Counted, OpsNext
<1>3. cursor \in WorkedIn(list)
  BY Counted DEF WorkedIn
<1>4. WorkUpTo(pass, list, cursor) =
        Append(WorkUpTo(pass, list, cursor - 1), CommandWork(pass, list, cursor))
  BY <1>3, Counted, WorkNext
<1> QED BY <1>1, <1>2, <1>4, Counted DEF Told, EncodingIs, LatestOp

LEMMA CopyTells ==
  ASSUME IInv, Told, SlotsTold, Copy PROVE Told' /\ SlotsTold'
<1>1. /\ cursor \in DOMAIN list /\ command.op = "copy" /\ Advance /\ cache' = cache
      /\ encoding' = [encoding EXCEPT
            !.work = Append(@, [src |-> command.src, dst |-> command.dst])]
  BY DEF Copy, At
<1>2. EncodingIs(encoding.vb, encoding.ib, encoding.groups, encoding.work)
  BY <1>1, Counted DEF Told
<1>3. CommandWork(pass, list, cursor) = [src |-> command.src, dst |-> command.dst]
  BY <1>1, Counted DEF CommandWork
<1>4. encoding' = [vb |-> encoding.vb, ib |-> encoding.ib, groups |-> encoding.groups,
                   work |-> Append(encoding.work, CommandWork(pass, list, cursor))]
  BY <1>1, <1>2, <1>3 DEF EncodingIs
<1> QED BY <1>1, <1>4, Works, BindsNothing

LEMMA DrawTells ==
  ASSUME IInv, Told, SlotsTold, Draw PROVE Told' /\ SlotsTold'
<1> DEFINE sets == cache[pass].sets
           tables == Layout[pass]
           groups == [i \in DOMAIN sets |-> Entries(sets[i])]
           offsets == [i \in DOMAIN tables |-> Offsets(sets[i], tables[i])]
<1>1. cursor \in DOMAIN list /\ command.op = "draw" /\ Advance
  BY DEF Draw, At
<1>2. fault' = {}
  BY DrawGood DEF IInv
<1>3. /\ cache' = [cache EXCEPT ![pass].groups = groups]
      /\ encoding' = [encoding EXCEPT !.groups = groups,
            !.work = Append(@, [vb |-> encoding.vb, ib |-> encoding.ib,
                                groups |-> groups, offsets |-> offsets])]
  BY <1>2 DEF Draw
<1>4. EncodingIs(encoding.vb, encoding.ib, encoding.groups, encoding.work)
  BY <1>1, Counted DEF Told
<1>5. WellFormed(pass, list) /\ Complete(list)
  BY <1>1, CommandTaken, Counted DEF Told
<1>6. /\ encoding.vb = LatestOp(list, cursor, "vb").res
      /\ encoding.ib = LatestOp(list, cursor, "ib").res
  <2>1. Ops(list, cursor, "vb") # {} /\ Ops(list, cursor, "ib") # {}
    BY <1>1, <1>5, Counted DEF Complete, Ops
  <2> QED BY <2>1, <1>1, Counted DEF Told
<1>7. \A i \in DOMAIN tables : \A j \in DOMAIN tables[i] : BindingTold(i, j)
  <2> TAKE i \in DOMAIN tables
  <2> TAKE j \in DOMAIN tables[i]
  <2>1. PICK m \in 1 .. cursor - 1 : IsBinding(list[m], i, j)
    BY <1>1, <1>5, Counted DEF WellFormed
  <2>2. Bindings(list, cursor, i, j) # {}
    BY <2>1 DEF Bindings
  <2> QED BY <2>2, <1>1, Counted DEF SlotsTold
<1>8. groups = [i \in DOMAIN tables |->
                  [j \in DOMAIN tables[i] |-> LatestBinding(list, cursor, i, j).res]]
  <2>1. \A i \in DOMAIN tables : \A j \in DOMAIN tables[i] :
          sets[i][j].res = LatestBinding(list, cursor, i, j).res
    <3> TAKE i \in DOMAIN tables
    <3> TAKE j \in DOMAIN tables[i]
    <3>1. BindingTold(i, j)
      BY <1>7
    <3>2. sets[i][j] = [set |-> i, slot |-> j,
                        res |-> LatestBinding(list, cursor, i, j).res,
                        offset |-> LatestBinding(list, cursor, i, j).offset]
      BY <3>1, Zenon DEF BindingTold
    <3> QED BY <3>2
  <2>2. /\ DOMAIN sets = DOMAIN tables
        /\ \A i \in DOMAIN tables : Entries(sets[i]) = [j \in DOMAIN tables[i] |-> sets[i][j].res]
    BY DrawGood
  <2> HIDE DEF sets, tables
  <2>3. \A i \in DOMAIN tables :
          Entries(sets[i]) = [j \in DOMAIN tables[i] |-> LatestBinding(list, cursor, i, j).res]
    BY <2>1, <2>2
  <2> QED BY <2>2, <2>3
<1>9. offsets = [i \in DOMAIN tables |->
                   [j \in {n \in DOMAIN tables[i] : tables[i][n] = "uniform"} |->
                      LatestBinding(list, cursor, i, j).offset]]
  <2>1. \A i \in DOMAIN tables : \A j \in DOMAIN tables[i] :
          sets[i][j].offset = LatestBinding(list, cursor, i, j).offset
    <3> TAKE i \in DOMAIN tables
    <3> TAKE j \in DOMAIN tables[i]
    <3>1. BindingTold(i, j)
      BY <1>7
    <3>2. sets[i][j] = [set |-> i, slot |-> j,
                        res |-> LatestBinding(list, cursor, i, j).res,
                        offset |-> LatestBinding(list, cursor, i, j).offset]
      BY <3>1, Zenon DEF BindingTold
    <3> QED BY <3>2
  <2> HIDE DEF sets, tables
  <2>2. \A i \in DOMAIN tables :
          Offsets(sets[i], tables[i]) =
            [j \in {n \in DOMAIN tables[i] : tables[i][n] = "uniform"} |->
               LatestBinding(list, cursor, i, j).offset]
    BY <2>1 DEF Offsets
  <2> QED BY <2>2
<1>10. CommandWork(pass, list, cursor) =
         [vb |-> encoding.vb, ib |-> encoding.ib, groups |-> groups, offsets |-> offsets]
  <2>1. CommandWork(pass, list, cursor) = DrawWork(pass, list, cursor)
    BY <1>1, Counted DEF CommandWork
  <2> HIDE DEF groups, offsets
  <2> QED BY <2>1, <1>6, <1>8, <1>9 DEF DrawWork
<1> HIDE DEF groups, offsets
<1>11. encoding' = [vb |-> encoding.vb, ib |-> encoding.ib, groups |-> groups,
                    work |-> Append(encoding.work, CommandWork(pass, list, cursor))]
  BY <1>3, <1>4, <1>10 DEF EncodingIs
<1>12. cache'[pass].sets = cache[pass].sets
  BY <1>1, <1>3, CommandTaken DEF IInv, Typed, Cache
<1> QED BY <1>1, <1>11, <1>12, Works, BindsNothing
-----------------------------------------------------------------------------
(* The theorem                                                             *)

SceneComplete == \A cmds \in SceneLists : Complete(cmds)

LEMMA RecordTells ==
  ASSUME SceneComplete, IInv, RecordScene \/ RecordNothing \/ RecordUi
  PROVE  Told' /\ SlotsTold'
<1>1. pass \in Passes
  BY PassIsPass DEF IInv, Typed
<1>2. CASE RecordScene
  <2>1. PICK cmds \in SceneLists : Enqueue(cmds)
    BY <1>2 DEF RecordScene
  <2>2. cmds \in Seq(Command(Fixed)) /\ Complete(cmds)
    BY SceneAssumption DEF SceneComplete
  <2>3. Command(Fixed) \subseteq Command(Resource)
    BY CommandsGrow DEF Resource
  <2>4. cmds \in Seq(Command(Resource))
    BY <2>2, <2>3, SeqGrows
  <2> QED BY <2>1, <2>2, <2>4, EnqueueTells
<1>3. ASSUME Enqueue(<<>>) PROVE Told' /\ SlotsTold'
  <2>1. <<>> \in Seq(Command(Resource)) /\ Complete(<<>>)
    BY NothingGood
  <2> QED BY <2>1, <1>3, EnqueueTells
<1>4. CASE RecordNothing
  BY <1>3, <1>4 DEF RecordNothing
<1>5. CASE RecordUi
  <2>1. CASE Enqueue(<<>>)
    BY <2>1, <1>3
  <2>2. CASE \E draws \in 0 .. MaxUiDraws : Enqueue(UiList(draws))
    <3>1. PICK draws \in 0 .. MaxUiDraws : Enqueue(UiList(draws))
      BY <2>2
    <3>2. PICK v \in Handles, i \in Handles : imgui' = [vertex |-> v, index |-> i]
      BY <1>5 DEF RecordUi
    <3>3. /\ imgui'.vertex \in Resource /\ imgui'.index \in Resource
          /\ Fixed \subseteq Resource
      BY <3>2 DEF Resource
    <3>4. "imgui" \in Passes
      BY <1>1, <1>5 DEF RecordUi
    <3>5. UiList(draws) \in Seq(Command(Resource)) /\ Complete(UiList(draws))
      BY <3>3, <3>4, UiListGood
    <3> QED BY <3>1, <3>5, EnqueueTells
  <2> QED BY <1>5, <2>1, <2>2 DEF RecordUi
<1> QED BY <1>2, <1>4, <1>5

LEMMA FinishTells ==
  ASSUME IInv, Told, Finish PROVE submitted' = Work /\ cursor' = 0
<1> DEFINE encoder == cache[pass].encoder
<1>1. /\ cursor = Len(list) + 1 /\ cursor' = 0
      /\ submitted' = IF encoder = Null THEN <<>> ELSE encoding.work
  BY Zenon DEF Finish
<1>2. pass \in Passes /\ list \in Seq(Command(Resource))
  BY PassIsPass DEF IInv, Typed, list
<1>3. Len(list) \in Nat /\ DOMAIN list = 1 .. Len(list) /\ cursor > 0 /\ cursor - 1 = Len(list)
  BY <1>1, <1>2
<1>4. {j \in WorkedIn(list) : j <= Len(list)} = WorkedIn(list)
  BY <1>3 DEF WorkedIn
<1>5. WorkUpTo(pass, list, Len(list)) = Work
  BY <1>4, WorkIs DEF WorkUpTo, OrdinalIn
<1>6. encoding.work = Work /\ Complete(list) /\ WellFormed(pass, list)
  BY <1>3, <1>5 DEF Told, IInv, ListGood
<1>7. encoder = Null => Work = <<>>
  <2> SUFFICES ASSUME encoder = Null PROVE Work = <<>>
    OBVIOUS
  <2>1. \A m \in DOMAIN list : list[m].op # "begin"
    BY <1>1, <1>3 DEF IInv, EncoderOwned, Begun
  <2>2. \A k \in DOMAIN list : ~Begun(list, k)
    BY <2>1, <1>3 DEF Begun
  <2>3. WorkedIn(list) = {}
    BY <2>1, <2>2, <1>6 DEF WorkedIn, WellFormed, Complete
  <2>4. Cardinality(WorkedIn(list)) = 0
    BY <2>3, FS_EmptySet
  <2> QED BY <2>4, WorkIs
<1> QED BY <1>1, <1>6, <1>7

(* "execute a command buffer": what the queue receives is the copies and    *)
(* draws of the list, in order, each draw with the buffers set last and in  *)
(* every slot the resource bound last, whatever the frames before left in   *)
(* the cache.                                                               *)
THEOREM ListsAreExecuted == ASSUME SceneComplete PROVE Spec => ExecutesList
<1> DEFINE Inv == IInv /\ Told /\ SlotsTold
<1>1. Init => Inv
  BY InitGood DEF Init, Told, SlotsTold
<1>2. Inv /\ [Next]_vars => Inv'
  <2> SUFFICES ASSUME IInv, Told, SlotsTold, [Next]_vars
               PROVE  IInv' /\ Told' /\ SlotsTold'
    OBVIOUS
  <2>1. CASE RecordScene
    BY <2>1, RecordSceneGood, RecordTells
  <2>2. CASE RecordNothing
    BY <2>2, RecordNothingGood, RecordTells
  <2>3. CASE RecordUi
    BY <2>3, RecordUiGood, RecordTells
  <2>4. CASE BeginRenderPass
    BY <2>4, BeginRenderPassGood, BeginTells
  <2>5. CASE UpdateBinding
    BY <2>5, UpdateBindingGood, UpdateBindingTells
  <2>6. CASE SetVB
    BY <2>6, SetVBGood, SetVBTells
  <2>7. CASE SetIB
    BY <2>7, SetIBGood, SetIBTells
  <2>8. CASE Draw
    BY <2>8, DrawGood, DrawTells
  <2>9. CASE EndRenderPass
    BY <2>9, EndRenderPassGood, EndTells
  <2>10. CASE Copy
    BY <2>10, CopyGood, CopyTells
  <2>11. CASE Finish
    BY <2>11, FinishGood, FinishTells DEF Told, SlotsTold
  <2>12. CASE UNCHANGED vars
    <3>1. UNCHANGED <<pass, list, cursor, cache, encoding>>
      BY <2>12 DEF vars, pass, list
    <3>2. IInv'
      BY <2>12, StutterGood
    <3>3. Told' /\ SlotsTold'
      BY <3>1 DEF Told, SlotsTold, EncodingIs, BindingTold
    <3> QED BY <3>2, <3>3
  <2> QED BY <2>1, <2>2, <2>3, <2>4, <2>5, <2>6, <2>7, <2>8, <2>9, <2>10, <2>11, <2>12
          DEF Next
<1>3. Inv /\ [Next]_vars => [Finish => submitted' = Work]_vars
  BY FinishTells
<1> QED BY <1>1, <1>2, <1>3, PTL DEF Spec, ExecutesList
=============================================================================
