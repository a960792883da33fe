-------------------------- MODULE WebGpuFrame_proofs --------------------------
(***************************************************************************)
(* Proofs about WebGpuFrame: for any passes in a frame, any binding layout *)
(* and any lists that are WellFormed.  No command faults, and nothing the  *)
(* device makes piles up from frame to frame.                              *)
(***************************************************************************)
EXTENDS WebGpuFrame, FiniteSetTheorems, TLAPS

Binding == [set : Nat, slot : Nat, res : Resource, offset : Nat]

(* A bind group, or the null pointer.                                       *)
Group == {Null} \cup UNION {[S -> Resource] : S \in SUBSET Nat}

Cache == [sets : Seq(Seq(Binding)), groups : Seq(Group),
          pipeline : BOOLEAN, encoder : {Null, "open", "ended"}]

Typed ==
  /\ at \in DOMAIN Frame
  /\ commands \in [Passes -> Seq(Command(Resource))]
  /\ cursor \in 0 .. Len(list) + 1
  /\ memory \in [Passes -> Nat]
  /\ imgui \in [vertex : Handles \cup {Null}, index : Handles \cup {Null}]
  /\ live \subseteq Handles
  /\ cache \in [Passes -> Cache]
  /\ held \in [encoders : Nat, passes : Nat, views : Nat, groups : Nat]

(* While a list is executed, what it names exists: buffers are destroyed    *)
(* and made only while one is recorded.                                     *)
ListGood ==
  cursor > 0 =>
    list \in Seq(Command(Fixed \cup live)) /\ WellFormed(pass, list)

(* The pass encoder is that of this execution, and one that is open will be *)
(* ended.                                                                   *)
EncoderOwned ==
  /\ \A p \in Passes : p # pass \/ cursor = 0 => cache[p].encoder = Null
  /\ cursor > 0 /\ Begun(list, cursor) => cache[pass].pipeline = TRUE
  /\ cursor > 0 => (cache[pass].encoder # Null <=> Begun(list, cursor))
  /\ cache[pass].encoder = "open" =>
       \E m \in cursor .. Len(list) : list[m].op = "end"

HeldOnce ==
  /\ held.encoders = IF cursor = 0 THEN 0 ELSE 1
  /\ held.passes = IF cache[pass].encoder = Null THEN 0 ELSE 1
  /\ cursor = 0 => held.views = 0

(* The cached sets and bind groups have the sizes of the layout.            *)
Sized(p) ==
  \/ cache[p].sets = <<>> /\ cache[p].groups = <<>>
  \/ /\ DOMAIN cache[p].groups = DOMAIN Layout[p]
     /\ DOMAIN cache[p].sets = DOMAIN Layout[p]
     /\ \A i \in DOMAIN Layout[p] :
          DOMAIN cache[p].sets[i] = DOMAIN Layout[p][i]

(* A slot this list has bound holds what exists, under its own number.      *)
SlotGood(i, j) ==
  LET b == cache[pass].sets[i][j] IN b.slot = j /\ Resolves(b.res)

BoundGood ==
  cursor > 0 =>
    \A m \in 1 .. cursor - 1 : list[m].op = "bind" =>
      cache[pass].sets # <<>> /\ SlotGood(list[m].set, list[m].slot)

(* The bind groups the caches c name.                                       *)
Named(c) ==
  {g \in UNION {{p} \X DOMAIN c[p].groups : p \in Passes} :
     c[g[1]].groups[g[2]] # Null}

GroupsCounted ==
  IsFiniteSet(Named(cache)) /\ held.groups = Cardinality(Named(cache))

LiveHeld == live \subseteq {imgui.vertex, imgui.index}

IInv ==
  /\ Typed /\ fault = {}
  /\ ListGood
  /\ EncoderOwned
  /\ HeldOnce
  /\ \A p \in Passes : Sized(p)
  /\ BoundGood
  /\ GroupsCounted
  /\ LiveHeld
-----------------------------------------------------------------------------
(* The lists                                                               *)

LEMMA PassIsPass == ASSUME at \in DOMAIN Frame PROVE pass \in Passes
BY DEF pass, Passes

LEMMA CommandsGrow ==
  ASSUME NEW R, NEW S, R \subseteq S
  PROVE  Command(R) \subseteq Command(S)
BY DEF Command

LEMMA ConcatAt ==
  ASSUME NEW S, NEW s \in Seq(S), NEW t \in Seq(S)
  PROVE  /\ s \o t \in Seq(S) /\ Len(s \o t) = Len(s) + Len(t)
         /\ \A k \in 1 .. Len(s) : (s \o t)[k] = s[k]
         /\ \A k \in 1 .. Len(t) : (s \o t)[Len(s) + k] = t[k]
OBVIOUS

LEMMA SeqGrows ==
  ASSUME NEW S, NEW T, S \subseteq T, NEW s \in Seq(S)
  PROVE  s \in Seq(T)
OBVIOUS

(* A list all of whose work reaches the queue, with what the program asked  *)
(* for: one that copies begins a render pass, and a draw comes after vertex *)
(* and index buffers were set.                                              *)
Complete(cmds) ==
  \A k \in DOMAIN cmds :
    /\ cmds[k].op = "copy" => \E m \in DOMAIN cmds : cmds[m].op = "begin"
    /\ cmds[k].op = "draw" =>
         \A o \in {"vb", "ib"} : \E m \in 1 .. k - 1 : cmds[m].op = o

(* What the ImGui pass records, with its buffers among R.                   *)
LEMMA UiListGood ==
  ASSUME NEW R, Fixed \subseteq R, imgui'.vertex \in R, imgui'.index \in R,
         NEW draws \in 0 .. MaxUiDraws, "imgui" \in Passes
  PROVE  /\ UiList(draws) \in Seq(Command(R))
         /\ Len(UiList(draws)) <= Capacity
         /\ WellFormed("imgui", UiList(draws)) /\ Complete(UiList(draws))
<1> DEFINE D(k) == << [op |-> "vb", res |-> imgui'.vertex],
                      [op |-> "ib", res |-> imgui'.index], [op |-> "draw"] >>
           Drawn == [k \in 1 .. 3 * draws |-> D(k)[((k - 1) % 3) + 1]]
           first == <<[op |-> "begin"]>>
           last == <<[op |-> "end"]>>
           C == Command(R)
           n == Len(UiSetup)
<1>1. UiList(draws) = first \o UiSetup \o Drawn \o last
  BY DEF UiList
<1>2. draws \in Nat /\ draws <= MaxUiDraws /\ n \in Nat /\ n > 0 /\ UiSetup \in Seq(C)
      /\ Len(UiSetup) = n /\ DOMAIN UiSetup = 1 .. n
  BY UiAssumption, CommandsGrow
<1>3. \A k \in 1 .. 3 * draws :
        Drawn[k] \in C /\ Drawn[k].op \in {"vb", "ib", "draw"}
  <2> TAKE k \in 1 .. 3 * draws
  <2>1. ((k - 1) % 3) + 1 \in 1 .. 3
    BY <1>2
  <2>2. D(k)[1] \in C /\ D(k)[2] \in C /\ D(k)[3] \in C
    BY DEF Command
  <2>3. D(k)[1].op = "vb" /\ D(k)[2].op = "ib" /\ D(k)[3].op = "draw"
    OBVIOUS
  <2> HIDE DEF D
  <2> QED BY <2>1, <2>2, <2>3
<1>4. Drawn \in Seq(C) /\ Len(Drawn) = 3 * draws
  <2> HIDE DEF D
  <2> QED BY <1>2, <1>3
<1>5. first \in Seq(C) /\ last \in Seq(C) /\ Len(first) = 1 /\ Len(last) = 1
      /\ first[1].op = "begin" /\ last[1].op = "end"
  BY DEF Command
<1> DEFINE L == first \o UiSetup \o Drawn \o last
<1> HIDE DEF Drawn, first, last, C, n
<1>6. /\ L \in Seq(C) /\ Len(L) = n + 3 * draws + 2
      /\ L[1] = first[1]
      /\ \A k \in 1 .. n : L[k + 1] = UiSetup[k]
      /\ \A k \in 1 .. 3 * draws : L[k + n + 1] = Drawn[k]
      /\ L[n + 3 * draws + 2] = last[1]
  <2> DEFINE A == first \o UiSetup
             B == A \o Drawn
  <2>1. /\ A \in Seq(C) /\ Len(A) = n + 1 /\ A[1] = first[1]
        /\ \A k \in 1 .. n : A[1 + k] = UiSetup[k]
    <3>1. first \in Seq(C) /\ UiSetup \in Seq(C)
      BY <1>2, <1>5
    <3>2. /\ first \o UiSetup \in Seq(C)
          /\ Len(first \o UiSetup) = Len(first) + Len(UiSetup)
          /\ \A k \in 1 .. Len(first) : (first \o UiSetup)[k] = first[k]
          /\ \A k \in 1 .. Len(UiSetup) :
               (first \o UiSetup)[Len(first) + k] = UiSetup[k]
      BY <3>1, ConcatAt
    <3> QED BY <3>2, <1>2, <1>5
  <2> HIDE DEF A
  <2>2. /\ B \in Seq(C) /\ Len(B) = n + 1 + 3 * draws
        /\ \A k \in 1 .. n + 1 : B[k] = A[k]
        /\ \A k \in 1 .. 3 * draws : B[n + 1 + k] = Drawn[k]
    <3>1. A \in Seq(C) /\ Drawn \in Seq(C)
      BY <2>1, <1>4
    <3>2. /\ A \o Drawn \in Seq(C) /\ Len(A \o Drawn) = Len(A) + Len(Drawn)
          /\ \A k \in 1 .. Len(A) : (A \o Drawn)[k] = A[k]
          /\ \A k \in 1 .. Len(Drawn) : (A \o Drawn)[Len(A) + k] = Drawn[k]
      BY <3>1, ConcatAt
    <3> QED BY <2>1, <1>4, <3>2
  <2>3. B[1] = first[1] /\ \A k \in 1 .. n : B[1 + k] = UiSetup[k]
    BY <2>1, <2>2, <1>2
  <2> HIDE DEF B
  <2>4. /\ B \o last \in Seq(C) /\ Len(B \o last) = n + 3 * draws + 2
        /\ \A k \in 1 .. n + 1 + 3 * draws : (B \o last)[k] = B[k]
        /\ (B \o last)[n + 1 + 3 * draws + 1] = last[1]
    <3>1. /\ B \o last \in Seq(C) /\ Len(B \o last) = Len(B) + Len(last)
          /\ \A k \in 1 .. Len(B) : (B \o last)[k] = B[k]
          /\ \A k \in 1 .. Len(last) : (B \o last)[Len(B) + k] = last[k]
      <4>1. B \in Seq(C) /\ last \in Seq(C)
        BY <2>2, <1>5
      <4> QED BY <4>1, ConcatAt
    <3>2. 1 \in 1 .. Len(last) /\ Len(B) \in Nat /\ Len(last) = 1
      BY <2>2, <1>2, <1>5
    <3> QED BY <2>2, <1>2, <3>1, <3>2
  <2>5. L = B \o last
    BY DEF A, B
  <2>6. /\ 1 \in 1 .. n + 1 + 3 * draws
        /\ \A k \in 1 .. n : 1 + k \in 1 .. n + 1 + 3 * draws /\ 1 + k = k + 1
        /\ \A k \in 1 .. 3 * draws :
             n + 1 + k \in 1 .. n + 1 + 3 * draws /\ k + n + 1 = n + 1 + k
        /\ n + 1 + 3 * draws + 1 = n + 3 * draws + 2
    BY <1>2
  <2> HIDE DEF L
  <2> QED BY <2>2, <2>3, <2>4, <2>5, <2>6
<1> HIDE DEF L
<1> DEFINE end == n + 3 * draws + 2
<1>7. \A k \in 2 .. n + 1 : L[k] = UiSetup[k - 1]
  <2> TAKE k \in 2 .. n + 1
  <2> DEFINE h == k - 1
  <2>1. h \in 1 .. n /\ h + 1 = k
    BY <1>2
  <2> HIDE DEF h
  <2>2. L[h + 1] = UiSetup[h]
    BY <2>1, <1>6
  <2> QED BY <2>1, <2>2 DEF h
<1>8. \A k \in n + 2 .. end - 1 : L[k].op \in {"vb", "ib", "draw"}
  <2> TAKE k \in n + 2 .. end - 1
  <2>1. k - n - 1 \in 1 .. 3 * draws /\ (k - n - 1) + n + 1 = k
    BY <1>2
  <2> QED BY <2>1, <1>6, <1>3
<1>9. DOMAIN L = 1 .. end /\ end \in Nat /\ end >= 3 /\ L[1].op = "begin" /\ L[end].op = "end"
  BY <1>2, <1>5, <1>6
<1>10. \A k \in 2 .. n + 1 : L[k].op = "bind" /\ InLayout("imgui", L[k].set, L[k].slot)
  BY <1>2, <1>7, UiAssumption
<1>11. \A i \in DOMAIN Layout["imgui"] : \A j \in DOMAIN Layout["imgui"][i] :
         \E m \in 2 .. n + 1 : IsBinding(L[m], i, j)
  <2> TAKE i \in DOMAIN Layout["imgui"]
  <2> TAKE j \in DOMAIN Layout["imgui"][i]
  <2>1. PICK k \in DOMAIN UiSetup : IsBinding(UiSetup[k], i, j)
    BY UiAssumption
  <2>2. k + 1 \in 2 .. n + 1 /\ L[k + 1] = UiSetup[k]
    BY <1>2, <1>6
  <2> QED BY <2>1, <2>2
<1>12. WellFormed("imgui", L)
  <2> SUFFICES ASSUME NEW k \in DOMAIN L
               PROVE  /\ L[k].op \in {"begin", "copy"} \/ Begun(L, k)
                      /\ L[k].op = "begin" =>
                           ~Begun(L, k) /\ \E m \in k + 1 .. Len(L) : L[m].op = "end"
                      /\ L[k].op = "bind" => InLayout("imgui", L[k].set, L[k].slot)
                      /\ L[k].op = "draw" =>
                           /\ \E m \in 1 .. k - 1 : L[m].op = "bind"
                           /\ \A i \in DOMAIN Layout["imgui"] : \A j \in DOMAIN Layout["imgui"][i] :
                                \E m \in 1 .. k - 1 : IsBinding(L[m], i, j)
    BY Zenon DEF WellFormed
  <2>0. Len(L) = end
    BY <1>6
  <2>1. CASE k = 1
    <3>1. ~Begun(L, k)
      BY <2>1 DEF Begun
    <3>2. end \in k + 1 .. Len(L)
      BY <2>0, <2>1, <1>9
    <3> QED BY <2>1, <3>1, <3>2, <1>9
  <2>2. k > 1 => Begun(L, k)
    BY <1>9 DEF Begun
  <2>3. CASE k \in 2 .. n + 1
    BY <2>2, <2>3, <1>2, <1>10
  <2>4. CASE k \in n + 2 .. end - 1
    <3>1. \A m \in 2 .. n + 1 : m \in 1 .. k - 1
      BY <2>4, <1>2
    <3>2. 2 \in 2 .. n + 1 /\ k > 1
      BY <2>4, <1>2
    <3> QED BY <2>2, <2>4, <3>1, <3>2, <1>8, <1>10, <1>11
  <2>5. CASE k = end
    BY <2>2, <2>5, <1>9
  <2> QED BY <2>1, <2>3, <2>4, <2>5, <1>9, <1>2
<1>13. Complete(L)
  <2> SUFFICES ASSUME NEW k \in DOMAIN L
               PROVE  /\ \E m \in DOMAIN L : L[m].op = "begin"
                      /\ L[k].op = "draw" =>
                           \A o \in {"vb", "ib"} : \E m \in 1 .. k - 1 : L[m].op = o
    BY Zenon DEF Complete
  <2>1. 1 \in DOMAIN L /\ L[1].op = "begin"
    BY <1>9
  <2>2. ASSUME L[k].op = "draw"
        PROVE  \A o \in {"vb", "ib"} : \E m \in 1 .. k - 1 : L[m].op = o
    <3>1. k \in n + 2 .. end - 1
      BY <2>2, <1>2, <1>9, <1>10
    <3>2. 3 * draws >= 3
      BY <3>1, <1>2
    <3>3. Drawn[1].op = "vb" /\ Drawn[2].op = "ib"
      <4>1. 1 \in 1 .. 3 * draws /\ 2 \in 1 .. 3 * draws
        BY <3>2, <1>2
      <4>2. Drawn[1] = D(1)[1] /\ Drawn[2] = D(2)[2]
        BY <4>1 DEF Drawn
      <4> QED BY <4>2
    <3>4. L[n + 2] = Drawn[1] /\ L[n + 3] = Drawn[2]
      <4>1. /\ 1 \in 1 .. 3 * draws /\ 1 + n + 1 = n + 2
            /\ 2 \in 1 .. 3 * draws /\ 2 + n + 1 = n + 3
        BY <3>2, <1>2
      <4>2. L[1 + n + 1] = Drawn[1] /\ L[2 + n + 1] = Drawn[2]
        BY <4>1, <1>6
      <4> QED BY <4>1, <4>2
    <3>5. k # n + 2 /\ k # n + 3
      BY <2>2, <3>3, <3>4
    <3>6. n + 2 \in 1 .. k - 1 /\ n + 3 \in 1 .. k - 1
      BY <3>1, <3>5, <1>2
    <3> QED BY <3>3, <3>4, <3>6
  <2> QED BY <2>1, <2>2
<1> QED BY <1>1, <1>2, <1>6, <1>12, <1>13, UiAssumption DEF L, C, n

LEMMA NothingGood ==
  ASSUME NEW R, NEW q
  PROVE  /\ <<>> \in Seq(Command(R)) /\ Len(<<>>) <= Capacity
         /\ WellFormed(q, <<>>) /\ Complete(<<>>)
BY UiAssumption DEF WellFormed, Complete
-----------------------------------------------------------------------------
(* The bind groups                                                         *)

LEMMA NamedIs ==
  ASSUME NEW c, NEW g
  PROVE  g \in Named(c) <=>
           \E p \in Passes : \E i \in DOMAIN c[p].groups :
             g = <<p, i>> /\ c[p].groups[i] # Null
BY DEF Named

LEMMA NamedSame ==
  ASSUME NEW c, NEW d, \A p \in Passes : d[p].groups = c[p].groups
  PROVE  Named(d) = Named(c)
<1>1. \A g : g \in Named(d) <=> g \in Named(c)
  BY NamedIs
<1> QED BY <1>1

(* The bind groups of pass q, n in number, are all made again.              *)
AllRemade(c, d, q, n) ==
  /\ \A p \in Passes \ {q} : d[p].groups = c[p].groups
  /\ DOMAIN d[q].groups = 1 .. n /\ \A i \in 1 .. n : d[q].groups[i] # Null
  /\ IsFiniteSet(Named(c)) /\ DOMAIN c[q].groups \subseteq 1 .. n

LEMMA NamedRemade ==
  ASSUME NEW c, NEW d, NEW q \in Passes, NEW n \in Nat, AllRemade(c, d, q, n)
  PROVE  /\ IsFiniteSet(Named(d))
         /\ Released(c[q]) \in Nat /\ Cardinality(Named(c)) \in Nat
         /\ Released(c[q]) <= Cardinality(Named(c))
         /\ Cardinality(Named(d)) = Cardinality(Named(c)) + n - Released(c[q])
<1> DEFINE old == {i \in DOMAIN c[q].groups : c[q].groups[i] # Null}
           before == {q} \X old
           after == {q} \X (1 .. n)
<1>0. /\ \A p \in Passes \ {q} : d[p].groups = c[p].groups
      /\ DOMAIN d[q].groups = 1 .. n /\ \A i \in 1 .. n : d[q].groups[i] # Null
      /\ IsFiniteSet(Named(c)) /\ DOMAIN c[q].groups \subseteq 1 .. n
  BY DEF AllRemade
<1>1. /\ IsFiniteSet(1 .. n) /\ Cardinality(1 .. n) = n
      /\ IsFiniteSet(old) /\ Cardinality(old) <= n
  <2>1. IsFiniteSet(1 .. n) /\ Cardinality(1 .. n) = n
    <3>1. 1 \in Int /\ n \in Int
      OBVIOUS
    <3>2. /\ IsFiniteSet(1 .. n)
          /\ Cardinality(1 .. n) = IF 1 > n THEN 0 ELSE n - 1 + 1
      BY <3>1, FS_Interval
    <3> QED BY <3>2
  <2>2. old \in SUBSET (1 .. n)
    BY <1>0
  <2> QED BY <2>1, <2>2, FS_Subset
<1>2. IsFiniteSet({q}) /\ Cardinality({q}) = 1
  BY FS_Singleton
<1>3. /\ Cardinality(old) \in Nat
      /\ IsFiniteSet(before) /\ Cardinality(before) = Cardinality(old)
      /\ IsFiniteSet(after) /\ Cardinality(after) = n
  <2>1. Cardinality(old) \in Nat
    BY <1>1, FS_CardinalityType
  <2>2. IsFiniteSet(before) /\ Cardinality(before) = Cardinality({q}) * Cardinality(old)
    BY <1>1, <1>2, FS_Product
  <2>3. IsFiniteSet(after) /\ Cardinality(after) = Cardinality({q}) * Cardinality(1 .. n)
    BY <1>1, <1>2, FS_Product
  <2> QED BY <2>1, <2>2, <2>3, <1>1, <1>2
<1>4. \A g : g \in Named(d) <=> g \in (Named(c) \ before) \cup after
  <2> TAKE g
  <2>1. g \in Named(d) <=> \E p \in Passes : \E i \in DOMAIN d[p].groups :
          g = <<p, i>> /\ d[p].groups[i] # Null
    BY NamedIs
  <2>2. g \in Named(c) <=> \E p \in Passes : \E i \in DOMAIN c[p].groups :
          g = <<p, i>> /\ c[p].groups[i] # Null
    BY NamedIs
  <2> QED BY <1>0, <2>1, <2>2
<1>5. Named(d) = (Named(c) \ before) \cup after
  BY <1>4
<1>6. before \subseteq Named(c) /\ (Named(c) \ before) \cap after = {}
  <2>1. \A g : g \in Named(c) <=> \E p \in Passes : \E i \in DOMAIN c[p].groups :
          g = <<p, i>> /\ c[p].groups[i] # Null
    BY NamedIs
  <2> QED BY <2>1
<1> HIDE DEF before, after
<1>7. /\ IsFiniteSet(Named(c) \ before)
      /\ Cardinality(Named(c) \ before) = Cardinality(Named(c)) - Cardinality(before)
  <2>1. Named(c) \cap before = before
    BY <1>6
  <2> QED BY <1>0, <2>1, FS_Difference
<1>8. Cardinality(Named(c)) \in Nat
  BY <1>0, FS_CardinalityType
<1>9. /\ IsFiniteSet(Named(d))
      /\ Cardinality(Named(d)) = Cardinality(Named(c) \ before) + Cardinality(after)
                                - Cardinality((Named(c) \ before) \cap after)
  BY <1>3, <1>5, <1>7, FS_Union
<1>10. Cardinality((Named(c) \ before) \cap after) = 0
  BY <1>6, FS_EmptySet
<1>11. Cardinality(before) <= Cardinality(Named(c))
  BY <1>0, <1>6, FS_Subset
<1>12. Released(c[q]) = Cardinality(old)
  BY DEF Released
<1> HIDE DEF old
<1> QED BY <1>1, <1>3, <1>7, <1>8, <1>9, <1>10, <1>11, <1>12
-----------------------------------------------------------------------------
(* The invariant                                                           *)

LEMMA InitGood == Init => IInv
<1> SUFFICES ASSUME Init PROVE IInv
  OBVIOUS
<1>1. at \in DOMAIN Frame
  BY FrameAssumption DEF Init
<1>2. pass \in Passes /\ list = <<>>
  BY <1>1, PassIsPass DEF Init, list
<1>3. cache \in [Passes -> Cache]
  BY DEF Init, Cache, EmptyCache
<1>4. Typed
  BY <1>1, <1>2, <1>3 DEF Init, Typed
<1>5. Named(cache) = {}
  <2>1. \A p \in Passes : DOMAIN cache[p].groups = {}
    BY DEF Init, EmptyCache
  <2>2. \A g : g \notin Named(cache)
    BY <2>1, NamedIs
  <2> QED BY <2>2
<1>6. GroupsCounted
  BY <1>5, FS_EmptySet DEF Init, GroupsCounted
<1>7. \A p \in Passes :
        cache[p].sets = <<>> /\ cache[p].groups = <<>> /\ cache[p].encoder = Null
  BY DEF Init, EmptyCache
<1>8. EncoderOwned /\ HeldOnce
  BY <1>2, <1>7, NullAssumption DEF Init, EncoderOwned, HeldOnce
<1> QED BY <1>4, <1>6, <1>7, <1>8 DEF Init, IInv, ListGood, Sized, BoundGood, LiveHeld

LEMMA EnqueueGood ==
  ASSUME IInv, cursor = 0,
         NEW cmds \in Seq(Command(Fixed \cup live')), Len(cmds) <= Capacity,
         WellFormed(pass, cmds), Enqueue(cmds),
         imgui' \in [vertex : Handles \cup {Null}, index : Handles \cup {Null}],
         live' \subseteq Handles, live' \subseteq {imgui'.vertex, imgui'.index}
  PROVE  IInv'
<1>1. /\ pass \in Passes /\ pass' = pass /\ at' = at /\ at \in DOMAIN Frame
      /\ cache' = cache /\ cursor' = 1
      /\ cache \in [Passes -> Cache] /\ commands \in [Passes -> Seq(Command(Resource))]
  BY PassIsPass DEF IInv, Typed, Enqueue, pass
<1>2. list' = cmds
  BY <1>1 DEF list, Enqueue
<1>3. Len(cmds) \in Nat /\ fault' = {}
  BY UiAssumption DEF Enqueue, MemoryReset
<1>4. cmds \in Seq(Command(Resource))
  <2>1. Command(Fixed \cup live') \subseteq Command(Resource)
    BY CommandsGrow DEF Resource
  <2> QED BY <2>1, SeqGrows
<1>5. held' = [held EXCEPT !.encoders = @ + 1] /\ held.encoders = 0
  BY DEF IInv, HeldOnce, Enqueue
<1>6. Typed'
  <2>1. commands' \in [Passes -> Seq(Command(Resource))]
    BY <1>1, <1>4 DEF Enqueue
  <2>2. memory' \in [Passes -> Nat]
    BY <1>1, <1>3 DEF IInv, Typed, Enqueue, MemoryReset
  <2>3. held' \in [encoders : Nat, passes : Nat, views : Nat, groups : Nat]
    <3>1. held \in [encoders : Nat, passes : Nat, views : Nat, groups : Nat]
      BY DEF IInv, Typed
    <3> QED BY <3>1, <1>5
  <2> QED BY <2>1, <2>2, <2>3, <1>1, <1>2, <1>3 DEF Typed
<1>7. ListGood'
  BY <1>1, <1>2 DEF ListGood
<1>8. EncoderOwned' /\ HeldOnce'
  <2>1. \A p \in Passes : cache[p].encoder = Null
    BY DEF IInv, EncoderOwned
  <2>2. ~Begun(cmds, 1)
    BY DEF Begun
  <2>3. EncoderOwned'
    BY <2>1, <2>2, <1>1, <1>2, NullAssumption DEF EncoderOwned
  <2>4. HeldOnce'
    BY <2>1, <1>1, <1>5 DEF HeldOnce, IInv, Typed
  <2> QED BY <2>3, <2>4
<1>9. \A p \in Passes : Sized(p)'
  BY <1>1 DEF IInv, Sized
<1>10. BoundGood'
  BY <1>1 DEF BoundGood
<1>11. GroupsCounted'
  BY <1>1, <1>5 DEF IInv, GroupsCounted, Typed
<1> QED BY <1>3, <1>6, <1>7, <1>8, <1>9, <1>10, <1>11 DEF IInv, LiveHeld

(* What holds when a command is taken up, whichever it is.                  *)
LEMMA CommandTaken ==
  ASSUME IInv, cursor \in DOMAIN list
  PROVE  /\ pass \in Passes /\ Len(list) \in Nat /\ cursor \in 1 .. Len(list)
         /\ command \in Command(Fixed \cup live)
         /\ list \in Seq(Command(Fixed \cup live)) /\ WellFormed(pass, list)
         /\ command = list[cursor]
<1>1. pass \in Passes
  BY PassIsPass DEF IInv, Typed
<1>2. list \in Seq(Command(Resource))
  BY <1>1 DEF IInv, Typed, list
<1>3. cursor \in 1 .. Len(list) /\ Len(list) \in Nat
  BY <1>2
<1>4. list \in Seq(Command(Fixed \cup live)) /\ WellFormed(pass, list)
  BY <1>3 DEF IInv, ListGood
<1> QED BY <1>1, <1>3, <1>4 DEF command

LEMMA BegunNext ==
  ASSUME NEW cmds, NEW k \in Nat \ {0}
  PROVE  Begun(cmds, k + 1) <=> Begun(cmds, k) \/ cmds[k].op = "begin"
BY DEF Begun

(* What executing a command leaves as it is.                                *)
LEMMA AdvanceGood ==
  ASSUME IInv, cursor \in DOMAIN list, Advance, cache' \in [Passes -> Cache],
         held' \in [encoders : Nat, passes : Nat, views : Nat, groups : Nat]
  PROVE  /\ pass' = pass /\ list' = list /\ cursor' = cursor + 1
         /\ Typed' /\ ListGood' /\ LiveHeld'
<1>1. pass' = pass /\ list' = list /\ cursor' = cursor + 1
  BY DEF Advance, pass, list
<1>2. cursor \in 1 .. Len(list) /\ Len(list) \in Nat
  BY CommandTaken
<1>3. Typed'
  BY <1>1, <1>2 DEF IInv, Typed, Advance
<1>4. ListGood'
  BY <1>1, <1>2 DEF IInv, ListGood, Advance
<1>5. LiveHeld'
  BY DEF IInv, LiveHeld, Advance
<1> QED BY <1>1, <1>3, <1>4, <1>5

(* A command that neither begins nor ends a render pass.                    *)
LEMMA EncoderSame ==
  ASSUME IInv, cursor \in DOMAIN list, Advance,
         command.op \notin {"begin", "end"},
         \A p \in Passes : cache'[p].encoder = cache[p].encoder /\
                            cache'[p].pipeline = cache[p].pipeline,
         held'.encoders = held.encoders, held'.passes = held.passes
  PROVE  EncoderOwned' /\ HeldOnce'
<1>1. pass' = pass /\ list' = list /\ cursor' = cursor + 1
  BY DEF Advance, pass, list
<1>2. /\ pass \in Passes /\ cursor \in 1 .. Len(list) /\ Len(list) \in Nat
      /\ command = list[cursor]
  BY CommandTaken
<1>3. Begun(list, cursor + 1) <=> Begun(list, cursor)
  BY <1>2, BegunNext
<1>4. EncoderOwned /\ HeldOnce
  BY DEF IInv
<1>5. \A m \in cursor .. Len(list) : list[m].op = "end" => m \in cursor + 1 .. Len(list)
  BY <1>2
<1>6. EncoderOwned'
  BY <1>1, <1>2, <1>3, <1>4, <1>5 DEF EncoderOwned
<1>7. HeldOnce'
  BY <1>1, <1>2, <1>4 DEF HeldOnce
<1> QED BY <1>6, <1>7

(* A command that binds nothing.                                            *)
LEMMA BoundSame ==
  ASSUME IInv, cursor \in DOMAIN list, Advance, command.op # "bind",
         cache'[pass].sets = cache[pass].sets
  PROVE  BoundGood'
<1>1. pass' = pass /\ list' = list /\ cursor' = cursor + 1 /\ live' = live
  BY DEF Advance, pass, list
<1>2. cursor \in 1 .. Len(list) /\ Len(list) \in Nat /\ command = list[cursor]
  BY CommandTaken
<1>3. \A m \in 1 .. (cursor + 1) - 1 : list[m].op = "bind" => m \in 1 .. cursor - 1
  BY <1>2
<1>4. BoundGood
  BY DEF IInv
<1>5. \A i, j : SlotGood(i, j)' <=> SlotGood(i, j)
  BY <1>1 DEF SlotGood, Resolves
<1> QED BY <1>1, <1>2, <1>3, <1>4, <1>5 DEF BoundGood

LEMMA CountedSame ==
  ASSUME IInv, \A p \in Passes : cache'[p].groups = cache[p].groups,
         held'.groups = held.groups
  PROVE  GroupsCounted'
<1>1. Named(cache') = Named(cache)
  BY NamedSame
<1> QED BY <1>1 DEF IInv, GroupsCounted

(* A command after which the cache is the same.                             *)
LEMMA CacheSame ==
  ASSUME IInv, cursor \in DOMAIN list, Advance,
         command.op \notin {"begin", "end", "bind"},
         UNCHANGED <<cache, held>>, fault' = {}
  PROVE  IInv'
<1>1. Typed' /\ ListGood' /\ LiveHeld'
  BY AdvanceGood DEF IInv, Typed
<1>2. EncoderOwned' /\ HeldOnce'
  BY EncoderSame
<1>3. BoundGood'
  BY BoundSame
<1>4. GroupsCounted'
  BY CountedSame
<1>5. \A p \in Passes : Sized(p)'
  BY DEF IInv, Sized
<1> QED BY <1>1, <1>2, <1>3, <1>4, <1>5 DEF IInv

LEMMA SetVBGood == ASSUME IInv, SetVB PROVE IInv'
<1>1. /\ cursor \in DOMAIN list /\ command.op = "vb" /\ Advance
      /\ UNCHANGED <<cache, held>>
      /\ fault' = IF Resolves(command.res) THEN {} ELSE {"VB NOT FOUND"}
  BY DEF SetVB, At
<1>2. command \in Command(Fixed \cup live)
  BY <1>1, CommandTaken
<1>3. Resolves(command.res)
  BY <1>1, <1>2 DEF Command, Resolves
<1> QED BY <1>1, <1>3, CacheSame

LEMMA SetIBGood == ASSUME IInv, SetIB PROVE IInv'
<1>1. /\ cursor \in DOMAIN list /\ command.op = "ib" /\ Advance
      /\ UNCHANGED <<cache, held>>
      /\ fault' = IF Resolves(command.res) THEN {} ELSE {"IB NOT FOUND"}
  BY DEF SetIB, At
<1>2. command \in Command(Fixed \cup live)
  BY <1>1, CommandTaken
<1>3. Resolves(command.res)
  BY <1>1, <1>2 DEF Command, Resolves
<1> QED BY <1>1, <1>3, CacheSame

LEMMA CopyGood == ASSUME IInv, Copy PROVE IInv'
<1>1. /\ cursor \in DOMAIN list /\ command.op = "copy" /\ Advance
      /\ UNCHANGED <<cache, held>>
      /\ fault' = IF Resolves(command.src) /\ Resolves(command.dst)
                    THEN {} ELSE {"copy"}
  BY DEF Copy, At
<1>2. command \in Command(Fixed \cup live)
  BY <1>1, CommandTaken
<1>3. Resolves(command.src) /\ Resolves(command.dst)
  BY <1>1, <1>2 DEF Command, Resolves
<1> QED BY <1>1, <1>3, CacheSame

LEMMA BeginRenderPassGood == ASSUME IInv, BeginRenderPass PROVE IInv'
<1>1. /\ cursor \in DOMAIN list /\ command.op = "begin" /\ Advance /\ fault' = {}
      /\ cache' = [cache EXCEPT ![pass].pipeline = TRUE, ![pass].encoder = "open"]
      /\ held' = [held EXCEPT !.passes = @ + 1, !.views = @ + 1]
  BY DEF BeginRenderPass, At
<1>2. /\ pass \in Passes /\ cursor \in 1 .. Len(list) /\ Len(list) \in Nat
      /\ command = list[cursor] /\ WellFormed(pass, list)
  BY <1>1, CommandTaken
<1>3. cache \in [Passes -> Cache] /\ held \in [encoders : Nat, passes : Nat, views : Nat, groups : Nat]
  BY DEF IInv, Typed
<1>4. /\ cache' \in [Passes -> Cache]
      /\ cache'[pass].encoder = "open" /\ cache'[pass].pipeline = TRUE
      /\ \A p \in Passes : cache'[p].sets = cache[p].sets /\ cache'[p].groups = cache[p].groups
      /\ \A p \in Passes \ {pass} : cache'[p] = cache[p]
  BY <1>1, <1>2, <1>3 DEF Cache
<1>5. held' \in [encoders : Nat, passes : Nat, views : Nat, groups : Nat]
  <2>1. held' = [encoders |-> held.encoders, passes |-> held.passes + 1,
                 views |-> held.views + 1, groups |-> held.groups]
    BY <1>1, <1>3
  <2>2. /\ held.encoders \in Nat /\ held.passes + 1 \in Nat
        /\ held.views + 1 \in Nat /\ held.groups \in Nat
    BY <1>3
  <2> QED BY <2>1, <2>2
<1>6. /\ pass' = pass /\ list' = list /\ cursor' = cursor + 1
      /\ Typed' /\ ListGood' /\ LiveHeld'
  BY <1>1, <1>4, <1>5, AdvanceGood
<1>7. /\ ~Begun(list, cursor) /\ \E m \in cursor + 1 .. Len(list) : list[m].op = "end"
      /\ Begun(list, cursor + 1)
  BY <1>1, <1>2, BegunNext DEF WellFormed
<1>8. EncoderOwned /\ HeldOnce
  BY DEF IInv
<1>9. EncoderOwned'
  BY <1>2, <1>4, <1>6, <1>7, <1>8, NullAssumption DEF EncoderOwned
<1>10. held'.passes = held.passes + 1 /\ held'.encoders = held.encoders /\ held'.groups = held.groups
  BY <1>1, <1>3
<1>11. HeldOnce'
  BY <1>2, <1>4, <1>6, <1>7, <1>8, <1>10, NullAssumption DEF HeldOnce, EncoderOwned
<1>12. BoundGood'
  BY <1>1, <1>2, <1>4, BoundSame
<1>13. GroupsCounted'
  BY <1>4, <1>10, CountedSame
<1>14. \A p \in Passes : Sized(p)'
  BY <1>4 DEF IInv, Sized
<1> QED BY <1>1, <1>6, <1>9, <1>11, <1>12, <1>13, <1>14 DEF IInv

LEMMA EndRenderPassGood == ASSUME IInv, EndRenderPass PROVE IInv'
<1>1. /\ cursor \in DOMAIN list /\ command.op = "end" /\ Advance
      /\ cache' = [cache EXCEPT ![pass].encoder = "ended"]
      /\ held' = held /\ fault' = {}
  BY DEF EndRenderPass, At, IInv
<1>2. /\ pass \in Passes /\ cursor \in 1 .. Len(list) /\ Len(list) \in Nat
      /\ command = list[cursor] /\ WellFormed(pass, list)
  BY <1>1, CommandTaken
<1>3. cache \in [Passes -> Cache] /\ held \in [encoders : Nat, passes : Nat, views : Nat, groups : Nat]
  BY DEF IInv, Typed
<1>4. /\ cache' \in [Passes -> Cache]
      /\ cache'[pass].encoder = "ended" /\ cache'[pass].pipeline = cache[pass].pipeline
      /\ \A p \in Passes : cache'[p].sets = cache[p].sets /\ cache'[p].groups = cache[p].groups
      /\ \A p \in Passes \ {pass} : cache'[p] = cache[p]
  BY <1>1, <1>2, <1>3 DEF Cache
<1>5. /\ pass' = pass /\ list' = list /\ cursor' = cursor + 1
      /\ Typed' /\ ListGood' /\ LiveHeld'
  BY <1>1, <1>3, <1>4, AdvanceGood
<1>6. Begun(list, cursor) /\ Begun(list, cursor + 1)
  BY <1>1, <1>2, BegunNext DEF WellFormed
<1>7. EncoderOwned /\ HeldOnce
  BY DEF IInv
<1>8. EncoderOwned'
  BY <1>2, <1>4, <1>5, <1>6, <1>7, NullAssumption DEF EncoderOwned
<1>9. HeldOnce'
  BY <1>1, <1>2, <1>4, <1>5, <1>6, <1>7, NullAssumption DEF HeldOnce, EncoderOwned
<1>10. BoundGood'
  BY <1>1, <1>2, <1>4, BoundSame
<1>11. GroupsCounted'
  BY <1>1, <1>4, CountedSame
<1>12. \A p \in Passes : Sized(p)'
  BY <1>4 DEF IInv, Sized
<1> QED BY <1>1, <1>5, <1>8, <1>9, <1>10, <1>11, <1>12 DEF IInv

LEMMA RecordUpdated ==
  ASSUME NEW S, NEW G, NEW P, NEW E,
         NEW c \in [sets : S, groups : G, pipeline : P, encoder : E],
         NEW s \in S, NEW g \in G
  PROVE  LET n == [c EXCEPT !.groups = g, !.sets = s] IN
         /\ n \in [sets : S, groups : G, pipeline : P, encoder : E]
         /\ n.sets = s /\ n.groups = g
         /\ n.pipeline = c.pipeline /\ n.encoder = c.encoder
OBVIOUS

(* The slot bound holds the binding, and the others what they held.         *)
LEMMA UpdateBindingGood ==
  ASSUME IInv, UpdateBinding
  PROVE  /\ IInv'
         /\ \A i \in DOMAIN Layout[pass] : \A j \in DOMAIN Layout[pass][i] :
              IF i = command.set /\ j = command.slot
              THEN cache'[pass].sets[i][j] = [set |-> i, slot |-> j,
                                              res |-> command.res, offset |-> command.offset]
              ELSE cache[pass].sets # <<>> =>
                     cache'[pass].sets[i][j] = cache[pass].sets[i][j]
<1> DEFINE c == cache[pass]
           tables == Layout[pass]
           sets == IF c.sets # <<>> THEN c.sets
                   ELSE [i \in DOMAIN tables |-> [j \in DOMAIN tables[i] |-> NoBinding]]
           groups == IF c.groups # <<>> THEN c.groups
                     ELSE [i \in DOMAIN tables |-> Null]
           b == [set |-> command.set, slot |-> command.slot,
                 res |-> command.res, offset |-> command.offset]
           filled == IF Same(sets[b.set][b.slot], b) THEN sets
                     ELSE [sets EXCEPT ![b.set][b.slot] = b]
<1>1. /\ cursor \in DOMAIN list /\ command.op = "bind" /\ Advance /\ held' = held
  BY DEF UpdateBinding, At
<1>2. /\ pass \in Passes /\ cursor \in 1 .. Len(list) /\ Len(list) \in Nat
      /\ command = list[cursor] /\ WellFormed(pass, list)
      /\ command \in Command(Fixed \cup live)
  BY <1>1, CommandTaken
<1>3. cache \in [Passes -> Cache] /\ held \in [encoders : Nat, passes : Nat, views : Nat, groups : Nat]
  BY DEF IInv, Typed
<1>4. /\ command.set \in Nat /\ command.slot \in Nat /\ command.offset \in Nat
      /\ command.res \in Fixed \cup live /\ live \subseteq Handles
  BY <1>1, <1>2 DEF Command, IInv, Typed
<1>5. b \in Binding /\ b.slot = command.slot /\ b.set = command.set /\ b.res \in Fixed \cup live
  BY <1>4 DEF Binding, Resource
<1>6. command.set \in DOMAIN tables /\ command.slot \in DOMAIN tables[command.set]
      /\ Begun(list, cursor)
  BY <1>1, <1>2 DEF WellFormed, InLayout
<1>7. c.pipeline = TRUE
  BY <1>2, <1>6 DEF IInv, EncoderOwned
<1>8. tables \in Seq(Seq(STRING)) /\ c \in Cache /\ Sized(pass)
  BY <1>2, <1>3, LayoutAssumption DEF IInv
<1>9. /\ c.sets # <<>> => /\ DOMAIN c.groups = DOMAIN tables /\ DOMAIN c.sets = DOMAIN tables
                          /\ c.groups # <<>>
                          /\ \A i \in DOMAIN tables : DOMAIN c.sets[i] = DOMAIN tables[i]
      /\ c.sets = <<>> => c.groups = <<>>
  BY <1>6, <1>8 DEF Sized
<1>10. /\ sets \in Seq(Seq(Binding)) /\ DOMAIN sets = DOMAIN tables
       /\ \A i \in DOMAIN tables : DOMAIN sets[i] = DOMAIN tables[i]
  <2>1. CASE c.sets # <<>>
    BY <2>1, <1>8, <1>9 DEF Cache
  <2>2. CASE c.sets = <<>>
    <3>1. NoBinding \in Binding
      BY DEF NoBinding, Binding, Resource
    <3>2. \A i \in DOMAIN tables : [j \in DOMAIN tables[i] |-> NoBinding] \in Seq(Binding)
      <4> TAKE i \in DOMAIN tables
      <4>1. tables[i] \in Seq(STRING)
        BY <1>8
      <4>2. DOMAIN tables[i] = 1 .. Len(tables[i]) /\ Len(tables[i]) \in Nat
        BY <4>1
      <4> QED BY <3>1, <4>2
    <3>3. DOMAIN tables = 1 .. Len(tables) /\ Len(tables) \in Nat
      BY <1>8
    <3> HIDE DEF tables
    <3> QED BY <2>2, <3>2, <3>3
  <2> QED BY <2>1, <2>2
<1>11. groups \in Seq(Group) /\ DOMAIN groups = DOMAIN tables
  <2>1. CASE c.groups # <<>>
    BY <2>1, <1>8, <1>9 DEF Cache
  <2>2. CASE c.groups = <<>>
    <3>1. DOMAIN tables = 1 .. Len(tables) /\ Len(tables) \in Nat /\ Null \in Group
      BY <1>8 DEF Group
    <3> HIDE DEF tables
    <3> QED BY <2>2, <3>1
  <2> QED BY <2>1, <2>2
<1>12. /\ fault' = {}
       /\ cache' = [cache EXCEPT ![pass].groups = groups, ![pass].sets = filled]
  <2>1. c.pipeline /\ b.set \in DOMAIN sets /\ b.slot \in DOMAIN sets[b.set]
    BY <1>5, <1>6, <1>7, <1>10
  <2> HIDE DEF sets, b
  <2> QED BY <2>1 DEF UpdateBinding, sets, b
<1> HIDE DEF sets, groups, b
<1>13. /\ filled \in Seq(Seq(Binding)) /\ DOMAIN filled = DOMAIN tables
       /\ \A i \in DOMAIN tables : DOMAIN filled[i] = DOMAIN tables[i]
       /\ filled[command.set][command.slot] = b
       /\ \A i \in DOMAIN tables : \A j \in DOMAIN tables[i] :
            filled[i][j] = IF i = command.set /\ j = command.slot THEN b ELSE sets[i][j]
  <2>1. CASE Same(sets[b.set][b.slot], b)
    BY <2>1, <1>5, <1>6, <1>10 DEF Same
  <2>2. CASE ~Same(sets[b.set][b.slot], b)
    BY <2>2, <1>5, <1>6, <1>10
  <2> QED BY <2>1, <2>2
<1> HIDE DEF filled
<1>14. /\ cache' \in [Passes -> Cache]
       /\ cache'[pass].sets = filled /\ cache'[pass].groups = groups
       /\ \A p \in Passes : cache'[p].encoder = cache[p].encoder /\ cache'[p].pipeline = cache[p].pipeline
       /\ \A p \in Passes \ {pass} : cache'[p] = cache[p]
  <2> DEFINE new == [c EXCEPT !.groups = groups, !.sets = filled]
  <2>1. /\ new \in Cache /\ new.sets = filled /\ new.groups = groups
        /\ new.pipeline = c.pipeline /\ new.encoder = c.encoder
    BY <1>8, <1>11, <1>13, RecordUpdated DEF Cache
  <2>3. cache' = [p \in Passes |-> IF p = pass THEN new ELSE cache[p]]
    <3>1. DOMAIN cache = Passes /\ cache = [p \in Passes |-> cache[p]]
      BY <1>3
    <3> QED BY <3>1, <1>2, <1>12, Zenon
  <2> HIDE DEF new
  <2> QED BY <2>1, <2>3, <1>2, <1>3
<1>15. /\ pass' = pass /\ list' = list /\ cursor' = cursor + 1
       /\ Typed' /\ ListGood' /\ LiveHeld'
  BY <1>1, <1>3, <1>14, AdvanceGood
<1>16. EncoderOwned' /\ HeldOnce'
  BY <1>1, <1>14, EncoderSame
<1>17. BoundGood'
  <2>1. filled # <<>>
    BY <1>6, <1>13
  <2>2. Resolves(b.res) /\ live' = live
    BY <1>1, <1>5 DEF Resolves, Advance
  <2>3. ASSUME NEW m \in 1 .. cursor, list[m].op = "bind"
        PROVE  SlotGood(list[m].set, list[m].slot)'
    <3> DEFINE i == list[m].set
               j == list[m].slot
    <3>1. m \in DOMAIN list
      BY <1>2, CommandTaken, <1>1
    <3>2. i \in DOMAIN tables /\ j \in DOMAIN tables[i]
      BY <3>1, <2>3, <1>2 DEF WellFormed, InLayout
    <3>3. CASE i = command.set /\ j = command.slot
      BY <3>3, <2>2, <1>5, <1>13, <1>14, <1>15 DEF SlotGood, Resolves
    <3>4. CASE ~(i = command.set /\ j = command.slot)
      <4>1. m \in 1 .. cursor - 1
        BY <3>4, <1>2
      <4>2. c.sets # <<>> /\ SlotGood(i, j)
        BY <4>1, <2>3, <1>2 DEF IInv, BoundGood
      <4>3. filled[i][j] = c.sets[i][j]
        BY <3>2, <3>4, <4>2, <1>13 DEF sets
      <4> QED BY <4>2, <4>3, <2>2, <1>14, <1>15 DEF SlotGood, Resolves
    <3> QED BY <3>3, <3>4
  <2>4. (cursor + 1) - 1 = cursor
    BY <1>2
  <2> QED BY <2>1, <2>3, <2>4, <1>14, <1>15 DEF BoundGood
<1>18. GroupsCounted'
  <2>1. \A g : g \in Named(cache') <=> g \in Named(cache)
    <3> TAKE g
    <3>1. g \in Named(cache') <=> \E p \in Passes : \E i \in DOMAIN cache'[p].groups :
            g = <<p, i>> /\ cache'[p].groups[i] # Null
      BY NamedIs
    <3>2. g \in Named(cache) <=> \E p \in Passes : \E i \in DOMAIN cache[p].groups :
            g = <<p, i>> /\ cache[p].groups[i] # Null
      BY NamedIs
    <3>3. CASE c.groups # <<>>
      <4>1. \A p \in Passes : cache'[p].groups = cache[p].groups
        BY <3>3, <1>14 DEF groups
      <4> QED BY <4>1, <3>1, <3>2
    <3>4. CASE c.groups = <<>>
      <4>1. \A i \in DOMAIN cache'[pass].groups : cache'[pass].groups[i] = Null
        BY <3>4, <1>14 DEF groups
      <4>2. DOMAIN cache[pass].groups = {}
        BY <3>4
      <4> QED BY <4>1, <4>2, <3>1, <3>2, <1>14
    <3> QED BY <3>3, <3>4
  <2>2. Named(cache') = Named(cache)
    BY <2>1
  <2> QED BY <2>2, <1>1 DEF IInv, GroupsCounted
<1>19. \A p \in Passes : Sized(p)'
  <2>1. Sized(pass)'
    BY <1>11, <1>13, <1>14, <1>15 DEF Sized
  <2>2. \A p \in Passes \ {pass} : Sized(p)'
    BY <1>14 DEF IInv, Sized
  <2> QED BY <2>1, <2>2, <1>15
<1>20. IInv'
  BY <1>12, <1>15, <1>16, <1>17, <1>18, <1>19 DEF IInv
<1>21. ASSUME NEW i \in DOMAIN tables, NEW j \in DOMAIN tables[i]
       PROVE  IF i = command.set /\ j = command.slot
              THEN cache'[pass].sets[i][j] = [set |-> i, slot |-> j,
                                              res |-> command.res, offset |-> command.offset]
              ELSE c.sets # <<>> => cache'[pass].sets[i][j] = c.sets[i][j]
  BY <1>21, <1>13, <1>14 DEF b, sets
<1> QED BY <1>20, <1>21

(* The bind groups are made of the slots of the layout.                     *)
LEMMA DrawGood ==
  ASSUME IInv, Draw
  PROVE  /\ IInv'
         /\ DOMAIN cache[pass].sets = DOMAIN Layout[pass]
         /\ \A i \in DOMAIN Layout[pass] : Entries(cache[pass].sets[i]) =
              [j \in DOMAIN Layout[pass][i] |-> cache[pass].sets[i][j].res]
<1> DEFINE c == cache[pass]
           tables == Layout[pass]
           groups == [i \in DOMAIN c.sets |-> Entries(c.sets[i])]
           n == Len(tables)
<1>1. cursor \in DOMAIN list /\ command.op = "draw" /\ Advance
  BY DEF Draw, At
<1>2. /\ pass \in Passes /\ cursor \in 1 .. Len(list) /\ Len(list) \in Nat
      /\ command = list[cursor] /\ WellFormed(pass, list)
  BY <1>1, CommandTaken
<1>3. cache \in [Passes -> Cache] /\ held \in [encoders : Nat, passes : Nat, views : Nat, groups : Nat]
  BY DEF IInv, Typed
<1>4. /\ tables \in Seq(Seq(STRING)) /\ c \in Cache /\ Sized(pass)
      /\ n \in Nat /\ DOMAIN tables = 1 .. n
  BY <1>2, <1>3, LayoutAssumption DEF IInv
<1>5. c.sets # <<>>
  <2>1. PICK m \in 1 .. cursor - 1 : list[m].op = "bind"
    BY <1>1, <1>2 DEF WellFormed
  <2> QED BY <2>1, <1>2 DEF IInv, BoundGood
<1>6. /\ DOMAIN c.groups = 1 .. n /\ DOMAIN c.sets = 1 .. n
      /\ \A i \in 1 .. n : DOMAIN c.sets[i] = DOMAIN tables[i]
  BY <1>4, <1>5 DEF Sized
<1>7. \A i \in 1 .. n : \A j \in DOMAIN tables[i] : SlotGood(i, j)
  <2> TAKE i \in 1 .. n
  <2> TAKE j \in DOMAIN tables[i]
  <2>1. PICK m \in 1 .. cursor - 1 : IsBinding(list[m], i, j)
    BY <1>1, <1>2, <1>4 DEF WellFormed
  <2>2. list[m].op = "bind" /\ list[m].set = i /\ list[m].slot = j
    BY <2>1 DEF IsBinding
  <2> QED BY <2>2, <1>2 DEF IInv, BoundGood
<1>8. \A i \in 1 .. n :
        /\ Entries(c.sets[i]) \in [DOMAIN tables[i] -> Fixed \cup live]
        /\ DOMAIN Entries(c.sets[i]) = DOMAIN tables[i]
        /\ Entries(c.sets[i]) = [j \in DOMAIN tables[i] |-> c.sets[i][j].res]
  <2> TAKE i \in 1 .. n
  <2>1. \A j \in DOMAIN tables[i] :
          c.sets[i][j].slot = j /\ c.sets[i][j].res \in Fixed \cup live
    BY <1>7 DEF SlotGood, Resolves
  <2> DEFINE t == c.sets[i]
  <2>2. DOMAIN t = DOMAIN tables[i] /\ \A j \in DOMAIN t : t[j].slot = j
    BY <2>1, <1>6
  <2> HIDE DEF c, tables
  <2>3. {t[k].slot : k \in DOMAIN t} = DOMAIN t
    BY <2>2
  <2>4. Entries(t) = [j \in DOMAIN t |-> t[j].res]
    BY <2>3 DEF Entries
  <2> QED BY <2>1, <2>2, <2>4
<1>9. \A i \in 1 .. n : Entries(c.sets[i]) \in Group /\ Entries(c.sets[i]) # Null
  <2> TAKE i \in 1 .. n
  <2>1. live \subseteq Handles
    BY DEF IInv, Typed
  <2>2. Entries(c.sets[i]) \in [DOMAIN tables[i] -> Fixed \cup Handles]
    BY <1>8, <2>1
  <2>3. Entries(c.sets[i]) # Null
    BY <2>2, <1>2, <1>4, NullAssumption
  <2>4. tables[i] \in Seq(STRING)
    BY <1>4
  <2>5. DOMAIN tables[i] \in SUBSET Nat
    BY <2>4
  <2>6. Entries(c.sets[i]) \in [DOMAIN tables[i] -> Resource]
    BY <2>2 DEF Resource
  <2> QED BY <2>3, <2>5, <2>6 DEF Group
<1> HIDE DEF n, tables
<1>10. /\ DOMAIN groups = 1 .. n /\ groups \in Seq(Group) /\ Len(groups) = n
       /\ \A i \in 1 .. n : groups[i] # Null /\ groups[i] = Entries(c.sets[i])
  BY <1>4, <1>6, <1>9
<1>11. \A i \in DOMAIN groups : \A j \in DOMAIN groups[i] : Resolves(groups[i][j])
  BY <1>8, <1>10 DEF Resolves
<1>12. /\ fault' = {}
       /\ cache' = [cache EXCEPT ![pass].groups = groups]
       /\ held' = [held EXCEPT !.groups = @ + Len(groups) - Released(c)]
  BY <1>5, <1>11 DEF Draw
<1> HIDE DEF groups
<1>13. /\ cache' \in [Passes -> Cache]
       /\ cache'[pass].groups = groups
       /\ \A p \in Passes : /\ cache'[p].sets = cache[p].sets
                             /\ cache'[p].encoder = cache[p].encoder
                             /\ cache'[p].pipeline = cache[p].pipeline
       /\ \A p \in Passes \ {pass} : cache'[p] = cache[p]
  BY <1>2, <1>3, <1>10, <1>12 DEF Cache
<1>14. /\ IsFiniteSet(Named(cache')) /\ Released(c) \in Nat
       /\ Cardinality(Named(cache)) \in Nat /\ Released(c) <= Cardinality(Named(cache))
       /\ Cardinality(Named(cache')) = Cardinality(Named(cache)) + n - Released(c)
  <2>1. /\ \A p \in Passes \ {pass} : cache'[p].groups = cache[p].groups
        /\ DOMAIN cache'[pass].groups = 1 .. n
        /\ \A i \in 1 .. n : cache'[pass].groups[i] # Null
        /\ DOMAIN cache[pass].groups \subseteq 1 .. n
        /\ IsFiniteSet(Named(cache))
    BY <1>6, <1>10, <1>13 DEF IInv, GroupsCounted
  <2>2. pass \in Passes /\ n \in Nat
    BY <1>2, <1>4
  <2> DEFINE d == cache'
  <2>3. /\ \A p \in Passes \ {pass} : d[p].groups = cache[p].groups
        /\ DOMAIN d[pass].groups = 1 .. n
        /\ \A i \in 1 .. n : d[pass].groups[i] # Null
    BY <2>1
  <2> HIDE DEF d
  <2>4. /\ IsFiniteSet(Named(d)) /\ Released(c) \in Nat
        /\ Cardinality(Named(cache)) \in Nat /\ Released(c) <= Cardinality(Named(cache))
        /\ Cardinality(Named(d)) = Cardinality(Named(cache)) + n - Released(c)
    <3>1. AllRemade(cache, d, pass, n)
      BY <2>1, <2>3 DEF AllRemade
    <3> QED BY <3>1, <2>2, NamedRemade
  <2> QED BY <2>4 DEF d
<1>15. held.groups = Cardinality(Named(cache)) /\ held.groups + n - Released(c) \in Nat
  BY <1>4, <1>14 DEF IInv, GroupsCounted
<1>16. /\ held' \in [encoders : Nat, passes : Nat, views : Nat, groups : Nat]
       /\ held'.encoders = held.encoders /\ held'.passes = held.passes
       /\ held'.groups = held.groups + n - Released(c)
  <2>1. held' = [held EXCEPT !.groups = held.groups + n - Released(c)]
    BY <1>3, <1>10, <1>12
  <2> QED BY <2>1, <1>3, <1>15
<1>17. /\ pass' = pass /\ list' = list /\ cursor' = cursor + 1
       /\ Typed' /\ ListGood' /\ LiveHeld'
  BY <1>1, <1>13, <1>16, AdvanceGood
<1>18. EncoderOwned' /\ HeldOnce'
  BY <1>1, <1>13, <1>16, EncoderSame
<1>19. BoundGood'
  BY <1>1, <1>2, <1>13, BoundSame
<1>20. GroupsCounted'
  BY <1>14, <1>15, <1>16 DEF GroupsCounted
<1>21. \A p \in Passes : Sized(p)'
  <2>1. Sized(pass)'
    BY <1>4, <1>6, <1>10, <1>13, <1>17, <1>2 DEF Sized, tables
  <2>2. \A p \in Passes \ {pass} : Sized(p)'
    BY <1>13 DEF IInv, Sized
  <2> QED BY <2>1, <2>2, <1>17
<1>22. IInv'
  BY <1>12, <1>17, <1>18, <1>19, <1>20, <1>21 DEF IInv
<1>23. \A i \in DOMAIN tables :
         Entries(c.sets[i]) = [j \in DOMAIN tables[i] |-> c.sets[i][j].res]
  BY <1>4, <1>8
<1> QED BY <1>4, <1>6, <1>22, <1>23 DEF tables

LEMMA FinishGood == ASSUME IInv, Finish PROVE IInv'
<1> DEFINE encoder == cache[pass].encoder
<1>1. /\ cursor = Len(list) + 1 /\ cursor' = 0
      /\ UNCHANGED <<commands, memory, imgui, live>>
  BY Zenon DEF Finish
<1>2. cache' = [cache EXCEPT ![pass].encoder = Null]
  BY Zenon DEF Finish, EncoderAfter
<1>3. held' = [held EXCEPT !.encoders = @ - 1, !.views = 0,
                          !.passes = IF encoder = Null THEN @ ELSE @ - 1]
  BY Zenon DEF Finish
<1>4. /\ pass \in Passes /\ cache \in [Passes -> Cache]
      /\ commands \in [Passes -> Seq(Command(Resource))]
      /\ held \in [encoders : Nat, passes : Nat, views : Nat, groups : Nat]
  BY PassIsPass DEF IInv, Typed
<1>5. list \in Seq(Command(Resource)) /\ Len(list) \in Nat /\ cursor > 0
  BY <1>1, <1>4 DEF list
<1>6. EncoderOwned /\ HeldOnce
  BY DEF IInv
<1>7. encoder \in {Null, "ended"}
  <2>1. encoder # "open"
    BY <1>1, <1>5, <1>6 DEF EncoderOwned
  <2>2. encoder \in {Null, "open", "ended"}
    BY <1>4 DEF Cache
  <2> QED BY <2>1, <2>2
<1>8. fault' = {}
  <2>1. fault' = IF encoder \in {Null, "ended"} THEN {}
                 ELSE {"pass encoder not ended or already released"}
    BY Zenon DEF Finish
  <2> QED BY <2>1, <1>7, Zenon
<1>9. /\ cache' \in [Passes -> Cache]
      /\ cache'[pass].encoder = Null
      /\ \A p \in Passes : cache'[p].sets = cache[p].sets /\ cache'[p].groups = cache[p].groups
      /\ \A p \in Passes \ {pass} : cache'[p] = cache[p]
  BY <1>4, <1>2 DEF Cache
<1>10. \A p \in Passes : cache'[p].encoder = Null
  BY <1>6, <1>9 DEF EncoderOwned
<1>11. held' = [encoders |-> 0, passes |-> 0, views |-> 0, groups |-> held.groups]
  <2>1. held.encoders - 1 = 0 /\ (IF encoder = Null THEN held.passes ELSE held.passes - 1) = 0
    BY <1>4, <1>5, <1>6 DEF HeldOnce
  <2>2. held' = [held EXCEPT !.encoders = held.encoders - 1, !.views = 0,
                   !.passes = IF encoder = Null THEN held.passes ELSE held.passes - 1]
    BY <1>3, <1>4
  <2>3. held' = [held EXCEPT !.encoders = 0, !.views = 0, !.passes = 0]
    BY <2>1, <2>2
  <2> QED BY <2>3, <1>4
<1>12. at' \in DOMAIN Frame
  <2>1. at' = (at % Len(Frame)) + 1
    BY Zenon DEF Finish
  <2>2. at \in DOMAIN Frame
    BY DEF IInv, Typed
  <2>3. at \in Nat /\ Len(Frame) \in Nat \ {0} /\ DOMAIN Frame = 1 .. Len(Frame)
    BY <2>2, FrameAssumption
  <2>4. at % Len(Frame) \in 0 .. Len(Frame) - 1
    BY <2>3
  <2> QED BY <2>1, <2>3, <2>4
<1>13. pass' \in Passes
  BY <1>12 DEF pass, Passes
<1>14. Typed'
  <2>1. list' \in Seq(Command(Resource))
    BY <1>1, <1>4, <1>13 DEF list
  <2>2. 0 \in 0 .. Len(list') + 1
    BY <2>1
  <2> QED BY <1>1, <1>4, <1>9, <1>11, <1>12, <2>2 DEF IInv, Typed
<1>15. EncoderOwned' /\ HeldOnce'
  BY <1>1, <1>10, <1>11, <1>13, NullAssumption DEF EncoderOwned, HeldOnce
<1>16. ListGood' /\ BoundGood' /\ LiveHeld'
  BY <1>1 DEF IInv, ListGood, BoundGood, LiveHeld
<1>17. GroupsCounted'
  BY <1>9, <1>11, CountedSame
<1>18. \A p \in Passes : Sized(p)'
  BY <1>9 DEF IInv, Sized
<1> QED BY <1>1, <1>8, <1>14, <1>15, <1>16, <1>17, <1>18 DEF IInv

LEMMA RecordSceneGood == ASSUME IInv, RecordScene PROVE IInv'
<1>1. cursor = 0 /\ pass # "imgui" /\ imgui' = imgui /\ live' = live
  BY DEF RecordScene, Recording
<1>2. PICK cmds \in SceneLists : Enqueue(cmds)
  BY DEF RecordScene
<1>3. pass \in Passes
  BY PassIsPass DEF IInv, Typed
<1>4. /\ cmds \in Seq(Command(Fixed)) /\ Len(cmds) <= Capacity
      /\ WellFormed(pass, cmds)
  BY <1>1, <1>3, SceneAssumption
<1>5. Command(Fixed) \subseteq Command(Fixed \cup live')
  BY CommandsGrow
<1>6. cmds \in Seq(Command(Fixed \cup live'))
  BY <1>4, <1>5, SeqGrows
<1>7. /\ imgui' \in [vertex : Handles \cup {Null}, index : Handles \cup {Null}]
      /\ live' \subseteq Handles /\ live' \subseteq {imgui'.vertex, imgui'.index}
  BY <1>1 DEF IInv, Typed, LiveHeld
<1> QED BY <1>1, <1>2, <1>4, <1>6, <1>7, EnqueueGood

LEMMA RecordNothingGood == ASSUME IInv, RecordNothing PROVE IInv'
<1>1. cursor = 0 /\ imgui' = imgui /\ live' = live /\ Enqueue(<<>>)
  BY DEF RecordNothing, Recording
<1>2. /\ <<>> \in Seq(Command(Fixed \cup live')) /\ Len(<<>>) <= Capacity
      /\ WellFormed(pass, <<>>)
  BY NothingGood
<1>3. /\ imgui' \in [vertex : Handles \cup {Null}, index : Handles \cup {Null}]
      /\ live' \subseteq Handles /\ live' \subseteq {imgui'.vertex, imgui'.index}
  BY <1>1 DEF IInv, Typed, LiveHeld
<1> QED BY <1>1, <1>2, <1>3, EnqueueGood

LEMMA RecordUiGood == ASSUME IInv, RecordUi PROVE IInv'
<1>1. cursor = 0 /\ pass = "imgui"
  BY DEF RecordUi, Recording
<1>2. PICK v \in Handles, i \in Handles :
        imgui' = [vertex |-> v, index |-> i] /\ live' = Remade(v, i)
  BY DEF RecordUi
<1>3. live' = {v, i}
  BY <1>2 DEF Remade, IInv, LiveHeld
<1>4. /\ imgui' \in [vertex : Handles \cup {Null}, index : Handles \cup {Null}]
      /\ live' \subseteq Handles /\ live' \subseteq {imgui'.vertex, imgui'.index}
      /\ imgui'.vertex \in Fixed \cup live' /\ imgui'.index \in Fixed \cup live'
  BY <1>2, <1>3
<1>5. pass \in Passes
  BY PassIsPass DEF IInv, Typed
<1>6. CASE Enqueue(<<>>)
  <2>1. /\ <<>> \in Seq(Command(Fixed \cup live')) /\ Len(<<>>) <= Capacity
        /\ WellFormed(pass, <<>>)
    BY NothingGood
  <2> QED BY <2>1, <1>1, <1>4, <1>6, EnqueueGood
<1>7. CASE \E draws \in 0 .. MaxUiDraws : Enqueue(UiList(draws))
  <2>1. PICK draws \in 0 .. MaxUiDraws : Enqueue(UiList(draws))
    BY <1>7
  <2>2. /\ UiList(draws) \in Seq(Command(Fixed \cup live'))
        /\ Len(UiList(draws)) <= Capacity /\ WellFormed(pass, UiList(draws))
    BY <1>1, <1>4, <1>5, UiListGood
  <2> QED BY <2>1, <2>2, <1>1, <1>4, EnqueueGood
<1> QED BY <1>6, <1>7 DEF RecordUi

LEMMA StutterGood == ASSUME IInv, UNCHANGED vars PROVE IInv'
<1>1. UNCHANGED <<at, cursor, commands, memory, imgui, live, cache, held, fault>>
  BY DEF vars
<1>2. UNCHANGED <<pass, list>>
  BY <1>1 DEF pass, list
<1>3. Typed' /\ ListGood' /\ EncoderOwned' /\ HeldOnce'
  BY <1>1, <1>2 DEF IInv, Typed, ListGood, EncoderOwned, HeldOnce
<1>4. BoundGood' /\ GroupsCounted' /\ LiveHeld' /\ \A p \in Passes : Sized(p)'
  BY <1>1, <1>2 DEF IInv, BoundGood, SlotGood, Resolves, GroupsCounted, LiveHeld, Sized
<1> QED BY <1>1, <1>3, <1>4 DEF IInv

(* The invariant of every property below.                                   *)
THEOREM Invariance == Spec => []IInv
<1>1. Init => IInv
  BY InitGood
<1>2. IInv /\ [Next]_vars => IInv'
  <2> SUFFICES ASSUME IInv, [Next]_vars PROVE IInv'
    OBVIOUS
  <2>1. CASE RecordScene BY <2>1, RecordSceneGood
  <2>2. CASE RecordNothing BY <2>2, RecordNothingGood
  <2>3. CASE RecordUi BY <2>3, RecordUiGood
  <2>4. CASE BeginRenderPass BY <2>4, BeginRenderPassGood
  <2>5. CASE UpdateBinding BY <2>5, UpdateBindingGood
  <2>6. CASE SetVB BY <2>6, SetVBGood
  <2>7. CASE SetIB BY <2>7, SetIBGood
  <2>8. CASE Draw BY <2>8, DrawGood
  <2>9. CASE EndRenderPass BY <2>9, EndRenderPassGood
  <2>10. CASE Copy BY <2>10, CopyGood
  <2>11. CASE Finish BY <2>11, FinishGood
  <2>12. CASE UNCHANGED vars BY <2>12, StutterGood
  <2> QED BY <2>1, <2>2, <2>3, <2>4, <2>5, <2>6, <2>7, <2>8, <2>9, <2>10, <2>11, <2>12
          DEF Next
<1> QED BY <1>1, <1>2, PTL DEF Spec
-----------------------------------------------------------------------------
(* The properties                                                          *)

(* The cursor stays in the list, the caches keep the sizes of the layout,  *)
(* and no count of objects held goes below zero.                            *)
THEOREM TypeCorrect == Spec => []TypeOK
<1>1. IInv => TypeOK
  BY DEF IInv, Typed, Cache, Sized, TypeOK
<1> QED BY <1>1, Invariance, PTL

(* No command that is executed names a buffer that is gone, nor a slot the *)
(* pipeline does not have, whatever the frames before left in the cache.   *)
THEOREM HandlesAlwaysResolve == Spec => []HandlesResolve
<1>1. IInv => HandlesResolve
  BY DEF IInv, HandlesResolve
<1> QED BY <1>1, Invariance, PTL

(* The memory of a command buffer that has room for one frame has room for *)
(* every frame.                                                            *)
THEOREM RoomStays == Spec => []RoomForCommands
<1>1. IInv => RoomForCommands
  BY DEF IInv, RoomForCommands
<1> QED BY <1>1, Invariance, PTL

(* execute finishes only a pass encoder this execution began and ended.    *)
THEOREM EncodersEndOnce == Spec => []EncoderEndedOnce
<1>1. IInv => EncoderEndedOnce
  BY DEF IInv, EncoderEndedOnce
<1> QED BY <1>1, Invariance, PTL

(* Between two executions the device holds exactly the bind groups that    *)
(* its caches name and the two ImGui buffers, and nothing else.            *)
THEOREM NothingEverPilesUp == Spec => []NothingPilesUp
<1>1. IInv => NothingPilesUp
  <2> SUFFICES ASSUME IInv, cursor = 0
               PROVE  /\ held.encoders = 0 /\ held.passes = 0 /\ held.views = 0
                      /\ held.groups = Cardinality(Named(cache))
                      /\ Cardinality(live) <= 2
    BY Zenon DEF NothingPilesUp, Named
  <2>1. cache[pass].encoder = Null
    BY PassIsPass DEF IInv, Typed, EncoderOwned
  <2>2. held.encoders = 0 /\ held.passes = 0 /\ held.views = 0
    BY <2>1 DEF IInv, HeldOnce
  <2>3. Cardinality(live) <= 2
    <3> DEFINE one == {imgui.vertex}
               two == one \cup {imgui.index}
    <3>1. IsFiniteSet(one) /\ Cardinality(one) = 1
      BY FS_Singleton
    <3> HIDE DEF one
    <3>2. IsFiniteSet(two) /\ Cardinality(two) <= 2
      BY <3>1, FS_AddElement
    <3>3. live \subseteq two
      BY DEF IInv, LiveHeld, one
    <3> HIDE DEF two
    <3>4. IsFiniteSet(live) /\ Cardinality(live) <= Cardinality(two)
      BY <3>2, <3>3, FS_Subset
    <3>5. Cardinality(live) \in Nat /\ Cardinality(two) \in Nat
      BY <3>2, <3>4, FS_CardinalityType
    <3> QED BY <3>2, <3>4, <3>5
  <2> QED BY <2>2, <2>3 DEF IInv, GroupsCounted
<1> QED BY <1>1, Invariance, PTL
=============================================================================
