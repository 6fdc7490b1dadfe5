---------------------------- MODULE CanonicalProofs ----------------------------
(***************************************************************************)
(* Proofs that ids keep describing their records, that one content has one *)
(* id and that one id has one content, whatever a caller's containers hold *)
(* and become.                                                             *)
(***************************************************************************)
EXTENDS CanonicalJson, SequenceTheorems, WellFoundedInduction, TLAPS

----------------------------------------------------------------------------
(* Induction, on sets of numbers *)

\* What holds of zero, and of the successor of what it holds of, holds of every
\* number.
LEMMA AllNumbers ==
    ASSUME NEW A \in SUBSET Nat, 0 \in A, \A n \in A : n + 1 \in A
    PROVE  A = Nat
<1> SUFFICES ASSUME Nat \ A # {} PROVE FALSE
  OBVIOUS
<1> DEFINE R == OpToRel(<, Nat)
<1>1. PICK x \in Nat \ A : \A y \in Nat \ A : ~ (<<y, x>> \in R)
  <2>1. IsWellFoundedOn(R, Nat)
    BY NatLessThanWellFounded
  <2> HIDE DEF R
  <2> QED BY <2>1, WFMin
<1>2. x # 0 /\ x - 1 \in Nat
  OBVIOUS
<1>3. <<x - 1, x>> \in R
  BY <1>2 DEF OpToRel
<1>4. x - 1 \in A
  BY <1>1, <1>2, <1>3
<1> QED BY <1>2, <1>4

----------------------------------------------------------------------------
(* Texts of containers *)

\* The labels of a container are those its text shows.
LEMMA LabelsAre ==
    ASSUME NEW c, HasKeys(c) => DOMAIN Items(c) \in SUBSET Keys
    PROVE  /\ \A i \in DOMAIN Labels(c) : Labels(c)[i] \in DOMAIN Items(c)
           /\ \A l \in DOMAIN Items(c) : \E i \in DOMAIN Labels(c) : Labels(c)[i] = l
<1>1. CASE HasKeys(c)
  BY <1>1, CanonicalAssumption DEF Labels, Range
<1>2. CASE ~ HasKeys(c)
  BY <1>2 DEF Labels
<1> QED BY <1>1, <1>2

\* Containers with the same labels and the same text under each have one text: the
\* order of insertion, and what else tells containers apart, does not show.
LEMMA RenderedAlike ==
    ASSUME NEW c, NEW d, NEW t, NEW u,
           HasKeys(c) <=> HasKeys(d), DOMAIN Items(c) = DOMAIN Items(d),
           HasKeys(c) => DOMAIN Items(c) \in SUBSET Keys,
           \A l \in DOMAIN Items(c) : ValueText(Items(c)[l], t) = ValueText(Items(d)[l], u)
    PROVE  Rendered(c, t) = Rendered(d, u)
<1>1. Labels(c) = Labels(d)
  BY DEF Labels
<1>2. \A i \in DOMAIN Labels(c) : Entry(c, Labels(c)[i], t) = Entry(d, Labels(c)[i], u)
  BY LabelsAre DEF Entry
<1>3. [i \in DOMAIN Labels(c) |-> Entry(c, Labels(c)[i], t)]
        = [i \in DOMAIN Labels(c) |-> Entry(d, Labels(c)[i], u)]
  BY <1>2
<1>4. Opening(c) = Opening(d) /\ Closing(c) = Closing(d)
  BY Zenon DEF Opening, Closing
<1> QED BY <1>1, <1>3, <1>4 DEF Rendered

\* A memory without loops or loose ends: every container leads to less nested
\* containers of the same memory.
WellFormed(m) ==
    /\ DOMAIN m \subseteq Refs("ref") \cup Refs("own")
    /\ \A v \in DOMAIN m :
          /\ HasKeys(m[v]) => DOMAIN Items(m[v]) \in SUBSET Keys
          /\ ~HasKeys(m[v]) => \E n \in Nat : DOMAIN Items(m[v]) = 1..n
          /\ \A l \in DOMAIN Items(m[v]) :
                LET x == Items(m[v])[l]
                IN  IF IsRef(x) THEN x \in DOMAIN m /\ Nesting[x[2]] < Nesting[v[2]]
                    ELSE x \in Scalars

LEMMA NestingIs == \A v \in Refs("ref") \cup Refs("own") : Nesting[v[2]] \in 0..Depth
BY CanonicalAssumption DEF Refs

\* Canonical is what the recursion says: the text of each container is rendered
\* from the texts of those inside it.  Rendering the containers of ever deeper
\* nesting from the texts before gives such texts after finitely many turns.
LEMMA CanonicalIs ==
    ASSUME NEW m, WellFormed(m)
    PROVE  Canonical(m) = [v \in DOMAIN m |-> Rendered(m[v], Canonical(m))]
<1> DEFINE Right(t, n) ==
               /\ t = [v \in DOMAIN m |-> t[v]]
               /\ \A v \in DOMAIN m : Nesting[v[2]] < n => t[v] = Rendered(m[v], t)
           Reached == {n \in Nat : \E t : Right(t, n)}
<1>1. 0 \in Reached
  <2> DEFINE t == [v \in DOMAIN m |-> {}]
  <2>1. Right(t, 0)
    BY NestingIs DEF WellFormed
  <2> HIDE DEF Right, t
  <2> QED BY <2>1
<1>2. ASSUME NEW n \in Reached PROVE n + 1 \in Reached
  <2>1. PICK t : Right(t, n)
    BY <1>2
  <2> DEFINE u == [v \in DOMAIN m |-> Rendered(m[v], t)]
  <2>2. \A v \in DOMAIN m : Nesting[v[2]] < n => u[v] = t[v]
    BY <2>1
  <2>3. ASSUME NEW v \in DOMAIN m, Nesting[v[2]] < n + 1
        PROVE  u[v] = Rendered(m[v], u)
    <3>1. \A l \in DOMAIN Items(m[v]) :
             ValueText(Items(m[v])[l], t) = ValueText(Items(m[v])[l], u)
      <4> SUFFICES ASSUME NEW l \in DOMAIN Items(m[v]), IsRef(Items(m[v])[l])
                   PROVE  t[Items(m[v])[l]] = u[Items(m[v])[l]]
        BY DEF ValueText
      <4> DEFINE x == Items(m[v])[l]
      <4>1. x \in DOMAIN m /\ Nesting[x[2]] < Nesting[v[2]]
        BY DEF WellFormed
      <4>2. Nesting[x[2]] \in Nat /\ Nesting[v[2]] \in Nat /\ n \in Nat
        BY <4>1, NestingIs, CanonicalAssumption DEF WellFormed
      <4>3. Nesting[x[2]] < n
        BY <2>3, <4>1, <4>2
      <4> QED BY <2>2, <4>1, <4>3
    <3>2. HasKeys(m[v]) => DOMAIN Items(m[v]) \in SUBSET Keys
      BY DEF WellFormed
    <3> HIDE DEF u
    <3>3. Rendered(m[v], t) = Rendered(m[v], u)
      BY <3>1, <3>2, RenderedAlike
    <3> QED BY <3>3 DEF u
  <2>4. Right(u, n + 1)
    BY <2>3
  <2> HIDE DEF Right, u
  <2> QED BY <2>4
<1>3. Depth + 1 \in Reached
  <2>1. Depth + 1 \in Nat
    BY CanonicalAssumption
  <2> HIDE DEF Reached
  <2>2. Reached = Nat
    BY <1>1, <1>2, AllNumbers DEF Reached
  <2> QED BY <2>1, <2>2
<1>4. PICK t : Right(t, Depth + 1)
  BY <1>3
<1>5. \A v \in DOMAIN m : Nesting[v[2]] < Depth + 1
  BY NestingIs, CanonicalAssumption DEF WellFormed
<1>6. t = [v \in DOMAIN m |-> Rendered(m[v], t)]
  BY <1>4, <1>5
<1> QED BY <1>6 DEF Canonical

\* Containers that correspond, and lead to containers that correspond, have the
\* same text.
Corresponding(R, m, k) ==
    \A v \in DOMAIN m, w \in DOMAIN k :
        <<v, w>> \in R =>
            /\ HasKeys(m[v]) <=> HasKeys(k[w])
            /\ DOMAIN Items(m[v]) = DOMAIN Items(k[w])
            /\ \A l \in DOMAIN Items(m[v]) :
                  LET x == Items(m[v])[l]
                      y == Items(k[w])[l]
                  IN  \/ ~IsRef(x) /\ x = y
                      \/ IsRef(x) /\ IsRef(y) /\ <<x, y>> \in R

LEMMA CorrespondingTexts ==
    ASSUME NEW m, NEW k, WellFormed(m), WellFormed(k), NEW R, Corresponding(R, m, k),
           NEW v0 \in DOMAIN m, NEW w0 \in DOMAIN k, <<v0, w0>> \in R
    PROVE  Canonical(m)[v0] = Canonical(k)[w0]
<1> DEFINE t == Canonical(m)
           u == Canonical(k)
           Below(n) == \A v \in DOMAIN m, w \in DOMAIN k :
                          <<v, w>> \in R /\ Nesting[v[2]] < n => t[v] = u[w]
           Reached == {n \in Nat : Below(n)}
<1>0. /\ \A v \in DOMAIN m : t[v] = Rendered(m[v], t)
      /\ \A w \in DOMAIN k : u[w] = Rendered(k[w], u)
  <2> HIDE DEF t, u
  <2>1. t = [v \in DOMAIN m |-> Rendered(m[v], t)] /\ u = [w \in DOMAIN k |-> Rendered(k[w], u)]
    BY CanonicalIs DEF t, u
  <2> QED BY <2>1
<1> HIDE DEF t, u
<1>1. 0 \in Reached
  BY NestingIs, CanonicalAssumption DEF WellFormed
<1>2. ASSUME NEW n \in Reached PROVE n + 1 \in Reached
  <2> SUFFICES ASSUME NEW v \in DOMAIN m, NEW w \in DOMAIN k,
                      <<v, w>> \in R, Nesting[v[2]] < n + 1
               PROVE  t[v] = u[w]
    OBVIOUS
  <2>1. \A l \in DOMAIN Items(m[v]) :
           ValueText(Items(m[v])[l], t) = ValueText(Items(k[w])[l], u)
    <3> SUFFICES ASSUME NEW l \in DOMAIN Items(m[v])
                 PROVE  ValueText(Items(m[v])[l], t) = ValueText(Items(k[w])[l], u)
      OBVIOUS
    <3> DEFINE x == Items(m[v])[l]
               y == Items(k[w])[l]
    <3>1. \/ ~IsRef(x) /\ x = y
          \/ IsRef(x) /\ IsRef(y) /\ <<x, y>> \in R
      BY DEF Corresponding
    <3>2. CASE IsRef(x) /\ IsRef(y) /\ <<x, y>> \in R
      <4>1. x \in DOMAIN m /\ y \in DOMAIN k /\ Nesting[x[2]] < Nesting[v[2]]
        BY <3>2 DEF WellFormed, Corresponding
      <4>2. Nesting[x[2]] \in Nat /\ Nesting[v[2]] \in Nat /\ n \in Nat
        BY <4>1, NestingIs, CanonicalAssumption DEF WellFormed
      <4>3. Nesting[x[2]] < n
        BY <4>1, <4>2
      <4>4. t[x] = u[y]
        BY <1>2, <3>2, <4>1, <4>3
      <4> QED BY <3>2, <4>4 DEF ValueText
    <3> QED BY <3>1, <3>2 DEF ValueText
  <2>2. Rendered(m[v], t) = Rendered(k[w], u)
    BY <2>1, RenderedAlike DEF Corresponding, WellFormed
  <2> QED BY <1>0, <2>2
<1>3. Depth + 1 \in Reached
  <2>1. Depth + 1 \in Nat
    BY CanonicalAssumption
  <2> HIDE DEF Reached
  <2>2. Reached = Nat
    BY <1>1, <1>2, AllNumbers DEF Reached
  <2> QED BY <2>1, <2>2
<1>4. Nesting[v0[2]] < Depth + 1
  BY NestingIs, CanonicalAssumption DEF WellFormed
<1>5. t[v0] = u[w0]
  BY <1>3, <1>4
<1> QED BY <1>5 DEF t, u

----------------------------------------------------------------------------
(* What callers and records hold *)

\* What a record may hold of what was at an address: immutable containers of
\* scalars and of less nested parts of its own.
PartsAt(a) ==
    LET values == Scalars \cup {v \in Refs("own") : Nesting[v[2]] < Nesting[a]}
    IN  Lists("tuple", values) \cup Dictionaries("mapping", values)

RecordOK(r) ==
    /\ r.value \in Refs("own")
    /\ DOMAIN r.parts = Addresses
    /\ \A a \in Addresses : r.parts[a] \in PartsAt(a)

HeldOK ==
    /\ DOMAIN heap = Addresses
    /\ \A a \in Addresses : heap[a] \in CallersAt(a)
    /\ \A r \in records : RecordOK(r)

\* What is in a container, of the caller or of a record.
LEMMA ListIs ==
    ASSUME NEW S, NEW kind, NEW c \in Lists(kind, S)
    PROVE  /\ c = <<kind, Items(c), << >> >> /\ KindOf(c) = kind
           /\ Items(c) \in Seq(S)
           /\ \A l \in DOMAIN Items(c) : Items(c)[l] \in S
<1>1. PICK items \in Seq(S) : c = <<kind, items, << >> >>
  BY DEF Lists
<1> QED BY <1>1 DEF KindOf, Items

LEMMA DictionaryIs ==
    ASSUME NEW S, NEW kind, NEW c \in Dictionaries(kind, S)
    PROVE  /\ c = <<kind, Items(c), c[3]>> /\ KindOf(c) = kind /\ c[3] \in Seq(Keys)
           /\ DOMAIN Items(c) \in SUBSET Keys
           /\ Items(c) \in [DOMAIN Items(c) -> S]
           /\ \A l \in DOMAIN Items(c) : Items(c)[l] \in S
<1>1. PICK K \in SUBSET Keys :
         \E items \in [K -> S], order \in Seq(Keys) : c = <<kind, items, order>>
  BY DEF Dictionaries
<1> QED BY <1>1 DEF KindOf, Items

\* Freezing makes parts of containers, of the same labels, scalars and places.
LEMMA FreezeMakes ==
    ASSUME NEW a \in Addresses, NEW c \in CallersAt(a)
    PROVE  /\ Freeze(c) \in PartsAt(a)
           /\ HasKeys(Freeze(c)) <=> HasKeys(c)
           /\ DOMAIN Items(Freeze(c)) = DOMAIN Items(c)
           /\ \A l \in DOMAIN Items(c) :
                 Items(Freeze(c))[l] = IF IsRef(Items(c)[l]) THEN <<"own", Items(c)[l][2]>>
                                       ELSE Items(c)[l]
<1> DEFINE S == Scalars \cup {v \in Refs("ref") : Nesting[v[2]] < Nesting[a]}
           T == Scalars \cup {v \in Refs("own") : Nesting[v[2]] < Nesting[a]}
           Frost(x) == IF IsRef(x) THEN <<"own", x[2]>> ELSE x
           items == [l \in DOMAIN Items(c) |-> Frost(Items(c)[l])]
<1>0. c \in Lists("list", S) \cup Dictionaries("dict", S)
  BY DEF CallersAt
<1>1. \A x \in S : Frost(x) \in T
  BY CanonicalAssumption DEF Refs, IsRef
<1> HIDE DEF S, T
<1>2. \A l \in DOMAIN Items(c) : items[l] \in T
  BY <1>0, <1>1, ListIs, DictionaryIs
<1>3. Freeze(c) = <<Frozen(c[1]), items, c[3]>>
  <2>1. \E kind, part, order : c = <<kind, part, order>>
    BY <1>0, ListIs, DictionaryIs
  <2>2. PICK kind, part, order : c = <<kind, part, order>>
    BY <2>1
  <2> HIDE DEF items
  <2>3. Freeze(c) = [c EXCEPT ![1] = Frozen(c[1]), ![2] = items]
    BY DEF Freeze, Items, items
  <2> QED BY <2>2, <2>3
<1>4. Items(Freeze(c)) = items /\ KindOf(Freeze(c)) = Frozen(KindOf(c))
  BY <1>3 DEF Items, KindOf
<1>5. CASE c \in Lists("list", S)
  <2>1. Items(c) \in Seq(S) /\ KindOf(c) = "list" /\ c[3] = <<>>
    BY <1>5, ListIs
  <2>2. items \in Seq(T)
    <3>1. PICK n \in Nat : DOMAIN Items(c) = 1..n
      BY <2>1, LenProperties
    <3>2. items \in [1..n -> T]
      BY <1>2, <3>1
    <3> HIDE DEF items
    <3> QED BY <3>2
  <2> HIDE DEF items
  <2>3. Freeze(c) \in Lists("tuple", T)
    <3>1. Freeze(c) = <<"tuple", items, << >> >>
      BY <1>3, <2>1 DEF Frozen, KindOf
    <3> QED BY <2>2, <3>1 DEF Lists
  <2> USE DEF items
  <2> QED BY <1>4, <2>1, <2>3 DEF PartsAt, T, HasKeys, Frozen
<1>6. CASE c \in Dictionaries("dict", S)
  <2>1. DOMAIN Items(c) \in SUBSET Keys /\ KindOf(c) = "dict" /\ c[3] \in Seq(Keys)
    BY <1>6, DictionaryIs
  <2>2. items \in [DOMAIN Items(c) -> T]
    BY <1>2
  <2>3. Freeze(c) \in Dictionaries("mapping", T)
    <3> HIDE DEF items
    <3>1. Freeze(c) = <<"mapping", items, c[3]>>
      BY <1>3, <2>1 DEF Frozen, KindOf
    <3> QED BY <2>1, <2>2, <3>1 DEF Dictionaries
  <2> QED BY <1>4, <2>1, <2>3 DEF PartsAt, T, HasKeys, Frozen
<1> QED BY <1>0, <1>5, <1>6

LEMMA HeldInit == Init => HeldOK
<1> SUFFICES ASSUME Init PROVE HeldOK
  OBVIOUS
<1>1. \A a \in Addresses : heap[a] \in CallersAt(a)
  BY CanonicalAssumption DEF Init
<1> QED BY <1>1 DEF Init, HeldOK

LEMMA HeldNext ==
    ASSUME HeldOK, [Next]_vars
    PROVE  HeldOK'
<1>1. CASE UNCHANGED vars
  BY <1>1 DEF vars, HeldOK, RecordOK
<1>2. ASSUME NEW a \in Addresses, Construct(a) PROVE HeldOK'
  <2> DEFINE new == [text  |-> Canonical(CallersMemory)[<<"ref", a>>],
                     value |-> <<"own", a>>, parts |-> Copies]
  <2>1. heap' = heap /\ records' = records \cup {new}
    BY <1>2 DEF Construct
  <2>2. \A b \in Addresses : Copies[b] \in PartsAt(b)
    BY FreezeMakes DEF Copies, HeldOK
  <2>3. RecordOK(new)
    BY <2>2 DEF RecordOK, Refs, Copies
  <2> HIDE DEF new
  <2> QED BY <2>1, <2>3 DEF HeldOK
<1>3. ASSUME NEW a \in DOMAIN Edited, NEW c \in Edited[a], Edit(a, c) PROVE HeldOK'
  <2>1. a \in Addresses /\ c \in CallersAt(a)
    BY CanonicalAssumption
  <2>2. heap' = [heap EXCEPT ![a] = c] /\ records' = records
    BY <1>3 DEF Edit
  <2> QED BY <2>1, <2>2 DEF HeldOK
<1> QED BY <1>1, <1>2, <1>3 DEF Next

\* What the caller holds has no loops and no loose ends, and neither has what can be
\* reached from a record.
MemoryOK ==
    /\ WellFormed(CallersMemory)
    /\ \A r \in records : WellFormed(Memory(r))

LEMMA MemoryWell == HeldOK => MemoryOK
<1> SUFFICES ASSUME HeldOK PROVE MemoryOK
  OBVIOUS
<1>1. ASSUME NEW a \in Addresses
      PROVE  /\ HasKeys(heap[a]) => DOMAIN Items(heap[a]) \in SUBSET Keys
             /\ ~HasKeys(heap[a]) => \E n \in Nat : DOMAIN Items(heap[a]) = 1..n
             /\ \A l \in DOMAIN Items(heap[a]) :
                   LET x == Items(heap[a])[l]
                   IN  IF IsRef(x) THEN x \in Refs("ref") /\ Nesting[x[2]] < Nesting[a]
                       ELSE x \in Scalars
  <2> DEFINE S == Scalars \cup {v \in Refs("ref") : Nesting[v[2]] < Nesting[a]}
  <2>1. heap[a] \in Lists("list", S) \cup Dictionaries("dict", S)
    BY DEF HeldOK, CallersAt
  <2>2. \A x \in S : IF IsRef(x) THEN x \in Refs("ref") /\ Nesting[x[2]] < Nesting[a]
                     ELSE x \in Scalars
    BY CanonicalAssumption DEF Refs, IsRef
  <2> HIDE DEF S
  <2> QED BY <2>1, <2>2, ListIs, DictionaryIs, LenProperties DEF HasKeys
<1>2. ASSUME NEW r \in records, NEW a \in Addresses
      PROVE  /\ HasKeys(r.parts[a]) => DOMAIN Items(r.parts[a]) \in SUBSET Keys
             /\ ~HasKeys(r.parts[a]) => \E n \in Nat : DOMAIN Items(r.parts[a]) = 1..n
             /\ \A l \in DOMAIN Items(r.parts[a]) :
                   LET x == Items(r.parts[a])[l]
                   IN  IF IsRef(x) THEN x \in Refs("own") /\ Nesting[x[2]] < Nesting[a]
                       ELSE x \in Scalars
  <2> DEFINE S == Scalars \cup {v \in Refs("own") : Nesting[v[2]] < Nesting[a]}
  <2>1. r.parts[a] \in Lists("tuple", S) \cup Dictionaries("mapping", S)
    BY DEF HeldOK, RecordOK, PartsAt
  <2>2. \A x \in S : IF IsRef(x) THEN x \in Refs("own") /\ Nesting[x[2]] < Nesting[a]
                     ELSE x \in Scalars
    BY CanonicalAssumption DEF Refs, IsRef
  <2> HIDE DEF S
  <2> QED BY <2>1, <2>2, ListIs, DictionaryIs, LenProperties DEF HasKeys
<1>3. WellFormed(CallersMemory)
  BY <1>1 DEF WellFormed, CallersMemory, Refs
<1>4. ASSUME NEW r \in records PROVE WellFormed(Memory(r))
  <2> DEFINE m == Memory(r)
  <2>1. /\ DOMAIN m = Refs("ref") \cup Refs("own")
        /\ \A v \in Refs("ref") : m[v] = heap[v[2]] /\ v[2] \in Addresses
        /\ \A v \in Refs("own") : m[v] = r.parts[v[2]] /\ v[2] \in Addresses
    BY DEF Memory, Refs
  <2> HIDE DEF m
  <2>2. ASSUME NEW v \in DOMAIN m
        PROVE  /\ HasKeys(m[v]) => DOMAIN Items(m[v]) \in SUBSET Keys
               /\ ~HasKeys(m[v]) => \E n \in Nat : DOMAIN Items(m[v]) = 1..n
               /\ \A l \in DOMAIN Items(m[v]) :
                     LET x == Items(m[v])[l]
                     IN  IF IsRef(x) THEN x \in DOMAIN m /\ Nesting[x[2]] < Nesting[v[2]]
                         ELSE x \in Scalars
    <3>1. CASE v \in Refs("ref")
      BY <1>1, <2>1, <3>1
    <3>2. CASE v \in Refs("own")
      <4>1. PICK a \in Addresses : a = v[2] /\ m[v] = r.parts[a]
        BY <2>1, <3>2
      <4>2. /\ HasKeys(m[v]) => DOMAIN Items(m[v]) \in SUBSET Keys
            /\ ~HasKeys(m[v]) => \E n \in Nat : DOMAIN Items(m[v]) = 1..n
        BY <1>2, <4>1
      <4>3. \A l \in DOMAIN Items(m[v]) :
               LET x == Items(m[v])[l]
               IN  IF IsRef(x) THEN x \in Refs("own") /\ Nesting[x[2]] < Nesting[a]
                   ELSE x \in Scalars
        BY <1>2, <4>1
      <4> QED BY <2>1, <4>1, <4>2, <4>3
    <3> QED BY <2>1, <3>1, <3>2
  <2> QED BY <2>1, <2>2 DEF WellFormed, m
<1> QED BY <1>3, <1>4 DEF MemoryOK

BaseInv == HeldOK /\ MemoryOK

LEMMA Base == Spec => []BaseInv
<1>1. Init => BaseInv
  BY HeldInit, MemoryWell DEF BaseInv
<1>2. MemoryOK' \/ ~ HeldOK'
  BY MemoryWell, PTL
<1>3. BaseInv /\ [Next]_vars => BaseInv'
  BY <1>2, HeldNext DEF BaseInv
<1> QED BY <1>1, <1>3, PTL DEF Spec

----------------------------------------------------------------------------
(* Ids and contents *)

\* What is reached from a record, at its places.
LEMMA MemoryAt ==
    ASSUME NEW r
    PROVE  /\ DOMAIN Memory(r) = Refs("ref") \cup Refs("own")
           /\ \A v \in Refs("own") : Memory(r)[v] = r.parts[v[2]]
BY DEF Memory, Refs

\* The parts of a record lead to parts of the record.
LEMMA PartsLead ==
    ASSUME NEW r, RecordOK(r), NEW v \in Refs("own"),
           NEW l \in DOMAIN Items(r.parts[v[2]]), IsRef(Items(r.parts[v[2]])[l])
    PROVE  Items(r.parts[v[2]])[l] \in Refs("own")
<1> DEFINE a == v[2]
           S == Scalars \cup {w \in Refs("own") : Nesting[w[2]] < Nesting[a]}
<1>1. r.parts[a] \in Lists("tuple", S) \cup Dictionaries("mapping", S)
  BY DEF RecordOK, PartsAt, Refs
<1>2. \A x \in S : IsRef(x) => x \in Refs("own")
  BY CanonicalAssumption
<1> HIDE DEF S
<1> QED BY <1>1, <1>2, ListIs, DictionaryIs

\* The text of a record's value depends on its own parts alone.
LEMMA TextStays ==
    ASSUME BaseInv, BaseInv', NEW r \in records, r \in records'
    PROVE  Canonical(Memory(r)')[r.value] = Canonical(Memory(r))[r.value]
<1> DEFINE m == Memory(r)
           k == Memory(r)'
           R == {<<v, v>> : v \in Refs("own")}
<1>1. WellFormed(m) /\ WellFormed(k) /\ RecordOK(r)
  BY DEF BaseInv, HeldOK, MemoryOK
<1>2. /\ DOMAIN m = Refs("ref") \cup Refs("own") /\ DOMAIN k = Refs("ref") \cup Refs("own")
      /\ \A v \in Refs("own") : m[v] = r.parts[v[2]] /\ k[v] = r.parts[v[2]]
  BY DEF Memory, Refs
<1> HIDE DEF m, k
<1>3. Corresponding(R, m, k)
  BY <1>1, <1>2, PartsLead DEF Corresponding
<1>4. r.value \in DOMAIN m /\ r.value \in DOMAIN k /\ <<r.value, r.value>> \in R
  BY <1>1, <1>2 DEF RecordOK
<1> HIDE DEF R
<1>5. Canonical(m)[r.value] = Canonical(k)[r.value]
  BY <1>1, <1>3, <1>4, CorrespondingTexts
<1> QED BY <1>5 DEF m, k

\* A new record's copies say what the caller's containers do.
LEMMA CopiesAgree ==
    ASSUME BaseInv, NEW r, RecordOK(r), r.parts = Copies, WellFormed(Memory(r)),
           NEW a \in Addresses
    PROVE  Canonical(Memory(r))[<<"own", a>>] = Canonical(CallersMemory)[<<"ref", a>>]
<1> DEFINE m == Memory(r)
           k == CallersMemory
           R == {<< <<"own", b>>, <<"ref", b>> >> : b \in Addresses}
<1>1. WellFormed(m) /\ WellFormed(k)
  BY DEF BaseInv, MemoryOK
<1>2. /\ DOMAIN m = Refs("ref") \cup Refs("own") /\ DOMAIN k = Refs("ref")
      /\ \A b \in Addresses : m[<<"own", b>>] = Freeze(heap[b]) /\ k[<<"ref", b>>] = heap[b]
  BY DEF Memory, CallersMemory, Copies, Refs
<1> HIDE DEF m, k
<1>3. ASSUME NEW b \in Addresses
      PROVE  /\ HasKeys(m[<<"own", b>>]) <=> HasKeys(k[<<"ref", b>>])
             /\ DOMAIN Items(m[<<"own", b>>]) = DOMAIN Items(k[<<"ref", b>>])
             /\ \A l \in DOMAIN Items(m[<<"own", b>>]) :
                   LET x == Items(m[<<"own", b>>])[l]
                       y == Items(k[<<"ref", b>>])[l]
                   IN  \/ ~IsRef(x) /\ x = y
                       \/ IsRef(x) /\ IsRef(y) /\ <<x, y>> \in R
  <2> DEFINE S == Scalars \cup {v \in Refs("ref") : Nesting[v[2]] < Nesting[b]}
             c == heap[b]
  <2>1. c \in Lists("list", S) \cup Dictionaries("dict", S) /\ c \in CallersAt(b)
    BY DEF BaseInv, HeldOK, CallersAt
  <2>2. \A y \in S : ~IsRef(y) \/ y \in Refs("ref")
    BY CanonicalAssumption
  <2> HIDE DEF S, c
  <2>3. ASSUME NEW l \in DOMAIN Items(c)
        PROVE  LET x == Items(Freeze(c))[l]
                   y == Items(c)[l]
               IN  \/ ~IsRef(x) /\ x = y
                   \/ IsRef(x) /\ IsRef(y) /\ <<x, y>> \in R
    <3>1. ~IsRef(Items(c)[l]) \/ Items(c)[l] \in Refs("ref")
      BY <2>1, <2>2, ListIs, DictionaryIs
    <3>2. Items(Freeze(c))[l] = IF IsRef(Items(c)[l]) THEN <<"own", Items(c)[l][2]>>
                                ELSE Items(c)[l]
      BY <2>1, FreezeMakes
    <3>3. CASE Items(c)[l] \in Refs("ref")
      <4>1. PICK d \in Addresses : Items(c)[l] = <<"ref", d>>
        BY <3>3 DEF Refs
      <4>2. Items(Freeze(c))[l] = <<"own", d>>
        BY <3>2, <4>1 DEF IsRef
      <4> QED BY <4>1, <4>2 DEF IsRef
    <3> QED BY <3>1, <3>2, <3>3
  <2>4. /\ HasKeys(Freeze(c)) <=> HasKeys(c)
        /\ DOMAIN Items(Freeze(c)) = DOMAIN Items(c)
    BY <2>1, FreezeMakes
  <2>5. m[<<"own", b>>] = Freeze(c) /\ k[<<"ref", b>>] = c
    BY <1>2 DEF c
  <2> HIDE DEF R
  <2> QED BY <2>3, <2>4, <2>5
<1>4. Corresponding(R, m, k)
  <2>1. ASSUME NEW v, NEW w, <<v, w>> \in R
        PROVE  \E b \in Addresses : v = <<"own", b>> /\ w = <<"ref", b>>
    BY <2>1
  <2> HIDE DEF R
  <2> SUFFICES ASSUME NEW v \in DOMAIN m, NEW w \in DOMAIN k, <<v, w>> \in R
               PROVE  /\ HasKeys(m[v]) <=> HasKeys(k[w])
                      /\ DOMAIN Items(m[v]) = DOMAIN Items(k[w])
                      /\ \A l \in DOMAIN Items(m[v]) :
                            LET x == Items(m[v])[l]
                                y == Items(k[w])[l]
                            IN  \/ ~IsRef(x) /\ x = y
                                \/ IsRef(x) /\ IsRef(y) /\ <<x, y>> \in R
    BY DEF Corresponding
  <2>2. PICK b \in Addresses : v = <<"own", b>> /\ w = <<"ref", b>>
    BY <2>1
  <2> QED BY <1>3, <2>2
<1>5. /\ <<"own", a>> \in DOMAIN m /\ <<"ref", a>> \in DOMAIN k
      /\ << <<"own", a>>, <<"ref", a>> >> \in R
  BY <1>2 DEF Refs
<1> HIDE DEF R
<1>6. Canonical(m)[<<"own", a>>] = Canonical(k)[<<"ref", a>>]
  BY <1>1, <1>4, <1>5, CorrespondingTexts
<1> QED BY <1>6 DEF m, k

\* Whatever the caller does with its containers after it has built a record, the
\* record's id is the digest of what the record holds.
THEOREM IdAlwaysDescribesContent == Spec => []IdDescribesContent
<1>1. Init => IdDescribesContent
  BY DEF Init, IdDescribesContent
<1>2. ASSUME BaseInv, BaseInv', IdDescribesContent, [Next]_vars
      PROVE  IdDescribesContent'
  <2>1. ASSUME NEW r \in records, r \in records'
        PROVE  Canonical(Memory(r)')[r.value] = r.text
    BY <1>2, <2>1, TextStays DEF IdDescribesContent
  <2>2. ASSUME NEW a \in Addresses, Construct(a) PROVE IdDescribesContent'
    <3>1. PICK r : r = [text  |-> Canonical(CallersMemory)[<<"ref", a>>],
                        value |-> <<"own", a>>, parts |-> Copies]
      OBVIOUS
    <3>2. heap' = heap /\ records' = records \cup {r}
      BY <2>2, <3>1 DEF Construct
    <3>3. Memory(r)' = Memory(r)
      BY <3>2 DEF Memory
    <3>4. WellFormed(Memory(r)) /\ RecordOK(r)
      BY <1>2, <3>2, <3>3 DEF BaseInv, MemoryOK, HeldOK
    <3>5. r.parts = Copies /\ r.value = <<"own", a>>
          /\ r.text = Canonical(CallersMemory)[<<"ref", a>>]
      BY <3>1
    <3>6. Canonical(Memory(r)')[r.value] = r.text
      BY <1>2, <3>3, <3>4, <3>5, CopiesAgree
    <3> QED BY <2>1, <3>2, <3>6 DEF IdDescribesContent
  <2>3. CASE UNCHANGED records
    BY <2>1, <2>3 DEF IdDescribesContent
  <2>4. UNCHANGED records \/ \E a \in Addresses : Construct(a)
    BY <1>2 DEF Next, Edit, vars
  <2> QED BY <2>2, <2>3, <2>4
<1> QED BY <1>1, <1>2, Base, PTL DEF Spec

\* Records whose parts are alike all the way down have the same text.
LEMMA SameTexts ==
    ASSUME BaseInv, NEW r \in records, NEW s \in records, Same(r, s)
    PROVE  Canonical(Memory(r))[r.value] = Canonical(Memory(s))[s.value]
<1> DEFINE m == Memory(r)
           k == Memory(s)
<1>1. WellFormed(m) /\ WellFormed(k) /\ RecordOK(r) /\ RecordOK(s)
  BY DEF BaseInv, MemoryOK, HeldOK
<1>2. PICK A \in SUBSET {p \in Addresses \X Addresses :
                             Alike(r.parts[p[1]], s.parts[p[2]])} :
         /\ <<r.value[2], s.value[2]>> \in A
         /\ \A p \in A : LedTo(r.parts[p[1]], s.parts[p[2]]) \subseteq A
  BY DEF Same
<1> DEFINE R == {q \in Refs("own") \X Refs("own") : <<q[1][2], q[2][2]>> \in A}
<1>3. /\ DOMAIN m = Refs("ref") \cup Refs("own") /\ DOMAIN k = Refs("ref") \cup Refs("own")
      /\ \A v \in Refs("own") : m[v] = r.parts[v[2]] /\ k[v] = s.parts[v[2]]
  BY MemoryAt
<1> HIDE DEF m, k
<1>4. ASSUME NEW v \in Refs("own"), NEW w \in Refs("own"), <<v[2], w[2]>> \in A
      PROVE  /\ HasKeys(m[v]) <=> HasKeys(k[w])
             /\ DOMAIN Items(m[v]) = DOMAIN Items(k[w])
             /\ \A l \in DOMAIN Items(m[v]) :
                   LET x == Items(m[v])[l]
                       y == Items(k[w])[l]
                   IN  \/ ~IsRef(x) /\ x = y
                       \/ IsRef(x) /\ IsRef(y) /\ <<x, y>> \in R
  <2> DEFINE c == r.parts[v[2]]
             d == s.parts[w[2]]
  <2>1. m[v] = c /\ k[w] = d
    BY <1>3
  <2>2. Alike(c, d) /\ LedTo(c, d) \subseteq A
    BY <1>2, <1>4
  <2>3. \A l \in DOMAIN Items(c) : IsRef(Items(c)[l]) => Items(c)[l] \in Refs("own")
    BY <1>1, PartsLead
  <2>4. \A l \in DOMAIN Items(d) : IsRef(Items(d)[l]) => Items(d)[l] \in Refs("own")
    BY <1>1, PartsLead
  <2> HIDE DEF c, d
  <2>5. ASSUME NEW l \in DOMAIN Items(c)
        PROVE  LET x == Items(c)[l]
                   y == Items(d)[l]
               IN  \/ ~IsRef(x) /\ x = y
                   \/ IsRef(x) /\ IsRef(y) /\ <<x, y>> \in R
    <3> DEFINE x == Items(c)[l]
               y == Items(d)[l]
    <3>1. l \in DOMAIN Items(d) /\ (x = y \/ (x[1] = "own" /\ y[1] = "own"))
      BY <2>2 DEF Alike
    <3>2. CASE x[1] = "own" /\ y[1] = "own"
      <4>1. x \in Refs("own") /\ y \in Refs("own")
        BY <2>3, <2>4, <3>1, <3>2 DEF IsRef
      <4>2. <<x[2], y[2]>> \in LedTo(c, d)
        BY <3>2 DEF LedTo
      <4> QED BY <2>2, <4>1, <4>2, <3>2 DEF IsRef
    <3>3. CASE x = y /\ x[1] # "own"
      <4>1. ~IsRef(x)
        BY <2>3, <3>3 DEF Refs
      <4> QED BY <3>3, <4>1
    <3> QED BY <3>1, <3>2, <3>3
  <2> HIDE DEF R
  <2> QED BY <2>1, <2>2, <2>5 DEF Alike, HasKeys
<1>5. Corresponding(R, m, k)
  <2>1. ASSUME NEW v, NEW w, <<v, w>> \in R
        PROVE  v \in Refs("own") /\ w \in Refs("own") /\ <<v[2], w[2]>> \in A
    BY <2>1
  <2> HIDE DEF R
  <2> QED BY <1>4, <2>1 DEF Corresponding
<1>6. r.value \in DOMAIN m /\ s.value \in DOMAIN k /\ <<r.value, s.value>> \in R
  BY <1>1, <1>2, <1>3 DEF RecordOK
<1> HIDE DEF R
<1>7. Canonical(m)[r.value] = Canonical(k)[s.value]
  BY <1>1, <1>5, <1>6, CorrespondingTexts
<1> QED BY <1>7 DEF m, k

\* The order in which a mapping was filled, and whether a list or a tuple was given,
\* give no content a second id.
THEOREM SameContentAlwaysSameId == Spec => []SameContentSameId
<1>1. BaseInv /\ IdDescribesContent => SameContentSameId
  BY SameTexts DEF IdDescribesContent, SameContentSameId
<1> QED BY <1>1, Base, IdAlwaysDescribesContent, PTL

----------------------------------------------------------------------------
(* A text can be taken apart again *)

\* JoinedFrom is what the recursion says: what follows a text is what is joined from
\* the next one on.
JoinedBody(texts, close, from, i) ==
    IF i > Len(texts) THEN <<close>>
    ELSE (IF i = 1 THEN <<>> ELSE <<Comma>>) \o (texts[i] \o from[i + 1])

LEMMA JoinedFromIs ==
    ASSUME NEW texts, Len(texts) \in Nat, NEW close
    PROVE  LET f == JoinedFrom(texts, close)
           IN  f = [i \in 1..(Len(texts) + 1) |-> JoinedBody(texts, close, f, i)]
<1> DEFINE n == Len(texts)
           Right(f, j) ==
               /\ f = [i \in 1..(n + 1) |-> f[i]]
               /\ \A i \in 1..(n + 1) : i + j > n + 1 => f[i] = JoinedBody(texts, close, f, i)
           Reached == {j \in Nat : \E f : Right(f, j)}
<1>1. 0 \in Reached
  <2> DEFINE f == [i \in 1..(n + 1) |-> {}]
  <2>1. Right(f, 0)
    OBVIOUS
  <2> HIDE DEF Right, f
  <2> QED BY <2>1
<1>2. ASSUME NEW j \in Reached PROVE j + 1 \in Reached
  <2>1. PICK f : Right(f, j)
    BY <1>2
  <2> DEFINE g == [i \in 1..(n + 1) |-> JoinedBody(texts, close, f, i)]
  <2>2. \A i \in 1..(n + 1) : i + j > n + 1 => g[i] = f[i]
    BY <2>1
  <2>3. ASSUME NEW i \in 1..(n + 1), i + (j + 1) > n + 1
        PROVE  g[i] = JoinedBody(texts, close, g, i)
    <3>1. CASE i > n
      BY <3>1 DEF JoinedBody
    <3>2. CASE ~ (i > n)
      <4>1. i + 1 \in 1..(n + 1) /\ (i + 1) + j > n + 1
        BY <2>3, <3>2
      <4>2. g[i + 1] = f[i + 1]
        BY <2>2, <4>1
      <4>3. g[i] = JoinedBody(texts, close, f, i)
        OBVIOUS
      <4> HIDE DEF g
      <4> QED BY <4>2, <4>3 DEF JoinedBody
    <3> QED BY <3>1, <3>2
  <2>4. Right(g, j + 1)
    BY <2>3
  <2> HIDE DEF Right, g
  <2> QED BY <2>4
<1>3. n + 1 \in Reached
  <2> HIDE DEF Reached
  <2>1. Reached = Nat
    BY <1>1, <1>2, AllNumbers DEF Reached
  <2> QED BY <2>1
<1>4. PICK f : Right(f, n + 1)
  BY <1>3
<1>5. f = [i \in 1..(n + 1) |-> JoinedBody(texts, close, f, i)]
  BY <1>4
<1> QED BY <1>5 DEF JoinedFrom, JoinedBody

LEMMA JoinedAt ==
    ASSUME NEW T, Comma \in T, NEW close \in T, NEW texts \in Seq(Seq(T))
    PROVE  LET f == JoinedFrom(texts, close)
               n == Len(texts)
           IN  /\ n \in Nat
               /\ \A i \in 1..(n + 1) : f[i] \in Seq(T)
               /\ f[n + 1] = <<close>>
               /\ \A i \in 1..n : f[i] = (IF i = 1 THEN <<>> ELSE <<Comma>>)
                                             \o (texts[i] \o f[i + 1])
<1> DEFINE n == Len(texts)
           f == JoinedFrom(texts, close)
           Reached == {j \in Nat : \A i \in 1..(n + 1) : i + j > n => f[i] \in Seq(T)}
<1>0. n \in Nat /\ \A i \in 1..n : texts[i] \in Seq(T)
  BY LenProperties
<1>1. f = [i \in 1..(n + 1) |-> JoinedBody(texts, close, f, i)]
  BY <1>0, JoinedFromIs
<1> HIDE DEF f, n
<1>a. \A i \in 1..(n + 1) : f[i] = JoinedBody(texts, close, f, i)
  BY <1>1
<1>2. f[n + 1] = <<close>>
  <2>1. n + 1 \in 1..(n + 1) /\ n + 1 > n
    BY <1>0
  <2>2. JoinedBody(texts, close, f, n + 1) = <<close>>
    BY <2>1 DEF JoinedBody, n
  <2> QED BY <1>a, <2>1, <2>2
<1>3. ASSUME NEW i \in 1..n
      PROVE  f[i] = (IF i = 1 THEN <<>> ELSE <<Comma>>) \o (texts[i] \o f[i + 1])
  <2>1. i \in 1..(n + 1) /\ ~ (i > n)
    BY <1>0
  <2>2. JoinedBody(texts, close, f, i)
           = (IF i = 1 THEN <<>> ELSE <<Comma>>) \o (texts[i] \o f[i + 1])
    BY <2>1 DEF JoinedBody, n
  <2> QED BY <1>a, <2>1, <2>2
<1>4. 0 \in Reached
  <2>1. \A i \in 1..(n + 1) : i + 0 > n => i = n + 1
    BY <1>0
  <2>2. <<close>> \in Seq(T)
    OBVIOUS
  <2> QED BY <1>2, <2>1, <2>2
<1>5. ASSUME NEW j \in Reached PROVE j + 1 \in Reached
  <2> SUFFICES ASSUME NEW i \in 1..(n + 1), i + (j + 1) > n, i # n + 1
               PROVE  f[i] \in Seq(T)
    BY <1>0, <1>2
  <2>1. i \in 1..n /\ i + 1 \in 1..(n + 1) /\ (i + 1) + j > n
    BY <1>0
  <2>2. f[i + 1] \in Seq(T) /\ texts[i] \in Seq(T)
    BY <1>0, <1>5, <2>1
  <2>3. texts[i] \o f[i + 1] \in Seq(T)
    BY <2>2, ConcatProperties
  <2>4. <<>> \in Seq(T) /\ <<Comma>> \in Seq(T)
    OBVIOUS
  <2>5. (IF i = 1 THEN <<>> ELSE <<Comma>>) \in Seq(T)
    BY <2>4
  <2>6. f[i] = (IF i = 1 THEN <<>> ELSE <<Comma>>) \o (texts[i] \o f[i + 1])
    BY <1>3, <2>1
  <2> QED BY <2>3, <2>5, <2>6, ConcatProperties
<1>6. n + 1 \in Reached
  <2> HIDE DEF Reached
  <2>1. Reached = Nat
    BY <1>4, <1>5, AllNumbers DEF Reached
  <2> QED BY <1>0, <2>1
<1>7. \A i \in 1..(n + 1) : f[i] \in Seq(T)
  BY <1>0, <1>6
<1> QED BY <1>0, <1>2, <1>3, <1>7 DEF f, n

\* First tokens and remainders.
LEMMA Cancel ==
    ASSUME NEW T, NEW s \in Seq(T), NEW x \in Seq(T), NEW y \in Seq(T), s \o x = s \o y
    PROVE  x = y
BY ConcatSimplifications

LEMMA FirstOf ==
    ASSUME NEW T, NEW s \in Seq(T), s # <<>>, NEW x \in Seq(T)
    PROVE  s \o x # <<>> /\ (s \o x)[1] = s[1]
<1>1. Len(s) \in Nat \ {0} /\ Len(x) \in Nat
  BY EmptySeq, LenProperties
<1>2. Len(s \o x) = Len(s) + Len(x) /\ 1 \in 1..(Len(s) + Len(x)) /\ 1 <= Len(s)
  BY <1>1, ConcatProperties
<1> QED BY <1>1, <1>2, ConcatProperties

\* What a reader still has before it at each of the texts that are joined, when x
\* follows them.
Separator(i) == IF i = 1 THEN <<>> ELSE <<Comma>>

Rest(texts, close, x) ==
    [i \in 1..(Len(texts) + 1) |-> JoinedFrom(texts, close)[i] \o x]

Reads(T, close, texts, n, rest, x) ==
    /\ n \in Nat
    /\ texts \in [1..n -> Seq(T)]
    /\ rest \in [1..(n + 1) -> Seq(T)]
    /\ rest[n + 1] = <<close>> \o x
    /\ \A i \in 1..n : rest[i] = Separator(i) \o (texts[i] \o rest[i + 1])

Regroups(a, b, c, d) == (a \o (b \o c)) \o d = a \o (b \o (c \o d))

Associates(a, b, c) == (a \o b) \o c = a \o (b \o c)

LEMMA SequencesAssociate ==
    ASSUME NEW T, NEW a \in Seq(T), NEW b \in Seq(T), NEW c \in Seq(T)
    PROVE  Associates(a, b, c)
BY ConcatAssociative DEF Associates

LEMMA PieceIs ==
    ASSUME NEW T, NEW a \in Seq(T), NEW b \in Seq(T), NEW c \in Seq(T), NEW d \in Seq(T)
    PROVE  Regroups(a, b, c, d)
<1>1. b \o c \in Seq(T)
  BY ConcatProperties
<1>2. Associates(a, b \o c, d)
  BY <1>1, SequencesAssociate
<1>3. Associates(b, c, d)
  BY SequencesAssociate
<1> QED BY <1>2, <1>3, Zenon DEF Associates, Regroups

LEMMA RestIs ==
    ASSUME NEW T, Comma \in T, NEW close \in T, NEW texts \in Seq(Seq(T)), NEW x \in Seq(T)
    PROVE  /\ Reads(T, close, texts, Len(texts), Rest(texts, close, x), x)
           /\ Rest(texts, close, x)[1] = Joined(texts, close) \o x
<1> DEFINE n == Len(texts)
           f == JoinedFrom(texts, close)
           r == Rest(texts, close, x)
<1>1. n \in Nat
  BY JoinedAt
<1>2. \A i \in 1..(n + 1) : f[i] \in Seq(T)
  BY JoinedAt
<1>3. f[n + 1] = <<close>>
  BY JoinedAt
<1>4. \A i \in 1..n : f[i] = Separator(i) \o (texts[i] \o f[i + 1])
  BY JoinedAt DEF Separator
<1>5. \A i \in 1..(n + 1) : r[i] = f[i] \o x
  BY DEF Rest
<1>6. DOMAIN r = 1..(n + 1) /\ r = [i \in 1..(n + 1) |-> r[i]]
  BY DEF Rest
<1>7. texts \in [1..n -> Seq(T)]
  BY LenProperties
<1>8. Joined(texts, close) = f[1]
  BY DEF Joined
<1> HIDE DEF n, f, r
<1>9. \A i \in 1..(n + 1) : r[i] \in Seq(T)
  BY <1>2, <1>5, ConcatProperties
<1>10. r[n + 1] = <<close>> \o x /\ r[1] = f[1] \o x
  <2>1. n + 1 \in 1..(n + 1) /\ 1 \in 1..(n + 1)
    BY <1>1
  <2> QED BY <1>3, <1>5, <2>1, Zenon
<1>11. ASSUME NEW i \in 1..n PROVE r[i] = Separator(i) \o (texts[i] \o r[i + 1])
  <2>1. i \in 1..(n + 1) /\ i + 1 \in 1..(n + 1)
    BY <1>1
  <2>2. texts[i] \in Seq(T)
    BY <1>7
  <2>3. f[i + 1] \in Seq(T)
    BY <1>2, <2>1
  <2>4. Separator(i) \in Seq(T)
    BY DEF Separator
  <2>5. (Separator(i) \o (texts[i] \o f[i + 1])) \o x
           = Separator(i) \o (texts[i] \o (f[i + 1] \o x))
    <3>1. Regroups(Separator(i), texts[i], f[i + 1], x)
      BY <2>2, <2>3, <2>4, PieceIs
    <3> QED BY <3>1, Zenon DEF Regroups
  <2>6. f[i] = Separator(i) \o (texts[i] \o f[i + 1])
    BY <1>4
  <2>7. r[i] = f[i] \o x /\ r[i + 1] = f[i + 1] \o x
    BY <1>5, <2>1
  <2> QED BY <2>5, <2>6, <2>7
<1>12. r \in [1..(n + 1) -> Seq(T)]
  BY <1>6, <1>9
<1>13. Reads(T, close, texts, n, r, x)
  BY <1>1, <1>7, <1>10, <1>11, <1>12 DEF Reads
<1> QED BY <1>8, <1>10, <1>13 DEF n, r

\* No text of the one sequence, followed by anything, reads like a different text of
\* the other, and none begins with what separates or closes texts.
Begins(text, close) == text # <<>> /\ text[1] \notin {Comma, close}

Apart(T, s, t) == \A x, y \in Seq(T) : s \o x = t \o y => s = t

\* Before a text that is left a reader does not see the closing bracket.
LEMMA NotClosed ==
    ASSUME NEW T, Comma \in T, NEW close \in T, close # Comma,
           NEW i, NEW u \in Seq(T), Begins(u, close), NEW r \in Seq(T)
    PROVE  (Separator(i) \o (u \o r))[1] # close
<1>1. u \o r \in Seq(T) /\ (u \o r)[1] = u[1] /\ u[1] # close
  BY ConcatProperties, FirstOf DEF Begins
<1>2. CASE i = 1
  <2>1. Separator(i) \o (u \o r) = u \o r
    BY <1>1, <1>2, ConcatEmptySeq DEF Separator
  <2> QED BY <1>1, <2>1
<1>3. CASE i # 1
  <2>1. <<Comma>> \in Seq(T) /\ <<Comma>> # <<>> /\ <<Comma>>[1] = Comma
    OBVIOUS
  <2>2. Separator(i) \o (u \o r) = <<Comma>> \o (u \o r)
    BY <1>3 DEF Separator
  <2> QED BY <1>1, <2>1, <2>2, FirstOf
<1> QED BY <1>2, <1>3

\* Two sequences of such texts that read alike once they are joined are one.
JoinedAlike(T, close, s, t, x, y) ==
    /\ Comma \in T /\ close \in T /\ close # Comma
    /\ s \in Seq(Seq(T)) /\ t \in Seq(Seq(T))
    /\ \A i \in DOMAIN s : Begins(s[i], close)
    /\ \A i \in DOMAIN t : Begins(t[i], close)
    /\ \A i \in DOMAIN s \cap DOMAIN t : Apart(T, s[i], t[i])
    /\ x \in Seq(T) /\ y \in Seq(T)
    /\ Joined(s, close) \o x = Joined(t, close) \o y

LEMMA JoinedApart ==
    ASSUME NEW T, NEW close, NEW s, NEW t, NEW x, NEW y, JoinedAlike(T, close, s, t, x, y)
    PROVE  s = t /\ x = y
<1>0. /\ Comma \in T /\ close \in T /\ close # Comma
      /\ s \in Seq(Seq(T)) /\ t \in Seq(Seq(T))
      /\ \A i \in DOMAIN s : Begins(s[i], close)
      /\ \A i \in DOMAIN t : Begins(t[i], close)
      /\ \A i \in DOMAIN s \cap DOMAIN t : Apart(T, s[i], t[i])
      /\ x \in Seq(T) /\ y \in Seq(T)
      /\ Joined(s, close) \o x = Joined(t, close) \o y
  BY Zenon DEF JoinedAlike
<1> USE <1>0
<1>1. PICK m, r : m = Len(s) /\ r = Rest(s, close, x)
  OBVIOUS
<1>2. PICK n, q : n = Len(t) /\ q = Rest(t, close, y)
  OBVIOUS
<1>3. Reads(T, close, s, m, r, x) /\ Reads(T, close, t, n, q, y) /\ r[1] = q[1]
  BY <1>1, <1>2, RestIs
<1>4. m \in Nat /\ n \in Nat /\ DOMAIN s = 1..m /\ DOMAIN t = 1..n
  BY <1>3 DEF Reads
\* Up to where the shorter of the two ends, they read alike.
<1> DEFINE Reached == {k \in Nat : k <= m /\ k <= n =>
                          r[k + 1] = q[k + 1] /\ \A i \in 1..k : s[i] = t[i]}
<1>5. 0 \in Reached
  BY <1>3
<1>6. ASSUME NEW j \in Reached PROVE j + 1 \in Reached
  <2> SUFFICES ASSUME j + 1 <= m, j + 1 <= n
               PROVE  r[(j + 1) + 1] = q[(j + 1) + 1] /\ \A i \in 1..(j + 1) : s[i] = t[i]
    OBVIOUS
  <2> DEFINE i == j + 1
  <2>1. i \in 1..m /\ i \in 1..n /\ i + 1 \in 1..(m + 1) /\ i + 1 \in 1..(n + 1)
    BY <1>4
  <2>2. r[i] = q[i] /\ \A l \in 1..j : s[l] = t[l]
    BY <1>4
  <2> HIDE DEF i
  <2>3. s[i] \in Seq(T) /\ t[i] \in Seq(T) /\ r[i + 1] \in Seq(T) /\ q[i + 1] \in Seq(T)
    BY <1>3, <2>1 DEF Reads
  <2>4. r[i] = Separator(i) \o (s[i] \o r[i + 1])
    BY <1>3, <2>1 DEF Reads
  <2>5. q[i] = Separator(i) \o (t[i] \o q[i + 1])
    BY <1>3, <2>1 DEF Reads
  <2>6. Separator(i) \in Seq(T) /\ s[i] \o r[i + 1] \in Seq(T) /\ t[i] \o q[i + 1] \in Seq(T)
    BY <2>3, ConcatProperties DEF Separator
  <2>7. s[i] \o r[i + 1] = t[i] \o q[i + 1]
    BY <2>2, <2>4, <2>5, <2>6, Cancel
  <2>8. s[i] = t[i]
    BY <1>4, <2>1, <2>3, <2>7 DEF Apart
  <2>9. r[i + 1] = q[i + 1]
    <3>1. s[i] \o r[i + 1] = s[i] \o q[i + 1]
      BY <2>7, <2>8, Zenon
    <3> QED BY <2>3, <3>1, Cancel, ZenonT(40)
  <2> QED BY <2>2, <2>8, <2>9 DEF i
<1>7. \A k \in Nat : k <= m /\ k <= n =>
         r[k + 1] = q[k + 1] /\ \A i \in 1..k : s[i] = t[i]
  <2>1. Reached = Nat
    <3> HIDE DEF Reached
    <3> QED BY <1>5, <1>6, AllNumbers DEF Reached
  <2> QED BY <2>1
<1>8. r[m + 1] = <<close>> \o x /\ q[n + 1] = <<close>> \o y
  BY <1>3 DEF Reads
<1>9. /\ <<close>> \in Seq(T)
      /\ (<<close>> \o x)[1] = close /\ (<<close>> \o y)[1] = close
  <2>1. <<close>> \in Seq(T) /\ <<close>> # <<>> /\ <<close>>[1] = close
    OBVIOUS
  <2> QED BY <2>1, FirstOf
\* Where one of them is closed, the other has nothing left either.
<1>10. ASSUME m < n PROVE FALSE
  <2>1. m + 1 \in 1..n /\ m + 2 \in 1..(n + 1) /\ r[m + 1] = q[m + 1]
    BY <1>4, <1>7, <1>10
  <2>2. q[m + 1] = Separator(m + 1) \o (t[m + 1] \o q[m + 2])
    <3>1. (m + 1) + 1 = m + 2
      BY <1>4
    <3> QED BY <1>3, <2>1, <3>1, Zenon DEF Reads
  <2>3. t[m + 1] \in Seq(T) /\ q[m + 2] \in Seq(T) /\ Begins(t[m + 1], close)
    BY <1>3, <1>4, <2>1 DEF Reads
  <2>4. q[m + 1][1] # close
    BY <2>2, <2>3, NotClosed, ZenonT(40)
  <2> QED BY <1>8, <1>9, <2>1, <2>4
<1>11. ASSUME n < m PROVE FALSE
  <2>1. n + 1 \in 1..m /\ n + 2 \in 1..(m + 1) /\ r[n + 1] = q[n + 1]
    BY <1>4, <1>7, <1>11
  <2>2. r[n + 1] = Separator(n + 1) \o (s[n + 1] \o r[n + 2])
    <3>1. (n + 1) + 1 = n + 2
      BY <1>4
    <3> QED BY <1>3, <2>1, <3>1, Zenon DEF Reads
  <2>3. s[n + 1] \in Seq(T) /\ r[n + 2] \in Seq(T) /\ Begins(s[n + 1], close)
    BY <1>3, <1>4, <2>1 DEF Reads
  <2>4. r[n + 1][1] # close
    BY <2>2, <2>3, NotClosed, ZenonT(40)
  <2> QED BY <1>8, <1>9, <2>1, <2>4
<1>12. m = n
  BY <1>4, <1>10, <1>11
<1>13. r[m + 1] = q[m + 1] /\ \A i \in 1..m : s[i] = t[i]
  <2>1. m <= m /\ m <= n
    BY <1>4, <1>12
  <2> QED BY <1>4, <1>7, <1>12, <2>1, Zenon
<1>14. x = y
  <2>1. <<close>> \o x = <<close>> \o y
    BY <1>8, <1>12, <1>13, Zenon
  <2> QED BY <1>9, <2>1, Cancel, Zenon
<1>15. s = t
  <2>1. s \in [1..m -> Seq(T)] /\ t \in [1..m -> Seq(T)]
    BY <1>3, <1>12 DEF Reads
  <2>2. s = [i \in 1..m |-> s[i]] /\ t = [i \in 1..m |-> t[i]]
    BY <2>1, Zenon
  <2> QED BY <1>13, <2>2
<1> QED BY <1>14, <1>15

\* The tokens of texts.  No scalar is spelled like another one or like punctuation.
Spelled == Scalars \cup ({"string"} \X Keys)

Spellings == {ScalarText(v) : v \in Spelled}

Openings    == {"[", "{"}
Punctuation == Openings \cup {"]", "}", ",", ":"}

Tokens == Spellings \cup Punctuation

SpellingApart ==
    /\ \A v, w \in Spelled : ScalarText(v) = ScalarText(w) => v = w
    /\ Spellings \cap Punctuation = {}

LEMMA Brackets ==
    /\ Comma \in Punctuation /\ Colon \in Punctuation
    /\ \A c : Opening(c) \in Openings /\ Closing(c) \in Punctuation
    /\ \A c : Closing(c) # Comma /\ Closing(c) \notin Openings
    /\ Comma \notin Openings /\ Openings \subseteq Punctuation
    /\ \A c, d : Opening(c) = Opening(d) => (HasKeys(c) <=> HasKeys(d))
    /\ \A c, d : (HasKeys(c) <=> HasKeys(d)) => Closing(c) = Closing(d)
BY Zenon DEF Comma, Colon, Opening, Closing, Openings, Punctuation

\* A text of a value or of an entry: some tokens, of which the first is the spelling of
\* a scalar or opens a container.
Worded(text) ==
    /\ text \in Seq(Tokens)
    /\ text # <<>>
    /\ text[1] \in Spellings \cup Openings

Opens(text) == Worded(text) /\ text[1] \in Openings

LEMMA WordedBegins ==
    ASSUME SpellingApart, NEW text, Worded(text), NEW c
    PROVE  Begins(text, Closing(c))
<1>1. Comma \notin Spellings \cup Openings
  BY Brackets DEF SpellingApart
<1>2. Closing(c) \notin Spellings \cup Openings
  BY Brackets DEF SpellingApart
<1> QED BY <1>1, <1>2 DEF Begins, Worded

\* Where the items of a container are.
Shaped(c) ==
    /\ HasKeys(c) => DOMAIN Items(c) \in SUBSET Keys
    /\ ~HasKeys(c) => \E n \in Nat : DOMAIN Items(c) = 1..n

LEMMA LabelsListed ==
    ASSUME NEW c, Shaped(c)
    PROVE  Labels(c) \in Seq(DOMAIN Items(c))
<1>1. CASE HasKeys(c)
  BY <1>1, CanonicalAssumption DEF Labels, Shaped
<1>2. CASE ~ HasKeys(c)
  <2>1. PICK n \in Nat : DOMAIN Items(c) = 1..n
    BY <1>2 DEF Shaped
  <2>2. Labels(c) = [l \in 1..n |-> l]
    BY <1>2, <2>1 DEF Labels
  <2> QED BY <2>1, <2>2
<1> QED BY <1>1, <1>2

Entries(c, t) == [i \in DOMAIN Labels(c) |-> Entry(c, Labels(c)[i], t)]

LEMMA EntryWorded ==
    ASSUME NEW c, Shaped(c), NEW t, NEW l \in DOMAIN Items(c), Worded(ValueText(Items(c)[l], t))
    PROVE  Worded(Entry(c, l, t))
<1>1. PICK text : text = ValueText(Items(c)[l], t)
  OBVIOUS
<1>2. text \in Seq(Tokens) /\ Worded(text)
  BY <1>1 DEF Worded
<1>3. CASE HasKeys(c)
  <2>1. <<"string", l>> \in Spelled
    BY <1>3 DEF Shaped, Spelled
  <2>2. PICK key : key = ScalarText(<<"string", l>>)
    OBVIOUS
  <2>3. key \in Spellings /\ key \in Tokens /\ Colon \in Tokens
    BY <2>1, <2>2, Brackets DEF Tokens, Spellings
  <2>4. Entry(c, l, t) = <<key, Colon>> \o text
    BY <1>1, <1>3, <2>2 DEF Entry
  <2>5. <<key, Colon>> \in Seq(Tokens) /\ <<key, Colon>> # <<>> /\ <<key, Colon>>[1] = key
    BY <2>3
  <2>6. <<key, Colon>> \o text \in Seq(Tokens)
    BY <1>2, <2>5, ConcatProperties
  <2>7. <<key, Colon>> \o text # <<>> /\ (<<key, Colon>> \o text)[1] = key
    BY <1>2, <2>5, FirstOf
  <2> QED BY <2>3, <2>4, <2>6, <2>7 DEF Worded
<1>4. CASE ~ HasKeys(c)
  <2>1. Entry(c, l, t) = <<>> \o text
    BY <1>1, <1>4 DEF Entry
  <2>2. <<>> \o text = text
    BY <1>2, ConcatEmptySeq
  <2> QED BY <1>2, <2>1, <2>2
<1> QED BY <1>3, <1>4

LEMMA EntriesWorded ==
    ASSUME NEW c, Shaped(c), NEW t,
           \A l \in DOMAIN Items(c) : Worded(ValueText(Items(c)[l], t))
    PROVE  /\ Entries(c, t) \in Seq(Seq(Tokens))
           /\ \A i \in DOMAIN Labels(c) : Worded(Entries(c, t)[i])
<1>1. PICK n \in Nat : DOMAIN Labels(c) = 1..n
  BY LabelsListed, LenProperties
<1>2. \A i \in 1..n : Labels(c)[i] \in DOMAIN Items(c)
  BY <1>1, LabelsListed, LenProperties
<1>3. \A i \in 1..n : Worded(Entry(c, Labels(c)[i], t))
  BY <1>2, EntryWorded
<1>4. Entries(c, t) = [i \in 1..n |-> Entry(c, Labels(c)[i], t)]
  BY <1>1 DEF Entries
<1>5. \A i \in 1..n : Worded(Entries(c, t)[i])
  BY <1>3, <1>4
<1>6. Entries(c, t) \in [1..n -> Seq(Tokens)]
  BY <1>3, <1>4 DEF Worded
<1> QED BY <1>1, <1>5, <1>6

\* The text of a container opens it, and then shows its entries.
LEMMA RenderedIs ==
    ASSUME NEW c, Shaped(c), NEW t,
           \A l \in DOMAIN Items(c) : Worded(ValueText(Items(c)[l], t))
    PROVE  /\ Rendered(c, t) = <<Opening(c)>> \o Joined(Entries(c, t), Closing(c))
           /\ Opening(c) \in Tokens /\ Closing(c) \in Tokens /\ Comma \in Tokens
           /\ Joined(Entries(c, t), Closing(c)) \in Seq(Tokens)
           /\ Opens(Rendered(c, t))
<1>1. PICK open, rest : open = Opening(c) /\ rest = Joined(Entries(c, t), Closing(c))
  OBVIOUS
<1>2. Rendered(c, t) = <<open>> \o rest
  BY <1>1 DEF Rendered, Entries
<1>3. open \in Tokens /\ open \in Openings /\ Closing(c) \in Tokens /\ Comma \in Tokens
  BY <1>1, Brackets DEF Tokens
<1>4. rest \in Seq(Tokens)
  <2>1. Entries(c, t) \in Seq(Seq(Tokens))
    BY EntriesWorded
  <2>2. 1 \in 1..(Len(Entries(c, t)) + 1)
    BY <2>1, LenProperties
  <2> QED BY <1>1, <1>3, <2>1, <2>2, JoinedAt DEF Joined
<1>5. <<open>> \in Seq(Tokens) /\ <<open>> # <<>> /\ <<open>>[1] = open
  BY <1>3
<1>6. <<open>> \o rest \in Seq(Tokens) /\ <<open>> \o rest # <<>> /\ (<<open>> \o rest)[1] = open
  BY <1>4, <1>5, ConcatProperties, FirstOf
<1>7. Opens(Rendered(c, t))
  BY <1>2, <1>3, <1>6 DEF Worded, Opens
<1> QED BY <1>1, <1>2, <1>3, <1>4, <1>7

\* What well-formed memories hold, container by container.
LEMMA PlaceIs ==
    ASSUME NEW m, WellFormed(m), NEW v \in DOMAIN m
    PROVE  /\ Shaped(m[v])
           /\ \A l \in DOMAIN Items(m[v]) :
                 LET x == Items(m[v])[l]
                 IN  IF IsRef(x) THEN x \in DOMAIN m /\ Nesting[x[2]] < Nesting[v[2]]
                     ELSE x \in Scalars
BY DEF WellFormed, Shaped

\* Every container has a text that is worded like one and opens it.
LEMMA TextsOpen ==
    ASSUME NEW m, WellFormed(m)
    PROVE  \A v \in DOMAIN m : Opens(Canonical(m)[v])
<1> DEFINE t == Canonical(m)
           Reached == {n \in Nat : \A v \in DOMAIN m : Nesting[v[2]] < n => Opens(t[v])}
<1>0. \A v \in DOMAIN m : t[v] = Rendered(m[v], t)
  <2> HIDE DEF t
  <2>1. t = [v \in DOMAIN m |-> Rendered(m[v], t)]
    BY CanonicalIs DEF t
  <2> QED BY <2>1
<1> HIDE DEF t
<1>1. 0 \in Reached
  BY NestingIs, CanonicalAssumption DEF WellFormed
<1>2. ASSUME NEW n \in Reached PROVE n + 1 \in Reached
  <2> SUFFICES ASSUME NEW v \in DOMAIN m, Nesting[v[2]] < n + 1
               PROVE  Opens(t[v])
    OBVIOUS
  <2>1. ASSUME NEW l \in DOMAIN Items(m[v])
        PROVE  Worded(ValueText(Items(m[v])[l], t))
    <3> DEFINE x == Items(m[v])[l]
    <3>1. CASE IsRef(x)
      <4>1. x \in DOMAIN m /\ Nesting[x[2]] < Nesting[v[2]]
        BY <3>1, PlaceIs
      <4>2. Nesting[x[2]] \in Nat /\ Nesting[v[2]] \in Nat /\ n \in Nat
        BY <4>1, NestingIs, CanonicalAssumption DEF WellFormed
      <4>3. Worded(t[x])
        BY <1>2, <4>1, <4>2 DEF Opens
      <4> QED BY <3>1, <4>3 DEF ValueText
    <3>2. CASE ~ IsRef(x)
      <4>1. x \in Spelled
        BY <3>2, PlaceIs DEF Spelled
      <4>2. PICK word : word = ScalarText(x)
        OBVIOUS
      <4>3. word \in Spellings /\ word \in Tokens
        BY <4>1, <4>2 DEF Spellings, Tokens
      <4>4. ValueText(x, t) = <<word>>
        BY <3>2, <4>2 DEF ValueText
      <4> QED BY <4>3, <4>4 DEF Worded
    <3> QED BY <3>1, <3>2
  <2>2. Opens(Rendered(m[v], t))
    BY <2>1, PlaceIs, RenderedIs
  <2> QED BY <1>0, <2>2
<1>3. Depth + 1 \in Reached
  <2>1. Depth + 1 \in Nat
    BY CanonicalAssumption
  <2> HIDE DEF Reached
  <2>2. Reached = Nat
    BY <1>1, <1>2, AllNumbers DEF Reached
  <2> QED BY <2>1, <2>2
<1>4. \A v \in DOMAIN m : Nesting[v[2]] < Depth + 1
  BY NestingIs, CanonicalAssumption DEF WellFormed
<1>5. \A v \in DOMAIN m : Opens(t[v])
  BY <1>3, <1>4
<1> QED BY <1>5 DEF t

\* Entries read apart when the texts of their values do: the key before a value is one
\* token.
LEMMA EntriesApart ==
    ASSUME NEW c, NEW d, NEW t, NEW u, NEW l, NEW k,
           HasKeys(c) <=> HasKeys(d),
           Worded(ValueText(Items(c)[l], t)), Worded(ValueText(Items(d)[k], u)),
           Apart(Tokens, ValueText(Items(c)[l], t), ValueText(Items(d)[k], u)),
           HasKeys(c) => l \in Keys /\ k \in Keys
    PROVE  Apart(Tokens, Entry(c, l, t), Entry(d, k, u))
<1>1. PICK p, q : p = ValueText(Items(c)[l], t) /\ q = ValueText(Items(d)[k], u)
  OBVIOUS
<1>2. p \in Seq(Tokens) /\ q \in Seq(Tokens) /\ Apart(Tokens, p, q)
  BY <1>1 DEF Worded
<1>3. CASE HasKeys(c)
  <2>1. PICK i, j : i = ScalarText(<<"string", l>>) /\ j = ScalarText(<<"string", k>>)
    OBVIOUS
  <2>2. i \in Tokens /\ j \in Tokens /\ Colon \in Tokens
    BY <1>3, <2>1, Brackets DEF Tokens, Spellings, Spelled
  <2>3. Entry(c, l, t) = <<i, Colon>> \o p /\ Entry(d, k, u) = <<j, Colon>> \o q
    BY <1>1, <1>3, <2>1 DEF Entry
  <2>4. <<i, Colon>> \in Seq(Tokens) /\ <<j, Colon>> \in Seq(Tokens)
    BY <2>2
  <2>5. ASSUME NEW x \in Seq(Tokens), NEW y \in Seq(Tokens),
               (<<i, Colon>> \o p) \o x = (<<j, Colon>> \o q) \o y
        PROVE  <<i, Colon>> \o p = <<j, Colon>> \o q
    <3>1. (<<i, Colon>> \o p) \o x = <<i, Colon>> \o (p \o x)
      BY <1>2, <2>4, SequencesAssociate DEF Associates
    <3>2. (<<j, Colon>> \o q) \o y = <<j, Colon>> \o (q \o y)
      BY <1>2, <2>4, SequencesAssociate DEF Associates
    <3>3. p \o x \in Seq(Tokens) /\ q \o y \in Seq(Tokens)
      BY <1>2, ConcatProperties
    <3>4. <<i, Colon>> # <<>> /\ <<j, Colon>> # <<>> /\ <<i, Colon>>[1] = i /\ <<j, Colon>>[1] = j
      OBVIOUS
    <3>5. (<<i, Colon>> \o (p \o x))[1] = i /\ (<<j, Colon>> \o (q \o y))[1] = j
      BY <2>4, <3>3, <3>4, FirstOf
    <3>6. i = j
      BY <2>5, <3>1, <3>2, <3>5
    <3>7. <<i, Colon>> \o (p \o x) = <<i, Colon>> \o (q \o y)
      BY <2>5, <3>1, <3>2, <3>6, Zenon
    <3>8. p \o x = q \o y
      BY <2>4, <3>3, <3>7, Cancel, Zenon
    <3>9. p = q
      BY <1>2, <3>8 DEF Apart
    <3> QED BY <3>6, <3>9
  <2>6. Apart(Tokens, <<i, Colon>> \o p, <<j, Colon>> \o q)
    BY <2>5, Zenon DEF Apart
  <2> QED BY <2>3, <2>6
<1>4. CASE ~ HasKeys(c)
  <2>1. Entry(c, l, t) = <<>> \o p /\ Entry(d, k, u) = <<>> \o q
    BY <1>1, <1>4 DEF Entry
  <2>2. <<>> \o p = p /\ <<>> \o q = q
    BY <1>2, ConcatEmptySeq
  <2> QED BY <1>2, <2>1, <2>2
<1> QED BY <1>3, <1>4

\* Containers whose texts begin alike are of one kind and have the same entries.
Filled(c, t) ==
    /\ Shaped(c)
    /\ \A l \in DOMAIN Items(c) : Worded(ValueText(Items(c)[l], t))

ItemsApart(c, d, t, u) ==
    \A l \in DOMAIN Items(c), k \in DOMAIN Items(d) :
        Apart(Tokens, ValueText(Items(c)[l], t), ValueText(Items(d)[k], u))

LEMMA RenderedApart ==
    ASSUME SpellingApart, NEW c, NEW d, NEW t, NEW u,
           Filled(c, t), Filled(d, u), ItemsApart(c, d, t, u)
    PROVE  /\ Apart(Tokens, Rendered(c, t), Rendered(d, u))
           /\ Rendered(c, t) = Rendered(d, u) =>
                 /\ HasKeys(c) <=> HasKeys(d)
                 /\ Entries(c, t) = Entries(d, u)
<1>0. /\ Shaped(c) /\ \A l \in DOMAIN Items(c) : Worded(ValueText(Items(c)[l], t))
      /\ Shaped(d) /\ \A l \in DOMAIN Items(d) : Worded(ValueText(Items(d)[l], u))
      /\ \A l \in DOMAIN Items(c), k \in DOMAIN Items(d) :
            Apart(Tokens, ValueText(Items(c)[l], t), ValueText(Items(d)[k], u))
  BY DEF Filled, ItemsApart
<1> USE <1>0
<1>1. PICK es, fs : es = Entries(c, t) /\ fs = Entries(d, u)
  OBVIOUS
<1>2. PICK p, q : p = Joined(es, Closing(c)) /\ q = Joined(fs, Closing(d))
  OBVIOUS
<1>3. PICK o1, o2 : o1 = Opening(c) /\ o2 = Opening(d)
  OBVIOUS
<1>4. /\ Rendered(c, t) = <<o1>> \o p /\ Rendered(d, u) = <<o2>> \o q
      /\ o1 \in Tokens /\ o2 \in Tokens /\ p \in Seq(Tokens) /\ q \in Seq(Tokens)
      /\ Comma \in Tokens /\ Closing(c) \in Tokens /\ Closing(d) \in Tokens
  BY <1>1, <1>2, <1>3, RenderedIs
<1>5. /\ <<o1>> \in Seq(Tokens) /\ <<o1>> # <<>> /\ <<o1>>[1] = o1
      /\ <<o2>> \in Seq(Tokens) /\ <<o2>> # <<>> /\ <<o2>>[1] = o2
  BY <1>4
<1>6. ASSUME NEW x \in Seq(Tokens), NEW y \in Seq(Tokens),
             Rendered(c, t) \o x = Rendered(d, u) \o y
      PROVE  /\ HasKeys(c) <=> HasKeys(d)
             /\ es = fs
             /\ Rendered(c, t) = Rendered(d, u)
  <2> USE <1>6
  <2>1. (<<o1>> \o p) \o x = <<o1>> \o (p \o x)
    BY <1>4, <1>5, SequencesAssociate DEF Associates
  <2>2. (<<o2>> \o q) \o y = <<o2>> \o (q \o y)
    BY <1>4, <1>5, SequencesAssociate DEF Associates
  <2>3. p \o x \in Seq(Tokens) /\ q \o y \in Seq(Tokens)
    BY <1>4, ConcatProperties
  <2>4. <<o1>> \o (p \o x) = <<o2>> \o (q \o y)
    BY <1>4, <2>1, <2>2, Zenon
  <2>5. o1 = o2
    BY <1>5, <2>3, <2>4, FirstOf
  <2>6. p \o x = q \o y
    <3>1. <<o1>> \o (p \o x) = <<o1>> \o (q \o y)
      BY <2>4, <2>5, Zenon
    <3> QED BY <1>5, <2>3, <3>1, Cancel, Zenon
  <2>7. HasKeys(c) <=> HasKeys(d)
    BY <1>3, <2>5, Brackets
  <2>8. Closing(c) = Closing(d) /\ Closing(c) # Comma
    BY <2>7, Brackets
  <2>9. /\ es \in Seq(Seq(Tokens)) /\ \A i \in DOMAIN es : Worded(es[i])
        /\ fs \in Seq(Seq(Tokens)) /\ \A i \in DOMAIN fs : Worded(fs[i])
    <3>1. DOMAIN es = DOMAIN Labels(c) /\ DOMAIN fs = DOMAIN Labels(d)
      BY <1>1 DEF Entries
    <3>2. es \in Seq(Seq(Tokens)) /\ \A i \in DOMAIN es : Worded(es[i])
      BY <1>1, <3>1, EntriesWorded
    <3>3. fs \in Seq(Seq(Tokens)) /\ \A i \in DOMAIN fs : Worded(fs[i])
      BY <1>1, <3>1, EntriesWorded
    <3> QED BY <3>2, <3>3
  <2>10. ASSUME NEW i \in DOMAIN es \cap DOMAIN fs PROVE Apart(Tokens, es[i], fs[i])
    <3>1. i \in DOMAIN Labels(c) /\ i \in DOMAIN Labels(d)
      BY <1>1 DEF Entries
    <3>2. PICK l, k : l = Labels(c)[i] /\ k = Labels(d)[i]
      OBVIOUS
    <3>3. l \in DOMAIN Items(c) /\ k \in DOMAIN Items(d)
      BY <3>1, <3>2, LabelsAre DEF Shaped
    <3>4. HasKeys(c) => l \in Keys /\ k \in Keys
      BY <2>7, <3>3 DEF Shaped
    <3>5. Apart(Tokens, Entry(c, l, t), Entry(d, k, u))
      BY <2>7, <3>3, <3>4, EntriesApart
    <3>6. es[i] = Entry(c, l, t) /\ fs[i] = Entry(d, k, u)
      BY <1>1, <3>1, <3>2 DEF Entries
    <3> QED BY <3>5, <3>6
  <2>11. es = fs /\ x = y
    <3>1. PICK close : close = Closing(c)
      OBVIOUS
    <3>2. close \in Tokens /\ close # Comma /\ Comma \in Tokens
      BY <1>4, <2>8, <3>1
    <3>3. Joined(es, close) \o x = Joined(fs, close) \o y
      BY <1>2, <2>6, <2>8, <3>1, Zenon
    <3>4. \A i \in DOMAIN es : Begins(es[i], close)
      BY <2>9, <3>1, WordedBegins, Zenon
    <3>5. \A i \in DOMAIN fs : Begins(fs[i], close)
      BY <2>9, <3>1, WordedBegins, Zenon
    <3>6. \A i \in DOMAIN es \cap DOMAIN fs : Apart(Tokens, es[i], fs[i])
      BY <2>10
    <3>7. es \in Seq(Seq(Tokens)) /\ fs \in Seq(Seq(Tokens))
      BY <2>9
    <3>8. JoinedAlike(Tokens, close, es, fs, x, y)
      BY <3>2, <3>3, <3>4, <3>5, <3>6, <3>7, Zenon DEF JoinedAlike
    <3> QED BY <3>8, JoinedApart
  <2>12. Rendered(c, t) = Rendered(d, u)
    BY <1>2, <1>4, <2>5, <2>8, <2>11, Zenon
  <2> QED BY <2>7, <2>11, <2>12
<1>7. Apart(Tokens, Rendered(c, t), Rendered(d, u))
  BY <1>6, Zenon DEF Apart
<1>8. ASSUME Rendered(c, t) = Rendered(d, u)
      PROVE  (HasKeys(c) <=> HasKeys(d)) /\ es = fs
  <2>1. Rendered(c, t) \o << >> = Rendered(d, u) \o << >> /\ << >> \in Seq(Tokens)
    BY <1>8
  <2> QED BY <1>6, <2>1, Zenon
<1> QED BY <1>1, <1>7, <1>8

\* Texts of values read apart when those of containers do, and a value that is no
\* container can be read off its text.
Valued(x, t) == IF IsRef(x) THEN Opens(t[x]) ELSE x \in Scalars

LEMMA ValueWorded ==
    ASSUME NEW x, NEW t, Valued(x, t)
    PROVE  /\ Worded(ValueText(x, t))
           /\ IsRef(x) => ValueText(x, t) = t[x] /\ ValueText(x, t)[1] \in Openings
           /\ ~IsRef(x) => /\ x \in Spelled /\ ScalarText(x) \in Spellings
                           /\ ValueText(x, t) = <<ScalarText(x)>>
<1>1. CASE IsRef(x)
  BY <1>1 DEF ValueText, Valued, Opens
<1>2. CASE ~ IsRef(x)
  <2>1. PICK word : word = ScalarText(x)
    OBVIOUS
  <2>2. x \in Spelled /\ word \in Spellings /\ word \in Tokens
    BY <1>2, <2>1 DEF Valued, Spelled, Spellings, Tokens
  <2>3. ValueText(x, t) = <<word>>
    BY <1>2, <2>1 DEF ValueText
  <2>4. Worded(<<word>>)
    BY <2>2 DEF Worded
  <2> QED BY <1>2, <2>1, <2>2, <2>3, <2>4
<1> QED BY <1>1, <1>2

LEMMA ValuesApart ==
    ASSUME SpellingApart, NEW x, NEW y, NEW t, NEW u, Valued(x, t), Valued(y, u),
           IsRef(x) /\ IsRef(y) => Apart(Tokens, t[x], u[y])
    PROVE  /\ Apart(Tokens, ValueText(x, t), ValueText(y, u))
           /\ ValueText(x, t) = ValueText(y, u) =>
                 \/ ~IsRef(x) /\ x = y
                 \/ IsRef(x) /\ IsRef(y) /\ t[x] = u[y]
<1>1. PICK p, q : p = ValueText(x, t) /\ q = ValueText(y, u)
  OBVIOUS
<1>2. p \in Seq(Tokens) /\ q \in Seq(Tokens) /\ p # <<>> /\ q # <<>>
  BY <1>1, ValueWorded DEF Worded
\* What follows does not change what a text begins with.
<1>3. ASSUME NEW e \in Seq(Tokens), NEW f \in Seq(Tokens), p \o e = q \o f
      PROVE  p[1] = q[1]
  BY <1>2, <1>3, FirstOf
<1>4. CASE IsRef(x) /\ IsRef(y)
  <2>1. p = t[x] /\ q = u[y]
    BY <1>1, <1>4, ValueWorded
  <2> QED BY <1>1, <1>4, <2>1
<1>5. CASE ~IsRef(x) /\ ~IsRef(y)
  <2>1. PICK i, j : i = ScalarText(x) /\ j = ScalarText(y)
    OBVIOUS
  <2>2. p = <<i>> /\ q = <<j>> /\ x \in Spelled /\ y \in Spelled
    BY <1>1, <1>5, <2>1, ValueWorded
  <2>3. p[1] = i /\ q[1] = j
    BY <2>2
  <2>4. p[1] = q[1] => x = y /\ p = q
    BY <2>1, <2>2, <2>3 DEF SpellingApart
  <2>5. Apart(Tokens, p, q)
    BY <1>3, <2>4 DEF Apart
  <2>6. p = q => x = y
    BY <2>4
  <2> QED BY <1>1, <1>5, <2>5, <2>6
<1>6. CASE ~ (IsRef(x) <=> IsRef(y))
  <2>1. Spellings \cap Openings = {}
    BY Brackets DEF SpellingApart
  <2>2. IsRef(x) => p[1] \in Openings
    BY <1>1, ValueWorded
  <2>3. IsRef(y) => q[1] \in Openings
    BY <1>1, ValueWorded
  <2>4. ~IsRef(x) => p[1] \in Spellings
    <3> SUFFICES ASSUME ~IsRef(x) PROVE p[1] \in Spellings
      OBVIOUS
    <3>1. p = <<ScalarText(x)>> /\ ScalarText(x) \in Spellings
      BY <1>1, ValueWorded
    <3>2. PICK i : i = ScalarText(x)
      OBVIOUS
    <3> QED BY <3>1, <3>2
  <2>5. ~IsRef(y) => q[1] \in Spellings
    <3> SUFFICES ASSUME ~IsRef(y) PROVE q[1] \in Spellings
      OBVIOUS
    <3>1. q = <<ScalarText(y)>> /\ ScalarText(y) \in Spellings
      BY <1>1, ValueWorded
    <3>2. PICK i : i = ScalarText(y)
      OBVIOUS
    <3> QED BY <3>1, <3>2
  <2>6. p[1] # q[1]
    BY <1>6, <2>1, <2>2, <2>3, <2>4, <2>5
  <2>7. Apart(Tokens, p, q) /\ p # q
    BY <1>3, <2>6 DEF Apart
  <2> QED BY <1>1, <2>7
<1> QED BY <1>4, <1>5, <1>6

\* No text of a container, followed by anything, reads like another one.
LEMMA TextsApart ==
    ASSUME SpellingApart, NEW m, NEW k, WellFormed(m), WellFormed(k)
    PROVE  \A v \in DOMAIN m, w \in DOMAIN k :
              Apart(Tokens, Canonical(m)[v], Canonical(k)[w])
<1> DEFINE t == Canonical(m)
           u == Canonical(k)
           Below(n) == \A v \in DOMAIN m, w \in DOMAIN k :
                          Nesting[v[2]] < n => Apart(Tokens, t[v], u[w])
           Reached == {n \in Nat : Below(n)}
<1>0. /\ \A v \in DOMAIN m : t[v] = Rendered(m[v], t)
      /\ \A w \in DOMAIN k : u[w] = Rendered(k[w], u)
  <2> HIDE DEF t, u
  <2>1. t = [v \in DOMAIN m |-> Rendered(m[v], t)] /\ u = [w \in DOMAIN k |-> Rendered(k[w], u)]
    BY CanonicalIs DEF t, u
  <2> QED BY <2>1
<1>a. /\ \A v \in DOMAIN m : Opens(t[v])
      /\ \A w \in DOMAIN k : Opens(u[w])
  BY TextsOpen
<1> HIDE DEF t, u
<1>b. /\ \A v \in DOMAIN m : \A l \in DOMAIN Items(m[v]) : Valued(Items(m[v])[l], t)
      /\ \A w \in DOMAIN k : \A l \in DOMAIN Items(k[w]) : Valued(Items(k[w])[l], u)
  BY <1>a, PlaceIs DEF Valued
<1>1. 0 \in Reached
  BY NestingIs, CanonicalAssumption DEF WellFormed
<1>2. ASSUME NEW n \in Reached PROVE n + 1 \in Reached
  <2> SUFFICES ASSUME NEW v \in DOMAIN m, NEW w \in DOMAIN k, Nesting[v[2]] < n + 1
               PROVE  Apart(Tokens, t[v], u[w])
    OBVIOUS
  <2>1. ASSUME NEW l \in DOMAIN Items(m[v]), NEW j \in DOMAIN Items(k[w])
        PROVE  Apart(Tokens, ValueText(Items(m[v])[l], t), ValueText(Items(k[w])[j], u))
    <3> DEFINE x == Items(m[v])[l]
               y == Items(k[w])[j]
    <3>1. Valued(x, t) /\ Valued(y, u)
      BY <1>b
    <3>2. ASSUME IsRef(x), IsRef(y) PROVE Apart(Tokens, t[x], u[y])
      <4>1. x \in DOMAIN m /\ y \in DOMAIN k /\ Nesting[x[2]] < Nesting[v[2]]
        BY <3>2, PlaceIs
      <4>2. Nesting[x[2]] \in Nat /\ Nesting[v[2]] \in Nat /\ n \in Nat
        BY <4>1, NestingIs, CanonicalAssumption DEF WellFormed
      <4>3. Nesting[x[2]] < n
        BY <4>1, <4>2
      <4> QED BY <1>2, <4>1, <4>3
    <3> HIDE DEF x, y
    <3>3. Apart(Tokens, ValueText(x, t), ValueText(y, u))
      BY <3>1, <3>2, ValuesApart
    <3> QED BY <3>3 DEF x, y
  <2>2. Filled(m[v], t) /\ Filled(k[w], u)
    BY <1>b, PlaceIs, ValueWorded DEF Filled
  <2>3. ItemsApart(m[v], k[w], t, u)
    BY <2>1, Zenon DEF ItemsApart
  <2>4. Apart(Tokens, Rendered(m[v], t), Rendered(k[w], u))
    BY <2>2, <2>3, RenderedApart
  <2> QED BY <1>0, <2>4
<1>3. Depth + 1 \in Reached
  <2>1. Depth + 1 \in Nat
    BY CanonicalAssumption
  <2> HIDE DEF Reached
  <2>2. Reached = Nat
    BY <1>1, <1>2, AllNumbers DEF Reached
  <2> QED BY <2>1, <2>2
<1>4. \A v \in DOMAIN m : Nesting[v[2]] < Depth + 1
  BY NestingIs, CanonicalAssumption DEF WellFormed
<1>5. \A v \in DOMAIN m, w \in DOMAIN k : Apart(Tokens, t[v], u[w])
  BY <1>3, <1>4
<1> QED BY <1>5 DEF t, u

\* Containers of one kind with the same entries have the same labels, and the same text
\* under each.
LEMMA EntryRead ==
    ASSUME SpellingApart, NEW c, NEW d, NEW t, NEW u, NEW l, NEW k,
           HasKeys(c) <=> HasKeys(d),
           Worded(ValueText(Items(c)[l], t)), Worded(ValueText(Items(d)[k], u)),
           HasKeys(c) => l \in Keys /\ k \in Keys,
           Entry(c, l, t) = Entry(d, k, u)
    PROVE  /\ HasKeys(c) => l = k
           /\ ValueText(Items(c)[l], t) = ValueText(Items(d)[k], u)
<1>1. PICK p, q : p = ValueText(Items(c)[l], t) /\ q = ValueText(Items(d)[k], u)
  OBVIOUS
<1>2. p \in Seq(Tokens) /\ q \in Seq(Tokens)
  BY <1>1 DEF Worded
<1>3. CASE HasKeys(c)
  <2>1. PICK i, j : i = ScalarText(<<"string", l>>) /\ j = ScalarText(<<"string", k>>)
    OBVIOUS
  <2>2. i \in Tokens /\ j \in Tokens /\ Colon \in Tokens
    BY <1>3, <2>1, Brackets DEF Tokens, Spellings, Spelled
  <2>3. <<i, Colon>> \o p = <<j, Colon>> \o q
    <3>1. Entry(c, l, t) = <<i, Colon>> \o p
      BY <1>1, <1>3, <2>1 DEF Entry
    <3>2. Entry(d, k, u) = <<j, Colon>> \o q
      BY <1>1, <1>3, <2>1 DEF Entry
    <3> QED BY <3>1, <3>2, Zenon
  <2>4. /\ <<i, Colon>> \in Seq(Tokens) /\ <<i, Colon>> # <<>> /\ <<i, Colon>>[1] = i
        /\ <<j, Colon>> \in Seq(Tokens) /\ <<j, Colon>> # <<>> /\ <<j, Colon>>[1] = j
    BY <2>2
  <2>5. i = j
    BY <1>2, <2>3, <2>4, FirstOf
  <2>6. l = k
    <3>1. <<"string", l>> \in Spelled /\ <<"string", k>> \in Spelled
      BY <1>3 DEF Spelled
    <3>2. <<"string", l>> = <<"string", k>>
      BY <2>1, <2>5, <3>1 DEF SpellingApart
    <3> QED BY <3>2
  <2>7. p = q
    <3>1. <<i, Colon>> \o p = <<i, Colon>> \o q
      BY <2>3, <2>5, Zenon
    <3> QED BY <1>2, <2>4, <3>1, Cancel, Zenon
  <2> QED BY <1>1, <2>6, <2>7
<1>4. CASE ~ HasKeys(c)
  <2>1. Entry(c, l, t) = <<>> \o p /\ Entry(d, k, u) = <<>> \o q
    BY <1>1, <1>4 DEF Entry
  <2>2. <<>> \o p = p /\ <<>> \o q = q
    BY <1>2, ConcatEmptySeq
  <2> QED BY <1>1, <1>4, <2>1, <2>2
<1> QED BY <1>3, <1>4

LEMMA EntriesRead ==
    ASSUME SpellingApart, NEW c, NEW d, NEW t, NEW u, Filled(c, t), Filled(d, u),
           HasKeys(c) <=> HasKeys(d), Entries(c, t) = Entries(d, u)
    PROVE  /\ DOMAIN Items(c) = DOMAIN Items(d)
           /\ \A l \in DOMAIN Items(c) :
                 ValueText(Items(c)[l], t) = ValueText(Items(d)[l], u)
<1>1. Shaped(c) /\ Shaped(d)
  BY DEF Filled
<1>2. DOMAIN Labels(c) = DOMAIN Labels(d)
  BY DEF Entries
<1>3. ASSUME NEW i \in DOMAIN Labels(c)
      PROVE  /\ Labels(c)[i] = Labels(d)[i]
             /\ Labels(c)[i] \in DOMAIN Items(c) /\ Labels(d)[i] \in DOMAIN Items(d)
             /\ ValueText(Items(c)[Labels(c)[i]], t) = ValueText(Items(d)[Labels(d)[i]], u)
  <2>1. PICK l, k : l = Labels(c)[i] /\ k = Labels(d)[i]
    OBVIOUS
  <2>2. l \in DOMAIN Items(c) /\ k \in DOMAIN Items(d)
    BY <1>1, <1>2, <2>1, LabelsAre DEF Shaped
  <2>3. HasKeys(c) => l \in Keys /\ k \in Keys
    BY <1>1, <2>2 DEF Shaped
  <2>4. Entry(c, l, t) = Entry(d, k, u)
    BY <1>2, <2>1 DEF Entries
  <2>5. Worded(ValueText(Items(c)[l], t)) /\ Worded(ValueText(Items(d)[k], u))
    BY <2>2 DEF Filled
  <2>6. (HasKeys(c) => l = k) /\ ValueText(Items(c)[l], t) = ValueText(Items(d)[k], u)
    BY <2>3, <2>4, <2>5, EntryRead
  <2>7. ~ HasKeys(c) => l = i /\ k = i
    BY <1>2, <2>1 DEF Labels
  <2> QED BY <2>1, <2>2, <2>6, <2>7
<1>4. ASSUME NEW l \in DOMAIN Items(c)
      PROVE  l \in DOMAIN Items(d) /\ ValueText(Items(c)[l], t) = ValueText(Items(d)[l], u)
  <2>1. PICK i \in DOMAIN Labels(c) : Labels(c)[i] = l
    BY <1>1, LabelsAre DEF Shaped
  <2> QED BY <1>3, <2>1
<1>5. ASSUME NEW l \in DOMAIN Items(d) PROVE l \in DOMAIN Items(c)
  <2>1. PICK i \in DOMAIN Labels(d) : Labels(d)[i] = l
    BY <1>1, LabelsAre DEF Shaped
  <2> QED BY <1>2, <1>3, <2>1
<1> QED BY <1>4, <1>5

\* From texts that are the same, to containers that are: of one kind, with the same
\* labels, and under each the same scalar or containers with the same text.
LEMMA SameTextRead ==
    ASSUME SpellingApart, NEW m, NEW k, WellFormed(m), WellFormed(k),
           NEW v \in DOMAIN m, NEW w \in DOMAIN k, Canonical(m)[v] = Canonical(k)[w]
    PROVE  /\ HasKeys(m[v]) <=> HasKeys(k[w])
           /\ DOMAIN Items(m[v]) = DOMAIN Items(k[w])
           /\ \A l \in DOMAIN Items(m[v]) :
                 LET x == Items(m[v])[l]
                     y == Items(k[w])[l]
                 IN  \/ ~IsRef(x) /\ x = y
                     \/ IsRef(x) /\ IsRef(y) /\ Canonical(m)[x] = Canonical(k)[y]
<1>1. PICK t, u : t = Canonical(m) /\ u = Canonical(k)
  OBVIOUS
<1>2. t[v] = Rendered(m[v], t) /\ u[w] = Rendered(k[w], u)
  <2>1. t = [z \in DOMAIN m |-> Rendered(m[z], t)] /\ u = [z \in DOMAIN k |-> Rendered(k[z], u)]
    BY <1>1, CanonicalIs
  <2> QED BY <2>1
<1>3. /\ \A z \in DOMAIN m : Opens(t[z])
      /\ \A z \in DOMAIN k : Opens(u[z])
      /\ \A z \in DOMAIN m, e \in DOMAIN k : Apart(Tokens, t[z], u[e])
  BY <1>1, TextsOpen, TextsApart
<1>4. /\ \A l \in DOMAIN Items(m[v]) : Valued(Items(m[v])[l], t)
      /\ \A l \in DOMAIN Items(k[w]) : Valued(Items(k[w])[l], u)
  BY <1>3, PlaceIs DEF Valued
<1>5. Filled(m[v], t) /\ Filled(k[w], u)
  BY <1>4, PlaceIs, ValueWorded DEF Filled
<1>6. ASSUME NEW l \in DOMAIN Items(m[v]), NEW j \in DOMAIN Items(k[w])
      PROVE  LET x == Items(m[v])[l]
                 y == Items(k[w])[j]
             IN  /\ Apart(Tokens, ValueText(x, t), ValueText(y, u))
                 /\ ValueText(x, t) = ValueText(y, u) =>
                       \/ ~IsRef(x) /\ x = y
                       \/ IsRef(x) /\ IsRef(y) /\ t[x] = u[y]
  <2>1. PICK x, y : x = Items(m[v])[l] /\ y = Items(k[w])[j]
    OBVIOUS
  <2>2. Valued(x, t) /\ Valued(y, u)
    BY <1>4, <2>1
  <2>3. IsRef(x) /\ IsRef(y) => Apart(Tokens, t[x], u[y])
    BY <1>3, <2>1, PlaceIs
  <2> QED BY <2>1, <2>2, <2>3, ValuesApart
<1>7. ItemsApart(m[v], k[w], t, u)
  BY <1>6, Zenon DEF ItemsApart
<1>8. Rendered(m[v], t) = Rendered(k[w], u)
  BY <1>1, <1>2
<1>9. (HasKeys(m[v]) <=> HasKeys(k[w])) /\ Entries(m[v], t) = Entries(k[w], u)
  BY <1>5, <1>7, <1>8, RenderedApart
<1>10. /\ DOMAIN Items(m[v]) = DOMAIN Items(k[w])
       /\ \A l \in DOMAIN Items(m[v]) :
             ValueText(Items(m[v])[l], t) = ValueText(Items(k[w])[l], u)
  BY <1>5, <1>9, EntriesRead
<1>11. ASSUME NEW l \in DOMAIN Items(m[v])
       PROVE  LET x == Items(m[v])[l]
                  y == Items(k[w])[l]
              IN  \/ ~IsRef(x) /\ x = y
                  \/ IsRef(x) /\ IsRef(y) /\ t[x] = u[y]
  BY <1>6, <1>10
<1> QED BY <1>1, <1>9, <1>10, <1>11

\* Records with one text say the same.
LEMMA OneTextSame ==
    ASSUME SpellingApart, BaseInv, NEW r \in records, NEW s \in records,
           Canonical(Memory(r))[r.value] = Canonical(Memory(s))[s.value]
    PROVE  Same(r, s)
<1> DEFINE m == Memory(r)
           k == Memory(s)
           Own(a) == <<"own", a>>
           R == {p \in Addresses \X Addresses :
                    Canonical(m)[Own(p[1])] = Canonical(k)[Own(p[2])]}
<1>1. WellFormed(m) /\ WellFormed(k) /\ RecordOK(r) /\ RecordOK(s)
  BY DEF BaseInv, MemoryOK, HeldOK
<1>2. /\ DOMAIN m = Refs("ref") \cup Refs("own") /\ DOMAIN k = Refs("ref") \cup Refs("own")
      /\ \A v \in Refs("own") : m[v] = r.parts[v[2]] /\ k[v] = s.parts[v[2]]
  BY MemoryAt
<1>3. \A a \in Addresses : Own(a) \in Refs("own") /\ Own(a)[2] = a
  BY DEF Refs
<1>4. \A v \in Refs("own") : v[2] \in Addresses /\ v = Own(v[2])
  BY DEF Refs
<1>5. Canonical(m)[r.value] = Canonical(k)[s.value]
  OBVIOUS
<1> HIDE DEF m, k, Own
<1>6. <<r.value[2], s.value[2]>> \in R
  BY <1>1, <1>4, <1>5 DEF RecordOK
<1>7. ASSUME NEW a \in Addresses, NEW b \in Addresses, <<a, b>> \in R
      PROVE  /\ Alike(r.parts[a], s.parts[b])
             /\ LedTo(r.parts[a], s.parts[b]) \subseteq R
  <2>1. PICK c, d : c = r.parts[a] /\ d = s.parts[b]
    OBVIOUS
  <2>2. m[Own(a)] = c /\ k[Own(b)] = d /\ Own(a) \in DOMAIN m /\ Own(b) \in DOMAIN k
    BY <1>2, <1>3, <2>1
  <2>3. Canonical(m)[Own(a)] = Canonical(k)[Own(b)]
    BY <1>7
  <2>4. /\ HasKeys(c) <=> HasKeys(d)
        /\ DOMAIN Items(c) = DOMAIN Items(d)
        /\ \A l \in DOMAIN Items(c) :
              LET x == Items(c)[l]
                  y == Items(d)[l]
              IN  \/ ~IsRef(x) /\ x = y
                  \/ IsRef(x) /\ IsRef(y) /\ Canonical(m)[x] = Canonical(k)[y]
    BY <1>1, <2>2, <2>3, SameTextRead
  <2>5. KindOf(c) = KindOf(d)
    <3>1. c \in PartsAt(a) /\ d \in PartsAt(b)
      BY <1>1, <2>1 DEF RecordOK
    <3>2. KindOf(c) \in {"tuple", "mapping"} /\ KindOf(d) \in {"tuple", "mapping"}
      BY <3>1, ListIs, DictionaryIs DEF PartsAt
    <3> QED BY <2>4, <3>2 DEF HasKeys
  <2>6. /\ \A l \in DOMAIN Items(c) : IsRef(Items(c)[l]) => Items(c)[l] \in Refs("own")
        /\ \A l \in DOMAIN Items(d) : IsRef(Items(d)[l]) => Items(d)[l] \in Refs("own")
    <3>1. \A v \in Refs("own") : \A l \in DOMAIN Items(r.parts[v[2]]) :
             IsRef(Items(r.parts[v[2]])[l]) => Items(r.parts[v[2]])[l] \in Refs("own")
      BY <1>1, PartsLead
    <3>2. \A v \in Refs("own") : \A l \in DOMAIN Items(s.parts[v[2]]) :
             IsRef(Items(s.parts[v[2]])[l]) => Items(s.parts[v[2]])[l] \in Refs("own")
      BY <1>1, PartsLead
    <3> QED BY <1>3, <2>1, <3>1, <3>2
  <2>7. \A v \in Refs("own") : v[1] = "own"
    BY DEF Refs
  <2>8. Alike(c, d)
    BY <2>4, <2>5, <2>6, <2>7 DEF Alike
  <2>9. ASSUME NEW l \in DOMAIN Items(c), Items(c)[l][1] = "own"
        PROVE  <<Items(c)[l][2], Items(d)[l][2]>> \in R
    <3>1. PICK x, y : x = Items(c)[l] /\ y = Items(d)[l]
      OBVIOUS
    <3>2. IsRef(x)
      BY <2>9, <3>1 DEF IsRef
    <3>3. IsRef(y) /\ Canonical(m)[x] = Canonical(k)[y]
      BY <2>4, <3>1, <3>2
    <3>4. x \in Refs("own") /\ y \in Refs("own")
      BY <2>4, <2>6, <3>1, <3>2, <3>3
    <3> QED BY <1>4, <3>1, <3>3, <3>4
  <2> HIDE DEF R
  <2>10. LedTo(c, d) \subseteq R
    BY <2>9 DEF LedTo
  <2> QED BY <2>1, <2>8, <2>10
<1>8. R \subseteq {p \in Addresses \X Addresses : Alike(r.parts[p[1]], s.parts[p[2]])}
  BY <1>7
<1>9. \A p \in R : LedTo(r.parts[p[1]], s.parts[p[2]]) \subseteq R
  <2> SUFFICES ASSUME NEW p \in R PROVE LedTo(r.parts[p[1]], s.parts[p[2]]) \subseteq R
    OBVIOUS
  <2>1. p[1] \in Addresses /\ p[2] \in Addresses /\ p = <<p[1], p[2]>>
    OBVIOUS
  <2> HIDE DEF R
  <2> QED BY <1>7, <2>1
<1> HIDE DEF R
<1> QED BY <1>6, <1>8, <1>9 DEF Same

\* No id stands for two contents, provided that scalars are spelled apart: the texts of
\* containers can be taken apart again, so that what is the same in them was the same in
\* what they are the texts of.
THEOREM SameIdAlwaysSameContent ==
    ASSUME SpellingApart PROVE Spec => []SameIdSameContent
<1>1. BaseInv /\ IdDescribesContent => SameIdSameContent
  BY OneTextSame DEF IdDescribesContent, SameIdSameContent
<1> QED BY <1>1, Base, IdAlwaysDescribesContent, PTL
=============================================================================
