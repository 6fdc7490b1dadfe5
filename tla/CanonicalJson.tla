----------------------------- MODULE CanonicalJson -----------------------------
(***************************************************************************)
(* Values of claims and metadata, from the containers a caller holds to    *)
(* the frozen value inside a record (models.py, freeze_json) and the text  *)
(* that identifies it (ids.py, canonical_json).                            *)
(*                                                                         *)
(* A value is a pair.  <<"null", 0>>, <<"bool", 1>>, <<"int", 1>>,         *)
(* <<"float", 1>> and <<"string", "1">> are scalars, of a type and a       *)
(* content, where a number is its numeric value.  <<"ref", a>> is the      *)
(* caller's container at address a, <<"own", a>> the copy of it in a       *)
(* record.  A container is <<kind, items, order>>: its items by label and, *)
(* when it has keys, the order they were inserted in.  The labels of a     *)
(* list are its positions, those of a dictionary its keys.                 *)
(*                                                                         *)
(* A record may be built from a container that the caller goes on to       *)
(* change, or that it built another record from.  What freeze_json refuses *)
(* is no value here: non-finite floats, keys that are not strings, and     *)
(* containers that contain themselves, on which it recurses until it       *)
(* raises.  A text is the sequence of its JSON tokens.                     *)
(***************************************************************************)
EXTENDS Naturals, Sequences, FiniteSets, TLC, Functions

CONSTANTS
    Keys,          \* the keys of dictionaries
    Sorted,        \* by set of keys, the sequence that sorting it makes
    Scalars,       \* what a container may hold beside containers
    Contents,      \* by address, what its container may hold at first
    Edited,        \* by address, what the caller may later put into it
    Nesting,       \* by address, how deep its contents may be nested
    Depth,         \* a bound on the nesting
    MaxRecords,    \* a bound on the records built
    MaxEdits       \* a bound on the caller's changes

Addresses == DOMAIN Contents

Refs(kind) == {kind} \X Addresses

IsRef(v) == v[1] \in {"ref", "own"}

Lists(kind, values) == {kind} \X Seq(values) \X {<<>>}

Dictionaries(kind, values) ==
    {kind} \X (UNION {[K -> values] : K \in SUBSET Keys}) \X Seq(Keys)

KindOf(c) == c[1]
Items(c)  == c[2]

\* What the caller may hold at an address: lists and dictionaries of scalars and
\* of containers that are nested less deeply.
CallersAt(a) ==
    LET values == Scalars \cup {v \in Refs("ref") : Nesting[v[2]] < Nesting[a]}
    IN  Lists("list", values) \cup Dictionaries("dict", values)

ASSUME CanonicalAssumption ==
    /\ \A S \in SUBSET Keys : Sorted[S] \in Seq(S) /\ Range(Sorted[S]) = S
    /\ \A v \in Scalars : ~ IsRef(v)
    /\ Depth \in Nat /\ Nesting \in [Addresses -> 0..Depth]
    /\ \A a \in Addresses : Contents[a] \subseteq CallersAt(a)
    /\ DOMAIN Edited \subseteq Addresses
    /\ \A a \in DOMAIN Edited : Edited[a] \subseteq CallersAt(a)

VARIABLES
    heap,      \* by address, the caller's container
    records,   \* the records built: the text behind their id, their value and
               \* the containers it is made of
    edits      \* how often the caller has changed a container

vars == <<heap, records, edits>>

----------------------------------------------------------------------------
(* freeze_json: immutable all the way down *)

Frozen(kind) == IF kind = "list" THEN "tuple" ELSE "mapping"

\* Fault: containers inside a container are kept as they are.
FreezeShallow(c) == [c EXCEPT ![1] = Frozen(c[1])]

\* A new container of what the items are frozen to: of a container, its copy.
Freeze(c) ==
    [c EXCEPT ![1] = Frozen(c[1]),
              ![2] = [l \in DOMAIN c[2] |->
                         IF IsRef(c[2][l]) THEN <<"own", c[2][l][2]>> ELSE c[2][l]]]

\* The copies are made while the caller waits, so all from one heap.  Those that
\* nothing in a record leads to are as good as none.
Copies == [a \in Addresses |-> Freeze(heap[a])]

----------------------------------------------------------------------------
(* canonical_json *)

HasKeys(c) == KindOf(c) \in {"dict", "mapping"}

\* Fault: strings are not quoted.
ScalarTextBare(v) ==
    CASE v[1] = "null"   -> "null"
      [] v[1] = "bool"   -> IF v[2] = 1 THEN "true" ELSE "false"
      [] v[1] = "float"  -> ToString(v[2]) \o ".0"
      [] v[1] = "string" -> v[2]
      [] OTHER           -> ToString(v[2])

ScalarText(v) ==
    CASE v[1] = "null"   -> "null"
      [] v[1] = "bool"   -> IF v[2] = 1 THEN "true" ELSE "false"
      [] v[1] = "float"  -> ToString(v[2]) \o ".0"
      [] v[1] = "string" -> "\"" \o v[2] \o "\""
      [] OTHER           -> ToString(v[2])

\* Fault: keys are rendered in the order they were inserted.
LabelsInserted(c) == IF HasKeys(c) THEN c[3] ELSE [l \in DOMAIN Items(c) |-> l]

\* The labels in the order they are rendered in.
Labels(c) == IF HasKeys(c) THEN Sorted[DOMAIN Items(c)] ELSE [l \in DOMAIN Items(c) |-> l]

Comma      == ","
Colon      == ":"
Opening(c) == IF HasKeys(c) THEN "{" ELSE "["
Closing(c) == IF HasKeys(c) THEN "}" ELSE "]"

\* Texts one after the other, then the bracket that closes them: by position, the
\* text from there on.
JoinedFrom(texts, close) ==
    LET from[i \in 1..(Len(texts) + 1)] ==
            IF i > Len(texts) THEN <<close>>
            ELSE (IF i = 1 THEN <<>> ELSE <<Comma>>) \o (texts[i] \o from[i + 1])
    IN  from

Joined(texts, close) == JoinedFrom(texts, close)[1]

\* The text of a value, given those of containers.
ValueText(v, text) == IF IsRef(v) THEN text[v] ELSE <<ScalarText(v)>>

Entry(c, l, text) ==
    (IF HasKeys(c) THEN <<ScalarText(<<"string", l>>), Colon>> ELSE <<>>)
        \o ValueText(Items(c)[l], text)

Rendered(c, text) ==
    LET labels  == Labels(c)
        entries == [i \in DOMAIN labels |-> Entry(c, labels[i], text)]
    IN  <<Opening(c)>> \o Joined(entries, Closing(c))

\* By reference, the text of the container it leads to.
Canonical(memory) ==
    LET text[v \in DOMAIN memory] == Rendered(memory[v], text) IN text

\* What can be reached from the caller's containers, and from a record.
CallersMemory == [v \in Refs("ref") |-> heap[v[2]]]

Memory(r) ==
    [v \in Refs("ref") \cup Refs("own") |->
        IF v[1] = "ref" THEN heap[v[2]] ELSE r.parts[v[2]]]

----------------------------------------------------------------------------
(* Callers *)

Init ==
    /\ heap \in {h \in [Addresses -> UNION Range(Contents)] :
                    \A a \in Addresses : h[a] \in Contents[a]}
    /\ records = {}
    /\ edits = 0

\* A record is built from a container: its id is the digest of the canonical
\* text of what the caller passes, its value what the constructor keeps of it.
Construct(a) ==
    /\ Cardinality(records) < MaxRecords
    /\ records' = records \cup {[text  |-> Canonical(CallersMemory)[<<"ref", a>>],
                                 value |-> <<"own", a>>,
                                 parts |-> Copies]}
    /\ UNCHANGED <<heap, edits>>

\* The caller changes its own container in place: a list stays a list.
Edit(a, c) ==
    /\ edits < MaxEdits
    /\ KindOf(c) = KindOf(heap[a])
    /\ heap' = [heap EXCEPT ![a] = c]
    /\ edits' = edits + 1
    /\ UNCHANGED records

Next ==
    \/ \E a \in Addresses : Construct(a)
    \/ \E a \in DOMAIN Edited : \E c \in Edited[a] : Edit(a, c)

Spec == Init /\ [][Next]_vars

----------------------------------------------------------------------------
(* Properties *)

\* Two parts are alike but for what other parts they lead to.
Alike(c, d) ==
    /\ KindOf(c) = KindOf(d)
    /\ DOMAIN Items(c) = DOMAIN Items(d)
    /\ \A l \in DOMAIN Items(c) :
          \/ Items(c)[l] = Items(d)[l]
          \/ Items(c)[l][1] = "own" /\ Items(d)[l][1] = "own"

\* The pairs of parts that two parts lead to, one from each.
LedTo(c, d) ==
    {<<Items(c)[l][2], Items(d)[l][2]>> :
        l \in {k \in DOMAIN Items(c) : Items(c)[k][1] = "own"}}

\* Two records say the same when their parts, which cannot contain themselves,
\* are alike all the way down.
Same(r, s) ==
    LET alike == {p \in Addresses \X Addresses : Alike(r.parts[p[1]], s.parts[p[2]])}
    IN  \E R \in SUBSET alike :
            /\ <<r.value[2], s.value[2]>> \in R
            /\ \A p \in R : LedTo(r.parts[p[1]], s.parts[p[2]]) \subseteq R

\* An id stays the digest of its record's content, whatever becomes of the
\* containers the record was built from: nothing in a record is still the
\* caller's, and freezing does not change what is digested.
IdDescribesContent == \A r \in records : Canonical(Memory(r))[r.value] = r.text

\* One id, one content: a second registration under an id that the store takes
\* for the first one repeated, or a second claim that the resolver takes to
\* agree with the first, says the very same.
SameIdSameContent == \A r, s \in records : r.text = s.text => Same(r, s)

\* One content, one id: the order in which mappings were filled, at any depth,
\* makes no claim disagree and no replay differ.
SameContentSameId == \A r, s \in records : Same(r, s) => r.text = s.text
=============================================================================
