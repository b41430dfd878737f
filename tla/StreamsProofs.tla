--------------------------- MODULE StreamsProofs ---------------------------
(***************************************************************************)
(* What the operations of Streams return: their types, and the events a    *)
(* Mutate adds.                                                            *)
(***************************************************************************)
EXTENDS Streams, TLAPS

\* The precedence of % in isPlaceholderVersion makes it false for every stream.
LEMMA NeverPlaceholder ==
  ASSUME NEW s, Version(s) \in Nat
  PROVE  NextVersion(s) = Version(s) + 1
<1>1. 1 % PlaceholderThreshold = 1
  BY DEF PlaceholderThreshold
<1>2. ~IsPlaceholderVersion(s)
  BY <1>1 DEF IsPlaceholderVersion
<1> QED
  BY <1>2 DEF NextVersion

LEMMA StreamFields ==
  ASSUME NEW ids, NEW causes, NEW s \in Stream(ids, causes)
  PROVE  /\ s.id \in ids
         /\ s.version \in Nat
         /\ s.changes \in Seq(Event(ids, causes))
         /\ s.state \subseteq Event(ids, causes)
         /\ Len(s.changes) \in Nat
         /\ Version(s) \in Nat
  BY DEF Stream, Version

LEMMA BlankType ==
  ASSUME NEW ids, NEW causes, NEW id \in ids
  PROVE  Blank(id) \in Stream(ids, causes)
  BY DEF Blank, Stream

LEMMA ClearChangesType ==
  ASSUME NEW ids, NEW causes, NEW s \in Stream(ids, causes)
  PROVE  /\ ClearChanges(s) \in Stream(ids, causes)
         /\ ClearChanges(s).id = s.id
<1> DEFINE E == Event(ids, causes)
<1> HIDE DEF E
<1>1. s \in [id : ids, version : Nat, changes : Seq(E), state : SUBSET E]
  BY DEF Stream, E
<1>2. <<>> \in Seq(E)
  OBVIOUS
<1>3. [s EXCEPT !.changes = <<>>] \in [id : ids, version : Nat, changes : Seq(E), state : SUBSET E]
  BY <1>1, <1>2
<1>4. [s EXCEPT !.changes = <<>>].id = s.id
  BY <1>1
<1> QED
  BY <1>3, <1>4 DEF Stream, ClearChanges, E

LEMMA MarshalType ==
  ASSUME NEW ids, NEW causes, NEW s \in Stream(ids, causes)
  PROVE  Marshal(s) \in Stored(ids, causes)
  BY StreamFields DEF Marshal, Stored

LEMMA UnmarshalType ==
  ASSUME NEW ids, NEW causes, NEW id \in ids, NEW raw \in Stored(ids, causes)
  PROVE  Unmarshal(id, raw) \in Stream(ids, causes)
  BY DEF Unmarshal, Stored, Stream

LEMMA ChangesType ==
  ASSUME NEW ids, NEW causes, NEW s \in Stream(ids, causes)
  PROVE  Changes(s) \subseteq Event(ids, causes)
  BY DEF Changes, Stream

LEMMA MutateFields ==
  ASSUME NEW ids, NEW causes, NEW s \in Stream(ids, causes), NEW c \in causes
  PROVE  /\ NextEvent(s, c) \in Event(ids, causes)
         /\ NextEvent(s, c).streamID = s.id
         /\ NextEvent(s, c).version = Version(s) + 1
         /\ NextEvent(s, c).cause = c
         /\ Mutate(s, c) \in Stream(ids, causes)
         /\ Mutate(s, c).id = s.id
         /\ Mutate(s, c).version = s.version
         /\ Mutate(s, c).changes = Append(s.changes, NextEvent(s, c))
         /\ Mutate(s, c).state = s.state \union {NextEvent(s, c)}
         /\ Version(Mutate(s, c)) = Version(s) + 1
         /\ Changes(Mutate(s, c)) = Changes(s) \union {NextEvent(s, c)}
<1> DEFINE e == NextEvent(s, c)
<1>1. /\ s.id \in ids /\ s.version \in Nat /\ s.changes \in Seq(Event(ids, causes))
      /\ s.state \subseteq Event(ids, causes) /\ Version(s) \in Nat
  BY StreamFields
<1>2. /\ e = [streamID |-> s.id, version |-> Version(s) + 1, cause |-> c]
      /\ e \in Event(ids, causes)
  BY <1>1, NeverPlaceholder DEF Event, NextEvent
<1> HIDE DEF e
<1>3. Mutate(s, c) = [id |-> s.id, version |-> s.version,
                      changes |-> Append(s.changes, e), state |-> s.state \union {e}]
  BY DEF Mutate, e
<1>4. /\ Mutate(s, c) \in Stream(ids, causes)
      /\ Mutate(s, c).id = s.id
      /\ Mutate(s, c).version = s.version
      /\ Mutate(s, c).changes = Append(s.changes, e)
      /\ Mutate(s, c).state = s.state \union {e}
  BY <1>1, <1>2, <1>3 DEF Stream
<1>5. Version(Mutate(s, c)) = Version(s) + 1
  BY <1>1, <1>2, <1>4 DEF Version
<1>6. Changes(Mutate(s, c)) = Changes(s) \union {e}
  <2> DEFINE q == s.changes
             r == Append(q, e)
  <2>1. q \in Seq(Event(ids, causes))
    BY <1>1
  <2>2. DOMAIN r = DOMAIN q \union {Len(q) + 1} /\ Len(q) + 1 \in DOMAIN r
    BY <1>2, <2>1
  <2>3. r[Len(q) + 1] = e /\ \A i \in DOMAIN q : r[i] = q[i]
    BY <1>2, <2>1
  <2>4. {r[i] : i \in DOMAIN r} = {q[i] : i \in DOMAIN q} \union {e}
    BY <2>2, <2>3
  <2> QED
    BY <1>4, <2>4 DEF Changes
<1> QED
  BY <1>2, <1>4, <1>5, <1>6 DEF e

\* Events numbered on from the version a stream was loaded with
LEMMA NumberedChanges ==
  ASSUME NEW ids, NEW causes, NEW s \in Stream(ids, causes), NEW id, NEW c,
         \A i \in 1..Len(s.changes) :
           s.changes[i] = [streamID |-> id, version |-> s.version + i, cause |-> c]
  PROVE  Changes(s) = {[streamID |-> id, version |-> v, cause |-> c] :
                         v \in s.version + 1 .. s.version + Len(s.changes)}
<1> DEFINE At(v) == [streamID |-> id, version |-> v, cause |-> c]
<1>1. s.version \in Nat /\ Len(s.changes) \in Nat /\ s.changes \in Seq(Event(ids, causes))
  BY StreamFields
<1>2. DOMAIN s.changes = 1..Len(s.changes)
  BY <1>1
<1>3. \A i \in 1..Len(s.changes) : s.changes[i] = At(s.version + i)
  OBVIOUS
<1>4. \A i \in 1..Len(s.changes) : s.version + i \in s.version + 1 .. s.version + Len(s.changes)
  BY <1>1
<1>5. ASSUME NEW v \in s.version + 1 .. s.version + Len(s.changes)
      PROVE  \E i \in 1..Len(s.changes) : v = s.version + i
  <2>1. v - s.version \in 1..Len(s.changes) /\ v = s.version + (v - s.version)
    BY <1>1
  <2> QED
    BY <2>1
<1> HIDE DEF At
<1>6. {s.changes[i] : i \in DOMAIN s.changes} =
        {At(v) : v \in s.version + 1 .. s.version + Len(s.changes)}
  BY <1>2, <1>3, <1>4, <1>5
<1> QED
  BY <1>6 DEF Changes, At
=============================================================================
