----------------------------- MODULE CodecProofs -----------------------------
(***************************************************************************)
(* Containers restore what was written into them, whatever the sizes, and  *)
(* are never taken for one of another kind.                                *)
(***************************************************************************)
EXTENDS Codec, WellFoundedInduction, TLAPS

-----------------------------------------------------------------------------
(***************************************************************************)
(* The size of a container.                                                *)
(***************************************************************************)
\* f sums the widths of the first chunks, up to the n-th.
Sums(f, chunks, n) ==
  /\ f \in [0..n -> Nat]
  /\ f[0] = 0
  /\ \A i \in 1..n : f[i] = f[i - 1] + chunks[i].width

\* A sum of n chunks is continued to n + 1.  The library's theorems of
\* induction cannot be cited here: the least n without a sum is contradicted.
LEMMA SumsExist ==
  ASSUME NEW chunks, NEW m \in Nat, \A i \in 1..m : chunks[i].width \in Nat
  PROVE  \E f : Sums(f, chunks, m)
<1> DEFINE Missing == {n \in Nat : n <= m /\ ~\E f : Sums(f, chunks, n)}
<1> SUFFICES ASSUME Missing # {} PROVE FALSE
  OBVIOUS
<1>1. PICK n \in Missing : \A k \in Nat : k < n => k \notin Missing
  <2>1. PICK n \in Missing : \A k \in Missing : <<k, n>> \notin OpToRel(<, Nat)
    BY NatLessThanWellFounded, WFMin, Zenon
  <2> QED
    BY <2>1 DEF OpToRel
<1>2. n # 0
  <2>1. Sums([i \in 0..0 |-> 0], chunks, 0)
    BY DEF Sums
  <2> QED
    BY <1>1, <2>1
<1>3. n \in Nat /\ n <= m /\ n - 1 \in Nat /\ n - 1 < n
  BY <1>2
<1>4. PICK f : Sums(f, chunks, n - 1)
  BY <1>1, <1>3
<1> DEFINE g == [i \in 0..n |-> IF i = n THEN f[n - 1] + chunks[n].width ELSE f[i]]
<1>5. Sums(g, chunks, n)
  <2>1. chunks[n].width \in Nat /\ f[n - 1] \in Nat
    BY <1>2, <1>3, <1>4 DEF Sums
  <2>2. g \in [0..n -> Nat] /\ g[0] = 0
    BY <1>2, <1>3, <1>4, <2>1 DEF Sums
  <2>3. ASSUME NEW i \in 1..n
        PROVE  g[i] = g[i - 1] + chunks[i].width
    <3>1. i - 1 \in 0..n /\ i - 1 # n /\ g[i - 1] = f[i - 1]
      BY <1>3
    <3> QED
      BY <1>3, <1>4, <3>1 DEF Sums
  <2> QED
    BY <2>2, <2>3 DEF Sums
<1> QED
  BY <1>1, <1>5

\* Size is the last of such sums.
LEMMA SizeIsASum ==
  ASSUME NEW chunks, Len(chunks) \in Nat, \A i \in 1..Len(chunks) : chunks[i].width \in Nat
  PROVE  \E f : /\ f[0] = 0
                /\ \A i \in 1..Len(chunks) : f[i] = f[i - 1] + chunks[i].width
                /\ Size(chunks) = f[Len(chunks)]
<1> DEFINE n == Len(chunks)
           Body(f) == [i \in 0..n |-> IF i = 0 THEN 0 ELSE f[i - 1] + chunks[i].width]
           upTo == CHOOSE f : f = Body(f)
<1>1. PICK f : Sums(f, chunks, n)
  BY SumsExist
<1>2. f = Body(f)
  BY <1>1 DEF Sums
<1>3. upTo = Body(upTo)
  BY <1>2, Zenon
<1>4. Size(chunks) = upTo[n]
  BY DEF Size
<1> HIDE DEF upTo
<1>5. upTo[0] = 0 /\ \A i \in 1..n : upTo[i] = upTo[i - 1] + chunks[i].width
  BY <1>3
<1> QED
  BY <1>4, <1>5

-----------------------------------------------------------------------------
(***************************************************************************)
(* What is written.                                                        *)
(***************************************************************************)
Sizes ==
  /\ kind \in Kinds /\ reader \in Kinds /\ registered \in BOOLEAN
  /\ nameSize \in Nat \ {0} /\ streamSize \in Nat \ {0}
  /\ payload \in Nat \union {Absence}

LEMMA Widths ==
  ASSUME Sizes
  PROVE  /\ WidthWritten("magic") = 2
         /\ WidthWritten("payloadSize") = 4
         /\ WidthWritten("nameSize") = 4
         /\ WidthWritten("streamSize") = 4
         /\ WidthWritten("id") = 16
         /\ WidthWritten("streamID") = 16
         /\ WidthWritten("createdAt") = 8
         /\ WidthWritten("updatedAt") = 8
         /\ WidthWritten("version") = 8
         /\ WidthWritten("name") = nameSize
         /\ WidthWritten("streamName") = streamSize
         /\ WidthWritten("payload") = PayloadSize
         /\ PayloadSize \in Nat
<1>1. PayloadSize \in Nat
  BY DEF Sizes, PayloadSize, Absence
<1> QED
  BY <1>1 DEF WidthWritten, FixedWidth, Variable, Content

\* The i-th chunk is that of the i-th field.
LEMMA Chunks ==
  ASSUME Sizes
  PROVE  /\ Len(Encoded) = Len(Writes(kind))
         /\ \A i \in 1..Len(Writes(kind)) :
              /\ Encoded[i].width = WidthWritten(Writes(kind)[i])
              /\ Encoded[i].content = Content(Writes(kind)[i])
<1>1. Len(Writes(kind)) \in Nat
  BY DEF Sizes, Kinds, Writes, EventWrites, CommandWrites, StreamWrites, ReplyWrites
<1> QED
  BY <1>1 DEF Encoded

LEMMA EventSize ==
  ASSUME Sizes, kind = "event"
  PROVE  Size(Encoded) = 62 + nameSize + streamSize + PayloadSize
<1>1. /\ Len(Encoded) = 11 /\ Encoded[1].width = 2 /\ Encoded[2].width = 4
      /\ Encoded[3].width = 4 /\ Encoded[4].width = 4 /\ Encoded[5].width = 16
      /\ Encoded[6].width = 16 /\ Encoded[7].width = nameSize
      /\ Encoded[8].width = streamSize /\ Encoded[9].width = 8 /\ Encoded[10].width = 8
      /\ Encoded[11].width = PayloadSize
  BY Chunks, Widths DEF Writes, EventWrites
<1>2. Len(Encoded) \in Nat /\ \A i \in 1..Len(Encoded) : Encoded[i].width \in Nat
  BY <1>1, Widths DEF Sizes
<1>3. PICK f : /\ f[0] = 0
               /\ \A i \in 1..Len(Encoded) : f[i] = f[i - 1] + Encoded[i].width
               /\ Size(Encoded) = f[Len(Encoded)]
  BY <1>2, SizeIsASum, Zenon
<1>4. /\ f[1] = f[0] + 2 /\ f[2] = f[1] + 4 /\ f[3] = f[2] + 4 /\ f[4] = f[3] + 4
      /\ f[5] = f[4] + 16 /\ f[6] = f[5] + 16 /\ f[7] = f[6] + nameSize
      /\ f[8] = f[7] + streamSize /\ f[9] = f[8] + 8 /\ f[10] = f[9] + 8
      /\ f[11] = f[10] + PayloadSize /\ Size(Encoded) = f[11]
  BY <1>1, <1>3
<1> QED
  BY <1>3, <1>4, Widths DEF Sizes

LEMMA CommandSize ==
  ASSUME Sizes, kind = "command"
  PROVE  Size(Encoded) = 54 + nameSize + streamSize + PayloadSize
<1>1. /\ Len(Encoded) = 10 /\ Encoded[1].width = 2 /\ Encoded[2].width = 4
      /\ Encoded[3].width = 4 /\ Encoded[4].width = 4 /\ Encoded[5].width = 16
      /\ Encoded[6].width = 16 /\ Encoded[7].width = nameSize
      /\ Encoded[8].width = streamSize /\ Encoded[9].width = 8
      /\ Encoded[10].width = PayloadSize
  BY Chunks, Widths DEF Writes, CommandWrites
<1>2. Len(Encoded) \in Nat /\ \A i \in 1..Len(Encoded) : Encoded[i].width \in Nat
  BY <1>1, Widths DEF Sizes
<1>3. PICK f : /\ f[0] = 0
               /\ \A i \in 1..Len(Encoded) : f[i] = f[i - 1] + Encoded[i].width
               /\ Size(Encoded) = f[Len(Encoded)]
  BY <1>2, SizeIsASum, Zenon
<1>4. /\ f[1] = f[0] + 2 /\ f[2] = f[1] + 4 /\ f[3] = f[2] + 4 /\ f[4] = f[3] + 4
      /\ f[5] = f[4] + 16 /\ f[6] = f[5] + 16 /\ f[7] = f[6] + nameSize
      /\ f[8] = f[7] + streamSize /\ f[9] = f[8] + 8 /\ f[10] = f[9] + PayloadSize
      /\ Size(Encoded) = f[10]
  BY <1>1, <1>3
<1> QED
  BY <1>3, <1>4, Widths DEF Sizes

LEMMA StreamSize ==
  ASSUME Sizes, kind = "stream"
  PROVE  Size(Encoded) = 42 + nameSize + PayloadSize
<1>1. /\ Len(Encoded) = 8 /\ Encoded[1].width = 2 /\ Encoded[2].width = 4
      /\ Encoded[3].width = 4 /\ Encoded[4].width = 16 /\ Encoded[5].width = nameSize
      /\ Encoded[6].width = 8 /\ Encoded[7].width = 8 /\ Encoded[8].width = PayloadSize
  BY Chunks, Widths DEF Writes, StreamWrites
<1>2. Len(Encoded) \in Nat /\ \A i \in 1..Len(Encoded) : Encoded[i].width \in Nat
  BY <1>1, Widths DEF Sizes
<1>3. PICK f : /\ f[0] = 0
               /\ \A i \in 1..Len(Encoded) : f[i] = f[i - 1] + Encoded[i].width
               /\ Size(Encoded) = f[Len(Encoded)]
  BY <1>2, SizeIsASum, Zenon
<1>4. /\ f[1] = f[0] + 2 /\ f[2] = f[1] + 4 /\ f[3] = f[2] + 4 /\ f[4] = f[3] + 16
      /\ f[5] = f[4] + nameSize /\ f[6] = f[5] + 8 /\ f[7] = f[6] + 8
      /\ f[8] = f[7] + PayloadSize /\ Size(Encoded) = f[8]
  BY <1>1, <1>3
<1> QED
  BY <1>3, <1>4, Widths DEF Sizes

LEMMA ReplySize ==
  ASSUME Sizes, kind = "reply"
  PROVE  Size(Encoded) = 38 + PayloadSize
<1>1. /\ Len(Encoded) = 6 /\ Encoded[1].width = 2 /\ Encoded[2].width = 4
      /\ Encoded[3].width = 16 /\ Encoded[4].width = 8 /\ Encoded[5].width = 8
      /\ Encoded[6].width = PayloadSize
  BY Chunks, Widths DEF Writes, ReplyWrites
<1>2. Len(Encoded) \in Nat /\ \A i \in 1..Len(Encoded) : Encoded[i].width \in Nat
  BY <1>1, Widths DEF Sizes
<1>3. PICK f : /\ f[0] = 0
               /\ \A i \in 1..Len(Encoded) : f[i] = f[i - 1] + Encoded[i].width
               /\ Size(Encoded) = f[Len(Encoded)]
  BY <1>2, SizeIsASum, Zenon
<1>4. /\ f[1] = f[0] + 2 /\ f[2] = f[1] + 4 /\ f[3] = f[2] + 16 /\ f[4] = f[3] + 8
      /\ f[5] = f[4] + 8 /\ f[6] = f[5] + PayloadSize /\ Size(Encoded) = f[6]
  BY <1>1, <1>3
<1> QED
  BY <1>3, <1>4, Widths DEF Sizes

\* A container's size exceeds its reader's minimum by what its names and payload
\* exceed the slack.
LEMMA LongEnough ==
  ASSUME Sizes
  PROVE  Size(Encoded) >= MinimumSize(kind) <=> Lengths >= Slack(kind)
<1>1. PayloadSize \in Nat
  BY Widths
<1>2. CASE kind = "event"
  BY <1>1, <1>2, EventSize DEF MinimumSize, Slack, Lengths, Sizes
<1>3. CASE kind = "command"
  BY <1>1, <1>3, CommandSize DEF MinimumSize, Slack, Lengths, Sizes
<1>4. CASE kind = "stream"
  BY <1>1, <1>4, StreamSize DEF MinimumSize, Slack, Lengths, Sizes
<1>5. CASE kind = "reply"
  BY <1>1, <1>5, ReplySize DEF MinimumSize, Slack, Lengths, Sizes
<1> QED
  BY <1>2, <1>3, <1>4, <1>5 DEF Sizes, Kinds

-----------------------------------------------------------------------------
(***************************************************************************)
(* What is read.                                                           *)
(***************************************************************************)
\* A reader finds the fields where they were written.
LEMMA ReadsWhatIsWritten ==
  ASSUME Sizes
  PROVE  /\ Reads(kind) = Writes(kind)
         /\ DOMAIN Reads(kind) = 1..Len(Writes(kind))
         /\ Reads(kind)[1] = "magic" /\ 1 \in DOMAIN Reads(kind)
<1>1. CASE kind = "event"
  BY <1>1 DEF Reads, Writes, EventReads, EventWrites
<1>2. CASE kind = "command"
  BY <1>2 DEF Reads, Writes, CommandReads, CommandWrites
<1>3. CASE kind = "stream"
  BY <1>3 DEF Reads, Writes, StreamReads, StreamWrites
<1>4. CASE kind = "reply"
  BY <1>4 DEF Reads, Writes, ReplyReads, ReplyWrites
<1> QED
  BY <1>1, <1>2, <1>3, <1>4 DEF Sizes, Kinds

\* No field is in a container twice.
LEMMA FieldsAreDistinct ==
  ASSUME Sizes, NEW i \in DOMAIN Reads(kind), NEW j \in DOMAIN Reads(kind),
         Reads(kind)[i] = Reads(kind)[j]
  PROVE  i = j
<1>1. CASE kind = "event"
  <2>1. DOMAIN Reads(kind) = 1..11 /\ Reads(kind) = EventReads
    BY <1>1 DEF Reads, EventReads
  <2> QED
    BY <2>1 DEF EventReads
<1>2. CASE kind = "command"
  <2>1. DOMAIN Reads(kind) = 1..10 /\ Reads(kind) = CommandReads
    BY <1>2 DEF Reads, CommandReads
  <2> QED
    BY <2>1 DEF CommandReads
<1>3. CASE kind = "stream"
  <2>1. DOMAIN Reads(kind) = 1..8 /\ Reads(kind) = StreamReads
    BY <1>3 DEF Reads, StreamReads
  <2> QED
    BY <2>1 DEF StreamReads
<1>4. CASE kind = "reply"
  <2>1. DOMAIN Reads(kind) = 1..6 /\ Reads(kind) = ReplyReads
    BY <1>4 DEF Reads, ReplyReads
  <2> QED
    BY <2>1 DEF ReplyReads
<1> QED
  BY <1>1, <1>2, <1>3, <1>4 DEF Sizes, Kinds

LEMMA FieldIsContent ==
  ASSUME Sizes, NEW i \in DOMAIN Reads(kind)
  PROVE  Field(kind, Encoded, Reads(kind)[i]) = Content(Reads(kind)[i])
<1> DEFINE f == Reads(kind)[i]
           j == CHOOSE x \in DOMAIN Reads(kind) : Reads(kind)[x] = f
<1>1. j \in DOMAIN Reads(kind) /\ Reads(kind)[j] = f
  OBVIOUS
<1>2. j = i
  BY <1>1, FieldsAreDistinct
<1>3. Field(kind, Encoded, f) = Encoded[i].content
  BY <1>2 DEF Field
<1> QED
  BY <1>3, Chunks, ReadsWhatIsWritten

\* A field of variable width has its size field in the container.
LEMMA SizesAreWritten ==
  ASSUME Sizes, NEW i \in DOMAIN Reads(kind), Reads(kind)[i] \in Variable
  PROVE  \E j \in DOMAIN Reads(kind) : Reads(kind)[j] = SizeField(Reads(kind)[i])
<1>1. Reads(kind)[i] \in {"name", "streamName", "payload"}
  BY DEF Variable
<1>2. 2 \in DOMAIN Reads(kind) /\ Reads(kind)[2] = "payloadSize"
  BY DEF Sizes, Kinds, Reads, EventReads, CommandReads, StreamReads, ReplyReads
<1>3. Reads(kind)[i] = "name" => 3 \in DOMAIN Reads(kind) /\ Reads(kind)[3] = "nameSize"
  BY DEF Sizes, Kinds, Reads, EventReads, CommandReads, StreamReads, ReplyReads
<1>4. Reads(kind)[i] = "streamName" => 4 \in DOMAIN Reads(kind) /\ Reads(kind)[4] = "streamSize"
  BY DEF Sizes, Kinds, Reads, EventReads, CommandReads, StreamReads, ReplyReads
<1> QED
  BY <1>1, <1>2, <1>3, <1>4 DEF SizeField

LEMMA ReadsAreAligned ==
  ASSUME Sizes
  PROVE  Aligned(kind, Encoded)
<1>1. /\ Len(Reads(kind)) <= Len(Encoded)
      /\ \A i \in DOMAIN Reads(kind) :
           /\ Encoded[i].width = WidthWritten(Reads(kind)[i])
           /\ Encoded[i].content = Content(Reads(kind)[i])
  <2>1. Len(Writes(kind)) \in Nat
    BY DEF Sizes, Kinds, Writes, EventWrites, CommandWrites, StreamWrites, ReplyWrites
  <2> QED
    BY <2>1, Chunks, ReadsWhatIsWritten
<1>2. ASSUME NEW i \in DOMAIN Reads(kind)
      PROVE  WidthRead(kind, Encoded, Reads(kind)[i]) = WidthWritten(Reads(kind)[i])
  <2>1. CASE Reads(kind)[i] \notin Variable
    BY <2>1 DEF WidthRead, WidthWritten
  <2>2. CASE Reads(kind)[i] \in Variable
    <3>1. Field(kind, Encoded, SizeField(Reads(kind)[i])) = Content(SizeField(Reads(kind)[i]))
      BY <2>2, SizesAreWritten, FieldIsContent
    <3>2. Content(SizeField(Reads(kind)[i])) = Content(Reads(kind)[i])[2]
      BY <2>2 DEF Variable, SizeField, Content
    <3> QED
      BY <2>2, <3>1, <3>2 DEF WidthRead, WidthWritten
  <2> QED
    BY <2>1, <2>2
<1> QED
  BY <1>1, <1>2 DEF Aligned

\* The number at the front tells the kinds apart.
LEMMA MagicTellsKinds ==
  ASSUME Sizes
  PROVE  MagicMatches(reader, Encoded) <=> reader = kind
<1>1. Encoded[1].content = Magic(kind)
  <2>1. 1 \in 1..Len(Writes(kind)) /\ Writes(kind)[1] = "magic"
    BY ReadsWhatIsWritten
  <2> QED
    BY <2>1, Chunks DEF Content
<1>2. Magic(reader) = Magic(kind) <=> reader = kind
  BY DEF Sizes, Kinds, Magic
<1> QED
  BY <1>1, <1>2 DEF MagicMatches

-----------------------------------------------------------------------------
(***************************************************************************)
(* The transfer.                                                           *)
(***************************************************************************)
CodecInv ==
  /\ Sizes
  /\ \/ result.status \in {"none", "refused"}
     \/ ~CannotEncode /\ result = Decoded(reader, Encoded)

LEMMA CodecInductive == Spec => []CodecInv
<1>1. Init => CodecInv
  BY SizesAssumption DEF Init, CodecInv, Sizes, Payloads, Absence
<1>2. CodecInv /\ [Next]_vars => CodecInv'
  <2> SUFFICES ASSUME CodecInv, [Next]_vars PROVE CodecInv'
    OBVIOUS
  <2>1. UNCHANGED <<kind, nameSize, streamSize, payload, registered, reader>>
    BY DEF Next, Refuse, Transfer, vars
  <2>2. /\ Sizes' /\ (CannotEncode <=> CannotEncode')
        /\ Decoded(reader, Encoded)' = Decoded(reader, Encoded)
    <3>1. Sizes' /\ (CannotEncode <=> CannotEncode')
      BY <2>1 DEF CodecInv, Sizes, CannotEncode, PayloadSize
    <3>2. Encoded' = Encoded
      BY <2>1 DEF Encoded, WidthWritten, Content, PayloadSize
    <3>3. ASSUME NEW k, NEW chunks PROVE (Rejects(k, chunks) <=> Rejects(k, chunks)')
      BY <2>1 DEF Rejects
    <3>4. Decoded(reader, Encoded)' = Decoded(reader, Encoded)
      BY <2>1, <3>2, <3>3 DEF Decoded
    <3> QED
      BY <3>1, <3>4
  <2>3. CASE Refuse
    BY <2>2, <2>3 DEF Refuse, CodecInv
  <2>4. CASE Transfer
    BY <2>2, <2>4 DEF Transfer, CodecInv
  <2>5. CASE UNCHANGED vars
    BY <2>2, <2>5 DEF vars, CodecInv
  <2> QED
    BY <2>3, <2>4, <2>5 DEF Next
<1> QED
  BY <1>1, <1>2, PTL DEF Spec

\* A container, whatever the sizes of its names and of its payload, is restored
\* field by field exactly if they are long enough for its reader's minimum.
THEOREM LongContainersRoundTrip == Spec => []LongOnesRoundTrip
<1>1. ASSUME CodecInv PROVE LongOnesRoundTrip
  <2> SUFFICES ASSUME Sent PROVE Restored <=> Lengths >= Slack(kind)
    BY DEF LongOnesRoundTrip
  <2>1. /\ Sizes /\ reader = kind /\ payload # 0 /\ ~CannotEncode
        /\ result = Decoded(kind, Encoded)
    BY <1>1 DEF CodecInv, Sent
  <2>2. MagicMatches(kind, Encoded)
    BY <2>1, MagicTellsKinds
  <2>3. ~(kind \in {"event", "command"} /\ Field(kind, Encoded, "payloadSize") > 0 /\ ~registered)
    <3>1. 2 \in DOMAIN Reads(kind) /\ Reads(kind)[2] = "payloadSize"
      BY <2>1 DEF Sizes, Kinds, Reads, EventReads, CommandReads, StreamReads, ReplyReads
    <3>2. Field(kind, Encoded, "payloadSize") = PayloadSize
      BY <2>1, <3>1, FieldIsContent DEF Content
    <3> QED
      BY <2>1, <3>2 DEF CannotEncode, PayloadSize
  <2>4. Size(Encoded) \in Int /\ MinimumSize(kind) \in Int
    BY <2>1, EventSize, CommandSize, StreamSize, ReplySize, Widths DEF Sizes, Kinds, MinimumSize
  <2>5. Rejects(kind, Encoded) <=> ~(Lengths >= Slack(kind))
    BY <2>1, <2>2, <2>3, <2>4, LongEnough DEF Rejects
  <2>6. Fields(Reads(kind), [i \in DOMAIN Reads(kind) |-> Encoded[i].content])
          = Fields(Writes(kind), [i \in DOMAIN Writes(kind) |-> Content(Writes(kind)[i])])
    BY <2>1, Chunks, ReadsWhatIsWritten DEF Fields
  <2>7. CASE Rejects(kind, Encoded)
    <3>1. result.status = "error"
      BY <2>1, <2>7 DEF Decoded
    <3> QED
      BY <2>5, <2>7, <3>1 DEF Restored
  <2>8. CASE ~Rejects(kind, Encoded)
    <3>1. result = [status |-> "ok",
                    fields |-> Fields(Reads(kind), [i \in DOMAIN Reads(kind) |-> Encoded[i].content])]
      BY <2>1, <2>8, ReadsAreAligned DEF Decoded
    <3> QED
      BY <2>5, <2>6, <2>8, <3>1 DEF Restored
  <2> QED
    BY <2>7, <2>8
<1> QED
  BY CodecInductive, <1>1, PTL

\* A reader decodes nothing, right or wrong, from a container of another kind,
\* whatever the sizes.
THEOREM KindsAreToldApart == Spec => []OnlyItsOwnKind
<1>1. ASSUME CodecInv PROVE OnlyItsOwnKind
  <2> SUFFICES ASSUME result.status \in {"ok", "garbled"}, reader # kind PROVE FALSE
    BY DEF OnlyItsOwnKind
  <2>1. Sizes /\ result = Decoded(reader, Encoded)
    BY <1>1 DEF CodecInv
  <2>2. Rejects(reader, Encoded)
    BY <2>1, MagicTellsKinds DEF Rejects
  <2>3. result.status = "error"
    BY <2>1, <2>2 DEF Decoded
  <2> QED
    BY <2>3
<1> QED
  BY CodecInductive, <1>1, PTL
=============================================================================
