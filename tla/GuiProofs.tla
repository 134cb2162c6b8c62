------------------------------ MODULE GuiProofs ------------------------------
(***************************************************************************)
(* Theorems about module Gui, for any number of labels, any length of the  *)
(* receive queue and any number of messages of any sizes.                  *)
(***************************************************************************)
EXTENDS Gui, SequenceTheorems, FiniteSetTheorems, TLAPS

(* What label i shows and on which side, as LVGL and the array have it. *)
LabelInv ==
  \A i \in Lit :
    /\ TopId(i) \in 1..Len(shown)
    /\ align[i] = SideOf(alignments[i])
    /\ alignments[i] = 1 <=> shown[TopId(i)].origin = "local"

(* Every message that waits in the queue will have a number. *)
Room == Len(shown) + Len(recvQ) <= MaxMsgs

(* A typed message is in send_buffer only between send_message and the flush of
   the same pass, and was typed after all that the queue has taken. *)
BufferInv ==
  /\ pc # "flush" => sendBuffer = NoText
  /\ sendBuffer # NoText => \A k \in 1..Len(taken) : taken[k] < sendBuffer

IInv == TypeOK /\ Room /\ LabelInv /\ NewestFirst /\ BufferInv /\ TypedAccounted

-----------------------------------------------------------------------------
(* What a label reads from the rows is empty for a blank row and begins with the
   row's own message otherwise. *)
LEMMA TextFacts ==
  ASSUME NEW r \in [Slot -> Text], NEW i \in Slot, NEW beyond \in {<<>>, <<Garbage>>}
  PROVE  /\ TextFrom(r, i, beyond) \in Seq(0..MaxMsgs)
         /\ TextFrom(r, i, beyond) = <<>> <=> r[i].size = "blank"
         /\ r[i].size # "blank" => TextFrom(r, i, beyond)[1] = r[i].id
  <1> DEFINE Id == 0..MaxMsgs
             full == Cardinality(FullRun(r, i))
             ids == [k \in 1..full |-> r[i + k - 1].id]
             behind == IF i + full = Slots THEN beyond
                       ELSE IF r[i + full].size = "fits" THEN <<r[i + full].id>> ELSE <<>>
  <1>1. Slots \in Nat \ {0} /\ MaxMsgs \in Nat /\ i \in 0..Slots - 1
    BY GuiConstants DEF Slot
  <1>2. \A j \in 0..Slots - 1 : r[j].id \in Id /\ r[j].size \in {"blank", "fits", "full"}
    BY DEF Slot, Text
  <1>3. IsFiniteSet(i..Slots - 1) /\ Cardinality(i..Slots - 1) = Slots - i
    BY <1>1, FS_Interval
  <1>4. FullRun(r, i) \in SUBSET (i..Slots - 1)
    BY DEF FullRun
  <1>5. full \in 0..Slots - i /\ IsFiniteSet(FullRun(r, i))
    BY <1>1, <1>3, <1>4, FS_Subset, FS_CardinalityType
  <1>6. full = 0 <=> r[i].size # "full"
    <2>1. FullRun(r, i) = {} <=> r[i].size # "full"
      <3>1. ASSUME r[i].size = "full" PROVE i \in FullRun(r, i)
        <4>1. i \in i..Slots - 1 /\ \A j \in i..i : j = i
          BY <1>1
        <4> QED
          BY <3>1, <4>1 DEF FullRun
      <3>2. ASSUME NEW k \in FullRun(r, i) PROVE r[i].size = "full"
        <4>1. k \in i..Slots - 1 /\ \A j \in i..k : r[j].size = "full"
          BY DEF FullRun
        <4>2. i \in i..k
          BY <1>1, <4>1
        <4> QED
          BY <4>1, <4>2
      <3> QED
        BY <3>1, <3>2
    <2> QED
      BY <1>5, <2>1, FS_EmptySet
  <1> HIDE DEF full
  <1>7. ids \in Seq(Id) /\ Len(ids) = full
    <2>1. \A k \in 1..full : r[i + k - 1].id \in Id
      BY <1>1, <1>2, <1>5
    <2>2. ids \in [1..full -> Id]
      BY <2>1
    <2> HIDE DEF ids, Id
    <2> QED
      BY <1>5, <2>2
  <1>8. behind \in Seq(Id)
    <2>1. i + full # Slots => i + full \in 0..Slots - 1
      BY <1>1, <1>5
    <2>2. 0 \in Id
      BY <1>1
    <2> HIDE DEF Id
    <2>3. beyond \in Seq(Id)
      <3>1. CASE beyond = <<>>
        BY <3>1, EmptySeq
      <3>2. CASE beyond = <<Garbage>>
        BY <2>2, <3>2 DEF Garbage
      <3> QED
        BY <3>1, <3>2
    <2> QED
      BY <1>2, <2>1, <2>3
  <1>9. TextFrom(r, i, beyond) = ids \o behind
    BY DEF TextFrom, full
  <1>10. CASE r[i].size = "full"
    <2>1. full >= 1 /\ ids[1] = r[i].id
      BY <1>1, <1>5, <1>6, <1>10
    <2> HIDE DEF ids, behind, Id
    <2>2. ids \o behind \in Seq(Id) /\ Len(ids \o behind) >= 1 /\ (ids \o behind)[1] = ids[1]
      BY <1>5, <1>7, <1>8, <2>1, ConcatProperties, LenProperties
    <2>3. ids \o behind # <<>>
      BY <2>2
    <2> QED
      BY <1>9, <1>10, <2>1, <2>2, <2>3 DEF Id
  <1>11. CASE r[i].size # "full"
    <2>1. full = 0 /\ i + full = i /\ i # Slots
      BY <1>1, <1>6, <1>11
    <2>2. behind = IF r[i].size = "fits" THEN <<r[i].id>> ELSE <<>>
      BY <2>1
    <2>3. ids = <<>>
      BY <2>1
    <2> HIDE DEF ids, Id
    <2>4. ids \o behind = behind
      BY <1>8, <2>3, ConcatEmptySeq
    <2>5. r[i].size = "fits" \/ r[i].size = "blank"
      BY <1>1, <1>2, <1>11
    <2>6. TextFrom(r, i, beyond) = IF r[i].size = "fits" THEN <<r[i].id>> ELSE <<>>
      BY <1>9, <2>2, <2>4
    <2>7. TextFrom(r, i, beyond) \in Seq(Id)
      BY <1>8, <1>9, <2>4
    <2> QED
      BY <2>5, <2>6, <2>7 DEF Id
  <1> QED
    BY <1>10, <1>11

-----------------------------------------------------------------------------
(* Displaying a message.                                                    *)

(* The message displayed is label 0, every other label is a copy of itself or of
   the one below it. *)
LEMMA DisplayFacts ==
  ASSUME TypeOK, Len(shown) < MaxMsgs,
         NEW size \in Sizes, NEW origin \in {"remote", "local"}, Display(size, origin)
  PROVE  /\ shown' = Append(shown, [size |-> size, origin |-> origin])
         /\ Len(shown') = Len(shown) + 1 /\ Len(shown) \in Nat
         /\ \A m \in 1..Len(shown) : shown'[m] = shown[m]
         /\ shown'[Len(shown) + 1] = [size |-> size, origin |-> origin]
         /\ shown' \in Seq([size : Sizes, origin : {"remote", "local"}])
         /\ rows' \in [Slot -> Text] /\ idx' \in Slot
         /\ labels' \in [Slot -> Seq(0..MaxMsgs)]
         /\ labels'[0] # <<>> <=> size # "blank"
         /\ labels'[0] # <<>> => labels'[0][1] = Len(shown) + 1
         /\ alignments'[0] = IF origin = "local" THEN 1 ELSE 0
         /\ align'[0] = SideOf(alignments'[0])
         /\ align' \in [Slot -> {"left", "right"}] /\ alignments' \in [Slot -> {0, 1}]
         /\ \A i \in Slot \ {0} :
              IF labels[i - 1] # <<>>
              THEN /\ labels'[i] = labels[i - 1] /\ alignments'[i] = alignments[i - 1]
                   /\ align'[i] = SideOf(alignments[i - 1])
              ELSE /\ labels'[i] = labels[i] /\ alignments'[i] = alignments[i]
                   /\ align'[i] = align[i]
  <1> DEFINE id == Len(shown) + 1
             entry == [size |-> size, origin |-> origin]
             stored == [rows EXCEPT ![idx] = [id |-> id, size |-> size]]
             Entry == [size : Sizes, origin : {"remote", "local"}]
  <1>1. entry \in Entry /\ shown \in Seq(Entry)
    BY DEF TypeOK
  <1>2. shown' = Append(shown, entry)
    BY DEF Display
  <1> HIDE DEF entry, Entry
  <1>3. /\ Len(shown') = Len(shown) + 1 /\ Len(shown) \in Nat
        /\ \A m \in 1..Len(shown) : shown'[m] = shown[m]
        /\ shown'[Len(shown) + 1] = entry /\ shown' \in Seq(Entry)
    BY <1>1, <1>2, AppendProperties, LenProperties
  <1>4. Slots \in Nat \ {0} /\ MaxMsgs \in Nat /\ 0 \in Slot /\ idx \in Slot
    BY GuiConstants DEF Slot, TypeOK
  <1>5. stored \in [Slot -> Text] /\ stored[idx] = [id |-> id, size |-> size]
    <2>1. id \in 0..MaxMsgs /\ size \in {"blank", "fits", "full"}
      BY <1>3, <1>4, GuiConstants
    <2>2. [id |-> id, size |-> size] \in Text
      BY <2>1 DEF Text
    <2> QED
      BY <1>4, <2>2 DEF TypeOK
  <1>6. rows' = stored /\ idx' \in Slot
    BY <1>4 DEF Display, NextRow, Slot
  <1>7. PICK beyond \in {<<>>, <<Garbage>>} :
          labels' = [i \in Slot |->
                       IF i = 0 THEN TextFrom(stored, idx, beyond) ELSE ShiftedLabels(i)]
    BY DEF Display
  <1> HIDE DEF stored
  <1>8. /\ TextFrom(stored, idx, beyond) \in Seq(0..MaxMsgs)
        /\ TextFrom(stored, idx, beyond) = <<>> <=> stored[idx].size = "blank"
        /\ stored[idx].size # "blank" => TextFrom(stored, idx, beyond)[1] = stored[idx].id
    BY <1>4, <1>5, TextFacts
  <1>9. /\ labels'[0] = TextFrom(stored, idx, beyond)
        /\ \A i \in Slot \ {0} :
             i - 1 \in Slot /\ labels'[i] = IF labels[i - 1] # <<>> THEN labels[i - 1] ELSE labels[i]
    BY <1>4, <1>7 DEF ShiftedLabels, Shifts, Slot
  <1>10. labels' \in [Slot -> Seq(0..MaxMsgs)]
    BY <1>7, <1>8, <1>9 DEF TypeOK
  <1>11. /\ alignments'[0] = IF origin = "local" THEN 1 ELSE 0
         /\ alignments' \in [Slot -> {0, 1}]
         /\ \A i \in Slot \ {0} :
              alignments'[i] = IF labels[i - 1] # <<>> THEN alignments[i - 1] ELSE alignments[i]
    BY <1>4, <1>9 DEF Display, ShiftedAlignments, Shifts, TypeOK
  <1>12. /\ align'[0] = SideOf(alignments'[0])
         /\ align' \in [Slot -> {"left", "right"}]
         /\ \A i \in Slot \ {0} :
              align'[i] = IF labels[i - 1] # <<>> THEN SideOf(alignments'[i]) ELSE align[i]
    <2>1. align' = [i \in Slot |->
                      IF i = 0 \/ Shifts(i) THEN SideOf(alignments'[i]) ELSE align[i]]
      BY DEF Display
    <2> QED
      BY <1>4, <1>9, <2>1 DEF Shifts, SideOf, TypeOK
  <1>13. stored[idx].size = size /\ stored[idx].id = Len(shown) + 1
    BY <1>5
  <1> QED
    BY <1>2, <1>3, <1>5, <1>6, <1>8, <1>9, <1>10, <1>11, <1>12, <1>13 DEF entry, Entry

(* Source(i): the label that label i was a copy of before the shift. *)
Source(i) == IF labels[i - 1] # <<>> THEN i - 1 ELSE i

(* The labels keep their sides and their order when a message is displayed. *)
LEMMA DisplayLabels ==
  ASSUME TypeOK, LabelInv, NewestFirst, Len(shown) < MaxMsgs,
         NEW size \in Sizes, NEW origin \in {"remote", "local"}, Display(size, origin)
  PROVE  LabelInv' /\ NewestFirst'
  <1>1. /\ Len(shown') = Len(shown) + 1 /\ Len(shown) \in Nat
        /\ \A m \in 1..Len(shown) : shown'[m] = shown[m]
        /\ shown'[Len(shown) + 1] = [size |-> size, origin |-> origin]
        /\ labels'[0] # <<>> <=> size # "blank"
        /\ labels'[0] # <<>> => labels'[0][1] = Len(shown) + 1
        /\ alignments'[0] = IF origin = "local" THEN 1 ELSE 0
        /\ align'[0] = SideOf(alignments'[0])
    BY DisplayFacts
  <1>2. /\ Slots \in Nat \ {0} /\ 0 \in Slot
        /\ \A i \in Slot : i \in Nat /\ i <= Slots - 1
        /\ \A i \in Nat : i <= Slots - 1 => i \in Slot
    BY GuiConstants DEF Slot
  <1>3. \A i \in Slot \ {0} :
          /\ Source(i) \in Slot /\ i - 1 <= Source(i) /\ Source(i) <= i
          /\ labels[i - 1] # <<>> => Source(i) = i - 1
          /\ labels'[i] = labels[Source(i)]
          /\ alignments'[i] = alignments[Source(i)]
          /\ Source(i) \in Lit => align'[i] = SideOf(alignments[Source(i)])
    <2> SUFFICES ASSUME NEW i \in Slot \ {0}
                 PROVE  /\ Source(i) \in Slot /\ i - 1 <= Source(i) /\ Source(i) <= i
                        /\ labels[i - 1] # <<>> => Source(i) = i - 1
                        /\ labels'[i] = labels[Source(i)]
                        /\ alignments'[i] = alignments[Source(i)]
                        /\ Source(i) \in Lit => align'[i] = SideOf(alignments[Source(i)])
      OBVIOUS
    <2>1. i \in Nat \ {0} /\ i - 1 \in Slot
      BY <1>2
    <2>2. IF labels[i - 1] # <<>>
          THEN /\ labels'[i] = labels[i - 1] /\ alignments'[i] = alignments[i - 1]
               /\ align'[i] = SideOf(alignments[i - 1])
          ELSE /\ labels'[i] = labels[i] /\ alignments'[i] = alignments[i]
               /\ align'[i] = align[i]
      BY DisplayFacts
    <2>3. Source(i) = IF labels[i - 1] # <<>> THEN i - 1 ELSE i
      BY DEF Source
    <2>4. i \in Lit => align[i] = SideOf(alignments[i])
      BY DEF LabelInv
    <2> QED
      BY <2>1, <2>2, <2>3, <2>4
  <1>4. \A i \in Slot \ {0} : i \in Lit' => Source(i) \in Lit /\ TopId(i)' = TopId(Source(i))
    BY <1>3 DEF Lit, TopId
  <1>5. 0 \in Lit' => TopId(0)' = Len(shown) + 1
    BY <1>1 DEF Lit, TopId
  <1>6. \A i \in Lit : i \in Slot /\ TopId(i) \in 1..Len(shown)
    BY DEF LabelInv, Lit
  <1>7. LabelInv'
    <2> SUFFICES ASSUME NEW i \in Lit'
                 PROVE  /\ TopId(i)' \in 1..Len(shown')
                        /\ align'[i] = SideOf(alignments'[i])
                        /\ alignments'[i] = 1 <=> shown'[TopId(i)'].origin = "local"
      BY DEF LabelInv
    <2>1. i \in Slot
      BY DEF Lit
    <2>2. CASE i = 0
      BY <1>1, <1>5, <2>2
    <2>3. CASE i # 0
      <3>1. Source(i) \in Lit /\ TopId(i)' = TopId(Source(i))
        BY <1>4, <2>1, <2>3
      <3>2. align'[i] = SideOf(alignments[Source(i)]) /\ alignments'[i] = alignments[Source(i)]
        BY <1>3, <2>1, <2>3, <3>1
      <3>3. shown'[TopId(i)'] = shown[TopId(Source(i))]
        BY <1>1, <1>6, <3>1
      <3> QED
        BY <1>1, <1>6, <3>1, <3>2, <3>3 DEF LabelInv
    <2> QED
      BY <2>2, <2>3
  <1>8. \A i, j \in Lit : i < j => TopId(j) <= TopId(i)
    BY DEF NewestFirst
  <1>9. \A i, j \in Lit : TopId(i) < TopId(j) => j < i
    BY <1>2, <1>6, <1>8
  <1>10. \A i, j \in Lit' : i < j => TopId(j)' <= TopId(i)'
    <2> SUFFICES ASSUME NEW i \in Lit', NEW j \in Lit', i < j
                 PROVE  TopId(j)' <= TopId(i)'
      OBVIOUS
    <2>1. i \in Slot /\ j \in Slot \ {0} /\ i \in Nat /\ j \in Nat
      BY <1>2 DEF Lit
    <2>2. Source(j) \in Lit /\ TopId(j)' = TopId(Source(j)) /\ TopId(j)' \in 1..Len(shown)
      BY <1>4, <1>6, <2>1
    <2>3. CASE i = 0
      BY <1>1, <1>5, <2>2, <2>3
    <2>4. CASE i # 0
      <3>1. Source(i) \in Lit /\ TopId(i)' = TopId(Source(i))
        BY <1>4, <2>1, <2>4
      <3>2. /\ Source(i) <= i /\ j - 1 <= Source(j)
            /\ Source(i) \in Nat /\ Source(j) \in Nat
        BY <1>2, <1>3, <2>1, <2>4
      <3>3. Source(i) = Source(j) \/ Source(i) < Source(j)
        BY <2>1, <3>2
      <3> QED
        BY <1>6, <1>8, <2>2, <3>1, <3>3
    <2> QED
      BY <2>3, <2>4
  <1>11. ASSUME NEW i \in Lit', NEW m \in 1..Len(shown'),
                m > TopId(i)', shown'[m].size # "blank"
         PROVE  \E j \in Lit' : TopId(j)' = m
    <2>1. i \in Slot /\ i \in Nat
      BY <1>2 DEF Lit
    <2>2. CASE m = Len(shown) + 1
      <3>1. 0 \in Lit' /\ TopId(0)' = m
        BY <1>1, <1>2, <1>5, <1>11, <2>2 DEF Lit
      <3> QED
        BY <3>1
    <2>3. CASE m \in 1..Len(shown)
      <3>1. i # 0
        BY <1>1, <1>5, <1>11, <2>3
      <3>2. Source(i) \in Lit /\ TopId(i)' = TopId(Source(i)) /\ Source(i) <= i
        BY <1>3, <1>4, <2>1, <3>1
      <3>3. shown[m].size # "blank" /\ m > TopId(Source(i))
        BY <1>1, <1>11, <2>3, <3>2
      <3>4. PICK j \in Lit : TopId(j) = m
        BY <2>3, <3>2, <3>3 DEF NewestFirst
      <3>5. j < Source(i) /\ j \in Slot /\ j \in Nat /\ Source(i) \in Nat
        BY <1>2, <1>3, <1>6, <1>9, <2>1, <3>1, <3>2, <3>3, <3>4
      <3>6. j + 1 \in Slot \ {0} /\ (j + 1) - 1 = j
        BY <1>2, <2>1, <3>2, <3>5
      <3>7. labels'[j + 1] = labels[j] /\ labels[j] # <<>>
        BY <1>3, <3>6 DEF Lit
      <3>8. j + 1 \in Lit' /\ TopId(j + 1)' = m
        BY <3>4, <3>6, <3>7 DEF Lit, TopId
      <3> QED
        BY <3>8
    <2> QED
      BY <1>1, <2>2, <2>3
  <1>12. ASSUME \A m \in 1..Len(shown') : shown'[m].size # "blank",
                NEW i \in Slot, i < Len(shown')
         PROVE  i \in Lit' /\ TopId(i)' = Len(shown') - i
    <2>1. size # "blank" /\ \A m \in 1..Len(shown) : shown[m].size # "blank"
      BY <1>1, <1>12
    <2>2. CASE i = 0
      BY <1>1, <1>2, <1>5, <2>1, <2>2 DEF Lit
    <2>3. CASE i # 0
      <3>1. i - 1 \in Slot /\ i - 1 < Len(shown) /\ i \in Nat
        BY <1>1, <1>2, <1>12, <2>3
      <3>2. i - 1 \in Lit /\ TopId(i - 1) = Len(shown) - (i - 1)
        BY <2>1, <3>1 DEF NewestFirst
      <3>3. labels'[i] = labels[i - 1] /\ labels[i - 1] # <<>>
        BY <1>3, <2>3, <3>2 DEF Lit
      <3>4. i \in Lit' /\ TopId(i)' = TopId(i - 1)
        BY <3>3 DEF Lit, TopId
      <3> QED
        BY <1>1, <3>1, <3>2, <3>4
    <2> QED
      BY <2>2, <2>3
  <1>13. NewestFirst'
    BY <1>10, <1>11, <1>12 DEF NewestFirst
  <1> QED
    BY <1>7, <1>13

-----------------------------------------------------------------------------
(* Typed messages.                                                          *)

Done == {taken[k] : k \in 1..Len(taken)}
Accounted ==
  /\ Typed = Done \cup dropped \cup ({sendBuffer} \ {NoText})
  /\ Done \cap dropped = {} /\ sendBuffer \notin Done \cup dropped
  /\ \A j, k \in 1..Len(taken) : j < k => taken[j] < taken[k]

LEMMA AccountedIs == TypedAccounted <=> Accounted
  BY DEF TypedAccounted, Accounted, Done

(* A message from the other side, or a blank one, is not to be sent; any other one
   is put into an empty send_buffer. *)
LEMMA DisplayTyped ==
  ASSUME TypeOK, Len(shown) < MaxMsgs,
         NEW size \in Sizes, NEW origin \in {"remote", "local"}, Display(size, origin)
  PROVE  Typed' = IF origin = "local" /\ size # "blank" THEN Typed \cup {Len(shown) + 1} ELSE Typed
  <1>1. /\ Len(shown') = Len(shown) + 1 /\ Len(shown) \in Nat
        /\ \A m \in 1..Len(shown) : shown'[m] = shown[m]
        /\ shown'[Len(shown) + 1] = [size |-> size, origin |-> origin]
    BY DisplayFacts
  <1>2. 1..Len(shown') = (1..Len(shown)) \cup {Len(shown) + 1}
    BY <1>1
  <1> QED
    BY <1>1, <1>2 DEF Typed

(* Every step keeps track of the typed messages. *)
LEMMA BufferStep ==
  ASSUME TypeOK, Room, BufferInv, Accounted, Next
  PROVE  BufferInv' /\ Accounted'
  <1> USE DEF screen
  <1>1. Len(shown) \in Nat /\ Len(recvQ) \in Nat /\ MaxMsgs \in Nat
    BY GuiConstants, LenProperties DEF TypeOK
  <1>2. CASE RecvTimeout \/ HandlerIdle \/ FlushNothing \/ \E size \in Sizes : RemoteArrives(size)
    <2>1. /\ UNCHANGED <<shown, sendBuffer, taken, dropped>>
          /\ pc' = pc \/ pc' = "flush" \/ sendBuffer = NoText
      BY <1>2 DEF RecvTimeout, HandlerIdle, FlushNothing, RemoteArrives, BufferInv
    <2> QED
      BY <2>1 DEF BufferInv, Accounted, Done, Typed
  <1>3. CASE TakeRemote
    <2>1. /\ Head(recvQ) \in Sizes /\ Len(shown) < MaxMsgs /\ Display(Head(recvQ), "remote")
          /\ UNCHANGED <<sendBuffer, taken, dropped>> /\ pc = "recv"
      BY <1>1, <1>3, HeadTailProperties, EmptySeq DEF TakeRemote, Room, TypeOK
    <2>2. Typed' = Typed
      BY <2>1, DisplayTyped
    <2> QED
      BY <2>1, <2>2 DEF BufferInv, Accounted, Done
  <1>4. ASSUME NEW size \in Sizes, SendClicked(size)
        PROVE  BufferInv' /\ Accounted'
    <2>1. /\ Len(shown) < MaxMsgs /\ Display(size, "local")
          /\ sendBuffer' = IF size = "blank" THEN NoText ELSE Len(shown) + 1
          /\ pc = "handle" /\ pc' = "flush" /\ UNCHANGED <<taken, dropped>>
      BY <1>1, <1>4 DEF SendClicked
    <2>2. Typed' = IF size # "blank" THEN Typed \cup {Len(shown) + 1} ELSE Typed
      BY <2>1, DisplayTyped
    <2>3. sendBuffer = NoText /\ Typed = Done \cup dropped
      BY <2>1 DEF BufferInv, Accounted
    <2>4. Done' = Done /\ \A m \in Done \cup dropped : m \in 1..Len(shown)
      BY <2>1, <2>3 DEF Done, Typed
    <2>5. \A k \in 1..Len(taken) : taken[k] \in Done
      BY DEF Done
    <2>6. BufferInv'
      BY <1>1, <2>1, <2>4, <2>5 DEF BufferInv, NoText
    <2>7. /\ Typed' = Done' \cup dropped' \cup ({sendBuffer'} \ {NoText})
          /\ sendBuffer' \notin Done' \cup dropped'
      BY <1>1, <2>1, <2>2, <2>3, <2>4 DEF NoText
    <2> QED
      BY <2>1, <2>4, <2>6, <2>7 DEF Accounted
  <1>5. CASE FlushAccepted
    <2>1. /\ sendBuffer # NoText /\ taken' = Append(taken, sendBuffer) /\ sendBuffer' = NoText
          /\ pc' = "recv" /\ UNCHANGED <<shown, dropped>>
          /\ taken \in Seq(1..MaxMsgs) /\ sendBuffer \in 1..MaxMsgs
      BY <1>5 DEF FlushAccepted, TypeOK, NoText
    <2>2. /\ Len(taken') = Len(taken) + 1 /\ Len(taken) \in Nat
          /\ \A k \in 1..Len(taken) : taken'[k] = taken[k]
          /\ taken'[Len(taken) + 1] = sendBuffer
      BY <2>1, AppendProperties, LenProperties
    <2>3. Done' = Done \cup {sendBuffer}
      <3>1. 1..Len(taken') = (1..Len(taken)) \cup {Len(taken) + 1}
        BY <2>2
      <3> QED
        BY <2>2, <3>1 DEF Done
    <2>4. NoText \notin Done \cup dropped
      BY DEF Accounted, Typed, NoText
    <2>5. \A j, k \in 1..Len(taken') : j < k => taken'[j] < taken'[k]
      <3> SUFFICES ASSUME NEW j \in 1..Len(taken'), NEW k \in 1..Len(taken'), j < k
                   PROVE  taken'[j] < taken'[k]
        OBVIOUS
      <3>1. j \in 1..Len(taken) /\ (k \in 1..Len(taken) \/ k = Len(taken) + 1)
        BY <2>2
      <3> QED
        BY <2>1, <2>2, <3>1 DEF BufferInv, Accounted
    <2>6. Typed' = Typed
      BY <2>1 DEF Typed
    <2> QED
      BY <2>1, <2>3, <2>4, <2>5, <2>6 DEF BufferInv, Accounted
  <1>6. CASE FlushTimedOut
    <2>1. /\ sendBuffer # NoText /\ dropped' = dropped \cup {sendBuffer} /\ sendBuffer' = NoText
          /\ pc' = "recv" /\ UNCHANGED <<shown, taken>>
      BY <1>6 DEF FlushTimedOut
    <2>2. Typed' = Typed /\ Done' = Done
      BY <2>1 DEF Typed, Done
    <2>3. NoText \notin Done \cup dropped
      BY DEF Accounted, Typed, NoText
    <2> QED
      BY <2>1, <2>2, <2>3 DEF BufferInv, Accounted
  <1> QED
    BY <1>2, <1>3, <1>4, <1>5, <1>6 DEF Next, GuiTask

-----------------------------------------------------------------------------
(* The other conjuncts.                                                     *)

LEMMA TypeStep ==
  ASSUME TypeOK, Room, Next
  PROVE  TypeOK' /\ Room'
  <1> USE DEF screen
  <1>1. /\ Len(shown) \in Nat /\ Len(recvQ) \in Nat /\ MaxMsgs \in Nat /\ recvQ \in Seq(Sizes)
        /\ QueueLen \in Nat
    BY GuiConstants, LenProperties DEF TypeOK
  <1>2. CASE RecvTimeout \/ HandlerIdle \/ FlushNothing
    BY <1>2 DEF RecvTimeout, HandlerIdle, FlushNothing, TypeOK, Room
  <1>3. CASE FlushAccepted
    <2>1. taken' \in Seq(1..MaxMsgs)
      BY <1>3, AppendProperties DEF FlushAccepted, TypeOK, NoText
    <2> QED
      BY <1>1, <1>3, <2>1 DEF FlushAccepted, TypeOK, Room, NoText
  <1>4. CASE FlushTimedOut
    BY <1>1, <1>4 DEF FlushTimedOut, TypeOK, Room, NoText
  <1>5. ASSUME NEW size \in Sizes, RemoteArrives(size)
        PROVE  TypeOK' /\ Room'
    <2>1. recvQ' \in Seq(Sizes) /\ Len(recvQ') = Len(recvQ) + 1
      BY <1>1, <1>5, AppendProperties DEF RemoteArrives
    <2> QED
      BY <1>1, <1>5, <2>1 DEF RemoteArrives, TypeOK, Room
  <1>6. CASE TakeRemote
    <2>1. /\ Head(recvQ) \in Sizes /\ recvQ' \in Seq(Sizes) /\ Len(recvQ') = Len(recvQ) - 1
          /\ Len(shown) < MaxMsgs
      BY <1>1, <1>6, HeadTailProperties, EmptySeq DEF TakeRemote, Room
    <2>2. Display(Head(recvQ), "remote") /\ pc' = "handle" /\ UNCHANGED <<sendBuffer, taken, dropped>>
      BY <1>6 DEF TakeRemote
    <2>3. /\ rows' \in [Slot -> Text] /\ idx' \in Slot
          /\ labels' \in [Slot -> Seq(0..MaxMsgs)]
          /\ align' \in [Slot -> {"left", "right"}] /\ alignments' \in [Slot -> {0, 1}]
          /\ shown' \in Seq([size : Sizes, origin : {"remote", "local"}])
          /\ Len(shown') = Len(shown) + 1
      BY <2>1, <2>2, DisplayFacts
    <2> QED
      BY <1>1, <2>1, <2>2, <2>3 DEF TypeOK, Room
  <1>7. ASSUME NEW size \in Sizes, SendClicked(size)
        PROVE  TypeOK' /\ Room'
    <2>1. /\ Display(size, "local") /\ pc' = "flush" /\ UNCHANGED <<recvQ, taken, dropped>>
          /\ Len(shown) + Len(recvQ) < MaxMsgs /\ Len(shown) < MaxMsgs
          /\ sendBuffer' \in 0..MaxMsgs
      BY <1>1, <1>7 DEF SendClicked, NoText
    <2>2. /\ rows' \in [Slot -> Text] /\ idx' \in Slot
          /\ labels' \in [Slot -> Seq(0..MaxMsgs)]
          /\ align' \in [Slot -> {"left", "right"}] /\ alignments' \in [Slot -> {0, 1}]
          /\ shown' \in Seq([size : Sizes, origin : {"remote", "local"}])
          /\ Len(shown') = Len(shown) + 1
      BY <2>1, DisplayFacts
    <2> QED
      BY <1>1, <2>1, <2>2 DEF TypeOK, Room
  <1> QED
    BY <1>2, <1>3, <1>4, <1>5, <1>6, <1>7 DEF Next, GuiTask

LEMMA ScreenStep ==
  ASSUME TypeOK, Room, LabelInv, NewestFirst, Next
  PROVE  LabelInv' /\ NewestFirst'
  <1>1. Len(shown) \in Nat /\ Len(recvQ) \in Nat /\ MaxMsgs \in Nat
    BY GuiConstants, LenProperties DEF TypeOK
  <1>2. CASE TakeRemote
    <2>1. Head(recvQ) \in Sizes /\ Len(shown) < MaxMsgs /\ Display(Head(recvQ), "remote")
      BY <1>1, <1>2, HeadTailProperties, EmptySeq DEF TakeRemote, Room, TypeOK
    <2> QED
      BY <2>1, DisplayLabels
  <1>3. ASSUME NEW size \in Sizes, SendClicked(size)
        PROVE  LabelInv' /\ NewestFirst'
    <2>1. Len(shown) < MaxMsgs /\ Display(size, "local")
      BY <1>1, <1>3 DEF SendClicked
    <2> QED
      BY <2>1, DisplayLabels
  <1>4. CASE UNCHANGED screen
    BY <1>4 DEF screen, LabelInv, NewestFirst, Lit, TopId
  <1> QED
    BY <1>2, <1>3, <1>4
    DEF Next, GuiTask, RecvTimeout, HandlerIdle, FlushNothing, FlushAccepted, FlushTimedOut,
        RemoteArrives

(* The invariant holds in every reachable state. *)
THEOREM GuiInvCorrect == Spec => []IInv
  <1>1. Init => IInv
    <2> SUFFICES ASSUME Init PROVE IInv
      OBVIOUS
    <2>1. Slots \in Nat \ {0} /\ MaxMsgs \in Nat /\ QueueLen \in Nat /\ 0 \in Slot
      BY GuiConstants DEF Slot
    <2>2. Len(shown) = 0 /\ Len(taken) = 0 /\ Len(recvQ) = 0
      BY EmptySeq DEF Init
    <2>3. TypeOK /\ Room
      <3>1. Empty \in Text
        BY <2>1 DEF Empty, Text
      <3>2. rows \in [Slot -> Text] /\ labels \in [Slot -> Seq(0..MaxMsgs)]
        BY <3>1, EmptySeq DEF Init
      <3>3. /\ recvQ \in Seq(Sizes) /\ taken \in Seq(1..MaxMsgs)
            /\ shown \in Seq([size : Sizes, origin : {"remote", "local"}])
        BY EmptySeq DEF Init
      <3> QED
        BY <2>1, <2>2, <3>2, <3>3 DEF Init, TypeOK, Room, NoText
    <2>4. Lit = {}
      BY DEF Init, Lit
    <2>5. \A m \in 1..Len(shown) : FALSE
      BY <2>2
    <2>6. LabelInv /\ NewestFirst
      <3>1. \A i \in Slot : ~(i < Len(shown))
        BY <2>1, <2>2 DEF Slot
      <3> QED
        BY <2>4, <2>5, <3>1 DEF LabelInv, NewestFirst
    <2>7. Accounted /\ BufferInv
      <3>1. \A k \in 1..Len(taken) : FALSE
        BY <2>2
      <3> QED
        BY <2>5, <3>1 DEF Init, Accounted, Done, Typed, BufferInv, NoText
    <2> QED
      BY <2>3, <2>6, <2>7, AccountedIs DEF IInv
  <1>2. IInv /\ [Next]_vars => IInv'
    <2> SUFFICES ASSUME IInv, [Next]_vars PROVE IInv'
      OBVIOUS
    <2> USE DEF IInv
    <2>1. CASE Next
      <3>1. TypeOK' /\ Room' /\ LabelInv' /\ NewestFirst'
        BY <2>1, TypeStep, ScreenStep
      <3>2. BufferInv' /\ Accounted'
        BY <2>1, AccountedIs, BufferStep
      <3>3. TypedAccounted'
        BY <3>2 DEF TypedAccounted, Accounted, Done
      <3> QED
        BY <3>1, <3>2, <3>3
    <2>2. CASE UNCHANGED vars
      <3>1. TypeOK' /\ Room' /\ LabelInv' /\ BufferInv'
        BY <2>2 DEF vars, screen, TypeOK, Room, LabelInv, BufferInv, Lit, TopId
      <3>2. NewestFirst'
        BY <2>2 DEF vars, screen, NewestFirst, Lit, TopId
      <3>3. TypedAccounted'
        BY <2>2 DEF vars, screen, TypedAccounted, Typed
      <3> QED
        BY <3>1, <3>2, <3>3
    <2> QED
      BY <2>1, <2>2
  <1> QED
    BY <1>1, <1>2, PTL DEF Spec

(* Every variable keeps its type: the index of the rows wraps around, and no more
   is displayed than was sent (ui_events.c:48). *)
THEOREM GuiTypeCorrect == Spec => []TypeOK
  <1>1. IInv => TypeOK
    BY DEF IInv
  <1> QED
    BY <1>1, GuiInvCorrect, PTL

(* Every label is on the side of the message it shows, although the texts and the
   alignments are shifted separately (ui_events.c:30-43). *)
THEOREM SideMatchesOriginCorrect == Spec => []SideMatchesOrigin
  <1>1. IInv => SideMatchesOrigin
    <2> SUFFICES ASSUME IInv, NEW i \in Lit
                 PROVE  align[i] = "right" <=> shown[TopId(i)].origin = "local"
      BY DEF SideMatchesOrigin
    <2>1. alignments[i] \in {0, 1}
      BY DEF IInv, TypeOK, Lit
    <2> QED
      BY <2>1 DEF IInv, LabelInv, SideOf
  <1> QED
    BY <1>1, GuiInvCorrect, PTL

(* The labels show the messages from the newest to the oldest without a gap. *)
THEOREM NewestFirstCorrect == Spec => []NewestFirst
  <1>1. IInv => NewestFirst
    BY DEF IInv
  <1> QED
    BY <1>1, GuiInvCorrect, PTL

(* No typed message is overwritten in send_buffer, offered twice or out of order
   (gui.c, the flush behind lv_task_handler). *)
THEOREM TypedAccountedCorrect == Spec => []TypedAccounted
  <1>1. IInv => TypedAccounted
    BY DEF IInv
  <1> QED
    BY <1>1, GuiInvCorrect, PTL
=============================================================================
