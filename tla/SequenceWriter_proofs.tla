----------------------- MODULE SequenceWriter_proofs -----------------------
(***************************************************************************)
(* Proofs about SequenceWriter, for every descriptor set, unit, OBU size   *)
(* and sink.                                                               *)
(*                                                                         *)
(* The argument rests on one inductive invariant, IInv: as long as the     *)
(* writer is not poisoned, what the pushes were asked to write is exactly  *)
(* what the sink holds, then the scratch, then the serialised queue.       *)
(***************************************************************************)
EXTENDS SequenceWriter, SequenceTheorems, SequenceLemmas, TLAPS

ItemTypes == {Delimiter} \cup [kind : {"block"}, block : Blocks]
                         \cup [kind : {"frame"}, frame : Frames]

----------------------------------------------------------------------------
(* Units, items and OBUs                                                   *)

\* The OBUs of a unit are of the three kinds a unit may hold.
LEMMA ItemsType ==
  ASSUME NEW unit \in Units
  PROVE  Items(unit) \in Seq(ItemTypes)
<1> DEFINE lead   == IF unit.delimiter THEN <<Delimiter>> ELSE <<>>
           blocks == [i \in DOMAIN unit.blocks |-> BlockItem(unit.blocks[i])]
           frames == [i \in DOMAIN unit.frames |-> FrameItem(unit.frames[i])]
<1>1. unit.blocks \in Seq(Blocks) /\ unit.frames \in Seq(Frames)
  BY UnitsAssumption
<1>2. lead \in Seq(ItemTypes)
  <2>1. Delimiter \in ItemTypes
    BY DEF ItemTypes
  <2>2. <<Delimiter>> \in Seq(ItemTypes) /\ <<>> \in Seq(ItemTypes)
    BY <2>1
  <2> QED  BY <2>2
<1>3. blocks \in Seq(ItemTypes)
  <2>1. \A i \in 1..Len(unit.blocks) : BlockItem(unit.blocks[i]) \in ItemTypes
    BY <1>1 DEF BlockItem, ItemTypes
  <2> QED  BY <1>1, <2>1
<1>4. frames \in Seq(ItemTypes)
  <2>1. \A i \in 1..Len(unit.frames) : FrameItem(unit.frames[i]) \in ItemTypes
    BY <1>1 DEF FrameItem, ItemTypes
  <2> QED  BY <1>1, <2>1
<1>5. (lead \o blocks) \o frames \in Seq(ItemTypes)
  <2> HIDE DEF lead, blocks, frames
  <2> QED  BY <1>2, <1>3, <1>4
<1> QED  BY <1>5 DEF Items

\* An item the writers accept becomes an OBU.
LEMMA SerializeType ==
  ASSUME NEW registry, NEW item \in ItemTypes, Serializable(registry, item)
  PROVE  Serialize(registry, item) \in Obus
<1>1. CASE item = Delimiter
  BY <1>1 DEF Delimiter, Serialize, Obus
<1>2. CASE item \in [kind : {"block"}, block : Blocks]
  <2>1. GoverningShape(registry, item.block.param) \in Shapes
    BY <1>2 DEF Serializable, BlockFits, Blocks
  <2> QED  BY <1>2, <2>1 DEF Serialize, Obus
<1>3. CASE item \in [kind : {"frame"}, frame : Frames]
  BY <1>3 DEF Serialize, Obus
<1> QED  BY <1>1, <1>2, <1>3 DEF ItemTypes

\* A preflighted unit becomes one OBU for each of its items, in order.
LEMMA ImageOfUnit ==
  ASSUME NEW registry, NEW unit \in Units, Acceptable(registry, unit)
  PROVE  /\ Image(registry, unit) \in Seq(Obus)
         /\ Len(Image(registry, unit)) = Len(Items(unit))
         /\ \A i \in 1..Len(Items(unit)) :
              /\ Serializable(registry, Items(unit)[i])
              /\ Image(registry, unit)[i] = Serialize(registry, Items(unit)[i])
<1>1. Items(unit) \in Seq(ItemTypes)
  BY ItemsType
<1>2. \A i \in 1..Len(Items(unit)) : Serializable(registry, Items(unit)[i])
  BY <1>1 DEF Acceptable
<1>3. \A i \in 1..Len(Items(unit)) : Serialize(registry, Items(unit)[i]) \in Obus
  BY <1>1, <1>2, SerializeType
<1> QED  BY <1>1, <1>2, <1>3 DEF Image

\* The prologue is an OBU.
LEMMA PrologueType ==
  ASSUME NEW set \in DescriptorSets
  PROVE  PrologueObu(set) \in Obus
BY DEF PrologueObu, Obus

\* Every OBU takes at least one byte.
LEMMA ObuSize ==
  ASSUME NEW obu \in Obus
  PROVE  Size[obu.kind] \in Nat \ {0}
<1>1. obu.kind \in ObuKinds
  BY DEF Obus, ObuKinds, Delimiter
<1> QED  BY <1>1, SizeAssumption

----------------------------------------------------------------------------
(* Bytes by position                                                       *)

\* The first m bytes of an OBU are its first n bytes only if m is n.
LEMMA BeginningProperties ==
  ASSUME NEW m \in Nat
  PROVE  /\ Beginning(m) \in Seq(Nat)
         /\ Len(Beginning(m)) = m
         /\ \A n \in Nat : Beginning(m) = Beginning(n) <=> m = n
<1>1. \A n \in Nat : Beginning(n) \in Seq(Nat) /\ Len(Beginning(n)) = n
  BY DEF Beginning
<1> QED  BY <1>1

\* The next n of the bytes that are left continue the bytes before them.
LEMMA NextBytes ==
  ASSUME NEW size \in Nat, NEW left \in 1..size, NEW n \in 1..left
  PROVE  Beginning(size - left) \o [i \in 1..n |-> size - left + i]
           = Beginning(size - left + n)
<1> DEFINE more == [i \in 1..n |-> size - left + i]
<1>1. more \in Seq(Nat) /\ Len(more) = n /\ \A i \in 1..n : more[i] = size - left + i
  OBVIOUS
<1>2. size - left \in Nat /\ size - left + n \in Nat
  OBVIOUS
<1>3. Beginning(size - left) \in Seq(Nat) /\ Len(Beginning(size - left)) = size - left
  BY <1>2, BeginningProperties
<1>4. Beginning(size - left + n) \in Seq(Nat) /\ Len(Beginning(size - left + n)) = size - left + n
  BY <1>2, BeginningProperties
<1>5. \A i \in 1..(size - left) : Beginning(size - left)[i] = i
  BY DEF Beginning
<1>6. \A i \in 1..(size - left + n) : Beginning(size - left + n)[i] = i
  BY DEF Beginning
<1>7. Beginning(size - left) \o more = Beginning(size - left + n)
  <2> DEFINE first == Beginning(size - left)
  <2> HIDE DEF first, more
  <2>1. /\ first \o more \in Seq(Nat)
        /\ Len(first \o more) = size - left + n
        /\ \A i \in 1..(size - left + n) : (first \o more)[i] =
              IF i <= size - left THEN first[i] ELSE more[i - (size - left)]
    <3>1. first \in Seq(Nat) /\ Len(first) = size - left
      BY <1>3 DEF first
    <3>2. /\ first \o more \in Seq(Nat)
          /\ Len(first \o more) = Len(first) + Len(more)
          /\ \A i \in 1..(Len(first) + Len(more)) : (first \o more)[i] =
                IF i <= Len(first) THEN first[i] ELSE more[i - Len(first)]
      BY <1>1, <3>1, ConcatProperties
    <3> QED  BY <1>1, <1>2, <3>1, <3>2
  <2>2. \A i \in 1..(size - left + n) : (first \o more)[i] = i
    <3> TAKE i \in 1..(size - left + n)
    <3>1. CASE i <= size - left
      <4>1. i \in 1..(size - left)
        BY <1>2, <3>1
      <4> QED  BY <2>1, <1>5, <3>1, <4>1 DEF first
    <3>2. CASE i > size - left
      <4>1. i - (size - left) \in 1..n
        BY <1>2, <3>2
      <4>2. more[i - (size - left)] = size - left + (i - (size - left))
        BY <1>1, <4>1
      <4>3. (first \o more)[i] = more[i - (size - left)]
        <5>1. ~(i <= size - left)
          BY <1>2, <3>2
        <5> QED  BY <2>1, <5>1
      <4>4. size - left + (i - (size - left)) = i
        BY <1>2
      <4> QED  BY <4>2, <4>3, <4>4
    <3>3. i <= size - left \/ i > size - left
      BY <1>2
    <3> QED  BY <3>1, <3>2, <3>3
  <2> QED  BY <1>4, <1>6, <2>1, <2>2, SeqEqual DEF first
<1> QED  BY <1>7 DEF more

----------------------------------------------------------------------------
(* The inductive invariant                                                 *)

Asked == promised \o pledge

\* What was asked for is in the sink, in the scratch or in the queue, and the
\* incomplete OBU of the sink is what the scratch has handed over.
Accounted ==
  /\ Len(Asked) = Len(sink) + Len(scratch) + Len(queue)
  /\ \A i \in 1..Len(sink) : Asked[i] = sink[i]
  /\ scratch # <<>> =>
       /\ Asked[Len(sink) + 1] = scratch[1]
       /\ remaining \in 1..Size[scratch[1].kind]
       /\ torn = Beginning(Size[scratch[1].kind] - remaining)
  /\ scratch = <<>> => torn = <<>>
  /\ \A j \in 1..Len(queue) :
       Asked[Len(sink) + Len(scratch) + j] = Serialize(definitions, queue[j])

\* Where a call can be, given the state of the writer.
CallsAgree ==
  /\ call \in {"none", "finished"} =>
       /\ scratch = <<>>
       /\ queue = <<>>
       /\ state # "Poisoned" => pledge = <<>>
  /\ call = "push_descriptors" => state = "Fresh" /\ queue = <<>>
  /\ call = "push_temporal_unit" =>
       /\ state = "DescriptorsWritten"
       /\ \A j \in 1..Len(queue) : Serializable(definitions, queue[j])

\* A poisoned writer is between calls, and its last answer was an error.
PoisonedAtRest ==
  state = "Poisoned" =>
    /\ call \in {"none", "finished"}
    /\ result \in {"SinkWrite", "Overflow", "Poisoned"}
    /\ ~delivered
    /\ InWireOrder

IInv ==
  /\ TypeOK
  /\ Len(promised) <= Len(sink)
  /\ state # "Poisoned" => Accounted
  /\ CallsAgree
  /\ PoisonedAtRest
  /\ delivered => call = "finished"

\* IInv holds before the first call.
LEMMA InitIInv == Init => IInv
<1> SUFFICES ASSUME Init PROVE IInv
  OBVIOUS
<1>1. TypeOK
  <2>1. /\ \A S : <<>> \in Seq(S)
        /\ bytes_written \in 0..MaxOffset
        /\ room \in Nat
    BY EmptySeq, CapacityAssumption, OffsetAssumption DEF Init
  <2> QED  BY <2>1 DEF Init, TypeOK, Outcomes
<1>2. Accounted
  BY DEF Init, Accounted, Asked
<1> QED  BY <1>1, <1>2 DEF Init, IInv, CallsAgree, PoisonedAtRest

\* A step that changes nothing preserves it.
LEMMA StutterIInv ==
  ASSUME IInv, UNCHANGED vars
  PROVE  IInv'
BY DEF IInv, vars, writerVars, callVars, sinkVars, historyVars, TypeOK, Accounted,
       Asked, CallsAgree, PoisonedAtRest, InWireOrder

\* What is asked for is a sequence of OBUs.
LEMMA AskedType ==
  ASSUME TypeOK
  PROVE  Asked \in Seq(Obus) /\ Len(Asked) = Len(promised) + Len(pledge)
BY ConcatProperties DEF TypeOK, Asked

\* A sequence that agrees with the first elements of another is its beginning.
LEMMA PrefixIsSubSeq ==
  ASSUME NEW S, NEW s \in Seq(S), NEW t \in Seq(S), Len(s) <= Len(t),
         \A i \in 1..Len(s) : t[i] = s[i]
  PROVE  s = SubSeq(t, 1, Len(s))
<1>1. /\ SubSeq(t, 1, Len(s)) \in Seq(S)
      /\ Len(SubSeq(t, 1, Len(s))) = Len(s)
      /\ \A i \in 1..Len(s) : SubSeq(t, 1, Len(s))[i] = t[i]
  OBVIOUS
<1> QED  BY <1>1, SeqEqual

\* While everything is accounted for, the sink is a beginning of what was
\* asked for.
LEMMA AccountedInOrder ==
  ASSUME TypeOK, Len(promised) <= Len(sink), Accounted
  PROVE  InWireOrder
<1>1. Asked \in Seq(Obus) /\ Len(Asked) \in Nat
  BY AskedType
<1>2. sink \in Seq(Obus) /\ Len(sink) \in Nat /\ Len(scratch) \in Nat /\ Len(queue) \in Nat
  BY DEF TypeOK
<1>3. Len(sink) <= Len(Asked)
  BY <1>1, <1>2 DEF Accounted
<1>4. sink = SubSeq(Asked, 1, Len(sink))
  BY <1>1, <1>2, <1>3, PrefixIsSubSeq DEF Accounted
<1>5. ASSUME torn # <<>>
      PROVE  /\ Len(sink) < Len(Asked)
             /\ torn = Beginning(Len(torn))
             /\ Len(torn) < Size[Asked[Len(sink) + 1].kind]
  <2>1. scratch # <<>>
    BY <1>5 DEF Accounted
  <2>2. PICK obu \in Obus : scratch = <<obu>>
    BY <2>1 DEF TypeOK
  <2>3. Asked[Len(sink) + 1] = obu /\ remaining \in 1..Size[obu.kind]
    BY <2>1, <2>2 DEF Accounted
  <2>4. torn = Beginning(Size[obu.kind] - remaining)
    BY <2>1, <2>2 DEF Accounted
  <2>5. Size[obu.kind] \in Nat /\ Size[obu.kind] - remaining \in Nat
    BY <2>3, ObuSize
  <2>6. Len(torn) = Size[obu.kind] - remaining
    BY <2>4, <2>5, BeginningProperties
  <2>7. Len(sink) < Len(Asked)
    BY <1>1, <1>2, <2>2 DEF Accounted
  <2> QED  BY <2>3, <2>4, <2>5, <2>6, <2>7
<1> QED  BY <1>3, <1>4, <1>5 DEF InWireOrder, Asked

\* A failure during a flush preserves IInv if the sink is left in order.
LEMMA PoisonIInv ==
  ASSUME IInv, scratch # <<>>,
         NEW outcome \in {"SinkWrite", "Overflow"}, Poison(outcome),
         sink' \in Seq(Obus), Len(sink) <= Len(sink'), torn' \in Seq(Nat), room' \in Nat,
         UNCHANGED bytes_written,
         InWireOrder'
  PROVE  IInv'
<1>1. TypeOK /\ ~delivered
  BY DEF IInv, CallsAgree
<1>2. TypeOK'
  BY <1>1, EmptySeq DEF Poison, Return, historyVars, TypeOK, Outcomes
<1>3. Len(promised') <= Len(sink')
  BY <1>1 DEF IInv, TypeOK, Poison, historyVars
<1> QED  BY <1>1, <1>2, <1>3 DEF IInv, CallsAgree, PoisonedAtRest, Poison, Return

\* The sink fails before it takes anything.
LEMMA SinkFailureIInv ==
  ASSUME IInv, RefuseBytes \/ SinkError
  PROVE  IInv'
<1>1. /\ scratch # <<>>
      /\ Poison("SinkWrite")
      /\ UNCHANGED <<bytes_written, sink, torn, room>>
  BY DEF RefuseBytes, SinkError
<1>2. state # "Poisoned"
  BY <1>1 DEF IInv, PoisonedAtRest, CallsAgree
<1>3. InWireOrder
  BY <1>2, AccountedInOrder DEF IInv
<1>4. InWireOrder'
  BY <1>1, <1>3 DEF InWireOrder, Poison, historyVars
<1>5. sink' \in Seq(Obus) /\ Len(sink) <= Len(sink') /\ torn' \in Seq(Nat) /\ room' \in Nat
  BY <1>1 DEF IInv, TypeOK
<1> QED  BY <1>1, <1>4, <1>5, PoisonIInv

\* What HandOver does to the sink: either the OBU of the scratch is complete
\* now, or the sink ends in a longer beginning of it.
LEMMA HandOverEffect ==
  ASSUME TypeOK, Accounted, scratch # <<>>,
         NEW n \in 1..remaining, n <= room, HandOver(n)
  PROVE  /\ n = remaining => sink' = Append(sink, scratch[1]) /\ torn' = <<>>
         /\ n # remaining =>
              /\ sink' = sink
              /\ torn' = Beginning(Size[scratch[1].kind] - (remaining - n))
         /\ room' \in Nat
<1> DEFINE size == Size[scratch[1].kind]
<1>1. PICK obu \in Obus : scratch = <<obu>>
  BY DEF TypeOK
<1>2. size \in Nat \ {0} /\ remaining \in 1..size /\ torn = Beginning(size - remaining)
  BY <1>1, ObuSize DEF Accounted
<1>3. torn \o [i \in 1..n |-> size - remaining + i] = Beginning(size - remaining + n)
  BY <1>2, NextBytes
<1>4. size - remaining + n \in Nat /\ size - remaining + n = size - (remaining - n)
  BY <1>2
<1>5. Beginning(size - remaining + n) = Beginning(size) <=> size - remaining + n = size
  BY <1>2, <1>4, BeginningProperties
<1>6. size - remaining + n = size <=> n = remaining
  BY <1>2
<1>7. room' \in Nat
  <2>1. room \in Nat /\ remaining \in Nat
    BY DEF TypeOK
  <2>2. room' = room - n
    BY DEF HandOver
  <2> QED  BY <2>1, <2>2
<1> HIDE DEF size
<1> QED  BY <1>3, <1>4, <1>5, <1>6, <1>7 DEF HandOver, size

\* A write that the sink takes preserves IInv, whether its bytes can be
\* counted or not.
LEMMA AcceptBytesIInv ==
  ASSUME IInv, NEW n \in 1..remaining, AcceptBytes(n)
  PROVE  IInv'
<1> DEFINE size == Size[scratch[1].kind]
<1>1. /\ scratch # <<>> /\ n <= room /\ HandOver(n)
      /\ call \in {"push_descriptors", "push_temporal_unit"}
      /\ state # "Poisoned" /\ ~delivered
      /\ TypeOK /\ Accounted /\ Len(promised) <= Len(sink)
  BY DEF AcceptBytes, IInv, TypeOK, CallsAgree, PoisonedAtRest
<1>2. PICK obu \in Obus : scratch = <<obu>>
  BY <1>1 DEF TypeOK
<1>3. size \in Nat \ {0} /\ remaining \in 1..size /\ Len(scratch) = 1
  BY <1>1, <1>2, ObuSize DEF Accounted
<1>4. /\ n = remaining => sink' = Append(sink, obu) /\ torn' = <<>>
      /\ n # remaining => sink' = sink /\ torn' = Beginning(size - (remaining - n))
      /\ room' \in Nat
  BY <1>1, <1>2, HandOverEffect
<1>5. /\ Asked \in Seq(Obus) /\ Len(Asked) \in Nat
      /\ sink \in Seq(Obus) /\ Len(sink) \in Nat /\ Len(queue) \in Nat
      /\ Len(promised) \in Nat /\ bytes_written \in 0..MaxOffset
  BY <1>1, AskedType DEF TypeOK
<1>6. Asked[Len(sink) + 1] = obu /\ Len(sink) + 1 <= Len(Asked)
  BY <1>1, <1>2, <1>3, <1>5 DEF Accounted
<1>7. UNCHANGED historyVars /\ Asked' = Asked
  BY DEF AcceptBytes, Poison, historyVars, Asked
<1>8. /\ sink' \in Seq(Obus)
      /\ Len(sink) <= Len(sink')
      /\ Len(sink') = IF n = remaining THEN Len(sink) + 1 ELSE Len(sink)
      /\ \A i \in 1..Len(sink') : Asked[i] = sink'[i]
  <2>1. CASE n = remaining
    <3>1. sink' = Append(sink, obu)
      BY <1>4, <2>1
    <3>2. Append(sink, obu) \in Seq(Obus) /\ Len(Append(sink, obu)) = Len(sink) + 1
      BY <1>5
    <3>3. ASSUME NEW i \in 1..(Len(sink) + 1) PROVE Asked[i] = Append(sink, obu)[i]
      <4>1. CASE i \in 1..Len(sink)
        BY <1>1, <1>5, <4>1 DEF Accounted
      <4>2. CASE i = Len(sink) + 1
        BY <1>5, <1>6, <4>2
      <4> QED  BY <1>5, <4>1, <4>2
    <3> QED  BY <1>5, <2>1, <3>1, <3>2, <3>3
  <2>2. CASE n # remaining
    BY <1>1, <1>4, <1>5, <2>2 DEF Accounted
  <2> QED  BY <2>1, <2>2
<1>9. /\ torn' \in Seq(Nat)
      /\ n # remaining => Len(torn') < size /\ torn' = Beginning(Len(torn'))
  <2>1. CASE n = remaining
    BY <1>4, <2>1, EmptySeq
  <2>2. CASE n # remaining
    <3>1. size - (remaining - n) \in Nat /\ size - (remaining - n) < size
      BY <1>3, <2>2
    <3> HIDE DEF size
    <3> QED  BY <1>4, <2>2, <3>1, BeginningProperties
  <2> QED  BY <2>1, <2>2
<1>10. CASE ~CountFits(n)
  <2>1. Poison("Overflow") /\ UNCHANGED bytes_written
    BY <1>10 DEF AcceptBytes
  <2>2. InWireOrder'
    <3>1. Len(sink') <= Len(Asked) /\ Len(promised) <= Len(sink')
      BY <1>1, <1>3, <1>5, <1>6, <1>8
    <3>2. sink' = SubSeq(Asked, 1, Len(sink'))
      BY <1>5, <1>8, <3>1, PrefixIsSubSeq
    <3>3. ASSUME torn' # <<>>
          PROVE  /\ Len(sink') < Len(Asked)
                 /\ torn' = Beginning(Len(torn'))
                 /\ Len(torn') < Size[Asked[Len(sink') + 1].kind]
      <4>1. n # remaining
        BY <1>4, <3>3
      <4>2. sink' = sink
        BY <1>4, <4>1
      <4> QED  BY <1>2, <1>5, <1>6, <1>9, <4>1, <4>2
    <3> QED  BY <1>7, <3>1, <3>2, <3>3 DEF InWireOrder, Asked, historyVars
  <2> QED  BY <1>1, <1>4, <1>8, <1>9, <2>1, <2>2, PoisonIInv
<1>11. CASE CountFits(n)
  <2>1. /\ bytes_written' = bytes_written + n
        /\ remaining' = remaining - n
        /\ scratch' = IF remaining = n THEN <<>> ELSE scratch
        /\ UNCHANGED <<state, definitions, callVars, delivered, historyVars>>
    BY <1>11 DEF AcceptBytes, Counted
  <2>2. bytes_written' \in 0..MaxOffset /\ remaining' \in Nat
    BY <1>3, <1>5, <1>11, <2>1, OffsetAssumption DEF CountFits
  <2>3. (scratch' = <<>> <=> remaining' = 0) /\ (scratch' # <<>> => scratch' = <<obu>>)
    BY <1>2, <1>3, <2>1
  <2>4. TypeOK'
    BY <1>1, <1>4, <1>8, <1>9, <2>1, <2>2, <2>3
       DEF TypeOK, callVars, historyVars
  <2>5. Accounted'
    <3>1. CASE n = remaining
      <4>1. scratch' = <<>> /\ torn' = <<>> /\ Len(scratch') = 0
        BY <1>4, <2>1, <3>1
      <4>2. queue' = queue /\ definitions' = definitions /\ Len(sink') = Len(sink) + 1
        BY <1>8, <2>1, <3>1 DEF callVars
      <4>3. \A j \in 1..Len(queue) :
              Asked[Len(sink') + 0 + j] = Serialize(definitions, queue[j])
        BY <1>1, <1>3, <1>5, <4>2 DEF Accounted
      <4>4. Len(Asked) = Len(sink') + 0 + Len(queue)
        BY <1>1, <1>3, <1>5, <4>2 DEF Accounted
      <4> QED  BY <1>7, <1>8, <4>1, <4>2, <4>3, <4>4 DEF Accounted
    <3>2. CASE n # remaining
      <4>1. /\ scratch' = scratch /\ sink' = sink /\ queue' = queue
            /\ definitions' = definitions
        BY <1>4, <2>1, <3>2 DEF callVars
      <4>2. remaining' \in 1..size /\ torn' = Beginning(size - remaining')
        BY <1>3, <1>4, <2>1, <3>2
      <4> QED  BY <1>1, <1>7, <4>1, <4>2 DEF Accounted
    <3> QED  BY <3>1, <3>2
  <2>6. CallsAgree'
    BY <1>1, <2>1 DEF IInv, CallsAgree, callVars, historyVars
  <2>7. Len(promised') <= Len(sink')
    BY <1>1, <1>5, <1>7, <1>8 DEF historyVars
  <2> QED  BY <1>1, <2>1, <2>4, <2>5, <2>6, <2>7 DEF IInv, PoisonedAtRest
<1> QED  BY <1>10, <1>11

\* The preflight decides: while a unit is emitted every item of the queue is
\* still writable, so the next one goes into the scratch.
LEMMA EmitNextIInv ==
  ASSUME IInv, EmitNext
  PROVE  IInv'
<1>1. /\ call = "push_temporal_unit" /\ scratch = <<>> /\ queue # <<>>
      /\ state = "DescriptorsWritten"
      /\ TypeOK /\ Accounted /\ Len(promised) <= Len(sink)
      /\ \A j \in 1..Len(queue) : Serializable(definitions, queue[j])
  BY DEF EmitNext, IInv, CallsAgree
<1>2. queue \in Seq(ItemTypes)
  BY <1>1 DEF TypeOK, ItemTypes
<1>3. /\ Head(queue) = queue[1] /\ Head(queue) \in ItemTypes
      /\ Tail(queue) \in Seq(ItemTypes) /\ Len(queue) \in Nat \ {0}
      /\ Len(Tail(queue)) = Len(queue) - 1
      /\ \A j \in 1..(Len(queue) - 1) : Tail(queue)[j] = queue[j + 1]
  BY <1>1, <1>2
<1>4. Serializable(definitions, queue[1])
  BY <1>1, <1>3
<1> DEFINE obu == Serialize(definitions, queue[1])
<1>5. /\ scratch' = <<obu>> /\ remaining' = Size[obu.kind] /\ queue' = Tail(queue)
      /\ UNCHANGED <<state, definitions, bytes_written, call, result, sinkVars, historyVars>>
  BY <1>3, <1>4 DEF EmitNext, LoadScratch
<1>6. obu \in Obus /\ Size[obu.kind] \in Nat \ {0}
  BY <1>3, <1>4, SerializeType, ObuSize
<1> HIDE DEF obu
<1>7. TypeOK'
  BY <1>1, <1>3, <1>5, <1>6 DEF TypeOK, sinkVars, historyVars, ItemTypes
<1>8. Accounted'
  <2>1. /\ Asked' = Asked /\ sink' = sink /\ definitions' = definitions
        /\ Len(sink) \in Nat /\ Len(scratch) = 0 /\ Len(scratch') = 1 /\ scratch' # <<>>
        /\ scratch'[1] = obu
    BY <1>1, <1>5 DEF Asked, historyVars, sinkVars, TypeOK
  <2>2. Len(Asked) = Len(sink) + 1 + Len(queue')
    BY <1>1, <1>3, <1>5, <2>1 DEF Accounted
  <2>3. Asked[Len(sink) + 1] = obu
    <3>1. Asked[Len(sink) + Len(scratch) + 1] = obu
      BY <1>1, <1>3 DEF Accounted, obu
    <3> QED  BY <2>1, <3>1
  <2>4. remaining' \in 1..Size[obu.kind] /\ torn' = Beginning(Size[obu.kind] - remaining')
    <3>1. torn' = <<>>
      BY <1>1, <1>5 DEF Accounted, sinkVars
    <3>2. Beginning(0) = <<>>
      BY BeginningProperties
    <3> QED  BY <1>5, <1>6, <3>1, <3>2
  <2>5. ASSUME NEW j \in 1..Len(queue')
        PROVE  Asked[Len(sink) + 1 + j] = Serialize(definitions, queue'[j])
    <3>1. j + 1 \in 1..Len(queue) /\ j \in 1..(Len(queue) - 1)
      BY <1>3, <1>5, <2>5
    <3>2. Asked[Len(sink) + Len(scratch) + (j + 1)] = Serialize(definitions, queue[j + 1])
      BY <1>1, <3>1 DEF Accounted
    <3>3. Len(sink) + Len(scratch) + (j + 1) = Len(sink) + 1 + j
      BY <2>1, <3>1
    <3> QED  BY <1>3, <1>5, <3>1, <3>2, <3>3
  <2> QED  BY <1>1, <1>5, <2>1, <2>2, <2>3, <2>4, <2>5 DEF Accounted
<1>9. CallsAgree'
  <2>1. \A j \in 1..Len(queue') : Serializable(definitions, queue'[j])
    BY <1>1, <1>3, <1>5
  <2> QED  BY <1>1, <1>5, <2>1 DEF CallsAgree
<1> QED  BY <1>1, <1>5, <1>7, <1>8, <1>9 DEF IInv, PoisonedAtRest, sinkVars, historyVars

\* When a push returns Ok, the sink holds exactly what was asked for.
LEMMA SucceedIInv ==
  ASSUME IInv, Succeed
  PROVE  IInv' /\ sink' = promised' /\ torn' = <<>>
<1>1. /\ call \in {"push_descriptors", "push_temporal_unit"}
      /\ scratch = <<>> /\ queue = <<>>
      /\ state \in {"Fresh", "DescriptorsWritten"} /\ ~delivered
      /\ TypeOK /\ Accounted
  BY DEF Succeed, IInv, CallsAgree
<1>2. /\ call' = "none" /\ result' = "Ok" /\ scratch' = <<>> /\ remaining' = 0
      /\ queue' = <<>> /\ promised' = Asked /\ pledge' = <<>>
      /\ state' \in {"Fresh", "DescriptorsWritten"}
      /\ UNCHANGED <<definitions, bytes_written, sinkVars>>
  BY <1>1 DEF Succeed, Return, Asked
<1>3. Asked \in Seq(Obus) /\ sink \in Seq(Obus)
  BY <1>1, AskedType DEF TypeOK
<1>4. sink = Asked
  <2>1. Len(sink) = Len(Asked) /\ \A i \in 1..Len(sink) : sink[i] = Asked[i]
    BY <1>1, <1>3 DEF Accounted
  <2> QED  BY <1>3, <2>1, SeqEqual
<1>5. Asked' = Asked
  BY <1>2, <1>3 DEF Asked
<1>6. TypeOK'
  BY <1>1, <1>2, <1>3, EmptySeq DEF TypeOK, sinkVars, Outcomes
<1>7. Accounted'
  BY <1>1, <1>2, <1>3, <1>4, <1>5 DEF Accounted, sinkVars
<1>8. sink' = promised' /\ torn' = <<>>
  BY <1>1, <1>2, <1>4 DEF Accounted, sinkVars
<1> QED  BY <1>1, <1>2, <1>3, <1>6, <1>7, <1>8
         DEF IInv, CallsAgree, PoisonedAtRest, sinkVars

\* Outside a push, a writer that is not poisoned has written what it promised.
LEMMA AtRest ==
  ASSUME IInv, call \in {"none", "finished"}, state # "Poisoned"
  PROVE  /\ sink = promised /\ torn = <<>>
         /\ Asked = promised /\ Asked \in Seq(Obus)
         /\ scratch = <<>> /\ queue = <<>> /\ pledge = <<>>
<1>1. /\ TypeOK /\ Accounted /\ scratch = <<>> /\ queue = <<>> /\ pledge = <<>>
      /\ torn = <<>>
  BY DEF IInv, CallsAgree, Accounted
<1>2. promised \in Seq(Obus) /\ sink \in Seq(Obus)
  BY <1>1 DEF TypeOK
<1>3. Asked = promised
  BY <1>1, <1>2 DEF Asked
<1>4. Len(sink) = Len(promised) /\ \A i \in 1..Len(sink) : sink[i] = promised[i]
  BY <1>1, <1>2, <1>3 DEF Accounted
<1>5. sink = promised
  BY <1>2, <1>4, SeqEqual
<1> QED  BY <1>1, <1>2, <1>3, <1>5

\* A call out of turn changes only the answer.
LEMMA OutOfTurnIInv ==
  ASSUME IInv, call = "none", NEW expected \in {"Fresh", "DescriptorsWritten"},
         OutOfTurn(expected)
  PROVE  IInv'
<1>1. /\ result' \in Outcomes
      /\ state = "Poisoned" => result' = "Poisoned"
      /\ UNCHANGED <<writerVars, call, queue, sinkVars, historyVars>>
  BY DEF OutOfTurn, Outcomes
<1>2. TypeOK'
  BY <1>1 DEF IInv, TypeOK, writerVars, sinkVars, historyVars
<1>3. state # "Poisoned" => Accounted'
  BY <1>1 DEF IInv, Accounted, Asked, writerVars, sinkVars, historyVars
<1>4. CallsAgree'
  BY <1>1 DEF IInv, CallsAgree, writerVars, historyVars
<1>5. PoisonedAtRest'
  BY <1>1 DEF IInv, PoisonedAtRest, InWireOrder, writerVars, sinkVars, historyVars
<1>6. Len(promised') <= Len(sink') /\ (delivered' => call' = "finished") /\ state' = state
  BY <1>1 DEF IInv, writerVars, sinkVars, historyVars
<1> QED  BY <1>2, <1>3, <1>4, <1>5, <1>6 DEF IInv

\* Between calls the asked-for sequence grows by what a new push pledges.
LEMMA NewPledge ==
  ASSUME IInv, call = "none", state # "Poisoned",
         NEW image \in Seq(Obus), pledge' = image, promised' = promised
  PROVE  /\ Asked' \in Seq(Obus)
         /\ Len(Asked') = Len(sink) + Len(image)
         /\ \A i \in 1..Len(sink) : Asked'[i] = sink[i]
         /\ \A j \in 1..Len(image) : Asked'[Len(sink) + j] = image[j]
<1>1. sink = promised /\ sink \in Seq(Obus)
  BY AtRest DEF IInv, TypeOK
<1>2. Asked' = sink \o image
  BY <1>1 DEF Asked
<1>3. /\ sink \o image \in Seq(Obus)
      /\ Len(sink \o image) = Len(sink) + Len(image)
      /\ \A i \in 1..(Len(sink) + Len(image)) : (sink \o image)[i] =
            IF i <= Len(sink) THEN sink[i] ELSE image[i - Len(sink)]
  BY <1>1, ConcatProperties
<1>4. Len(sink) \in Nat /\ Len(image) \in Nat
  BY <1>1
<1>5. \A j \in 1..Len(image) : (sink \o image)[Len(sink) + j] = image[j]
  <2> TAKE j \in 1..Len(image)
  <2>1. /\ Len(sink) + j \in 1..(Len(sink) + Len(image))
        /\ ~(Len(sink) + j <= Len(sink))
        /\ Len(sink) + j - Len(sink) = j
    BY <1>4
  <2> QED  BY <1>3, <2>1
<1>6. \A i \in 1..Len(sink) : (sink \o image)[i] = sink[i]
  BY <1>3, <1>4
<1> QED  BY <1>2, <1>3, <1>5, <1>6

\* push_descriptors loads the prologue, or is refused and leaves no trace.
LEMMA PushDescriptorsIInv ==
  ASSUME IInv, NEW set \in DescriptorSets, PushDescriptors(set)
  PROVE  IInv'
<1>1. call = "none" /\ TypeOK /\ ~delivered
  BY DEF PushDescriptors, IInv
<1>2. CASE OutOfTurn("Fresh")
  BY <1>1, <1>2, OutOfTurnIInv
<1>3. CASE ~OutOfTurn("Fresh")
  <2>1. state = "Fresh" /\ UNCHANGED <<state, bytes_written, sinkVars>>
    BY <1>3 DEF PushDescriptors, InTurn
  <2>2. /\ sink = promised /\ torn = <<>> /\ Asked = promised /\ Asked \in Seq(Obus)
        /\ scratch = <<>> /\ queue = <<>> /\ pledge = <<>>
    BY <1>1, <2>1, AtRest
  <2>3. CASE set.writable
    <3> DEFINE obu == PrologueObu(set)
    <3>1. /\ call' = "push_descriptors" /\ scratch' = <<obu>>
          /\ remaining' = Size[obu.kind] /\ pledge' = <<obu>>
          /\ UNCHANGED <<queue, result, promised>>
      BY <1>3, <2>3 DEF PushDescriptors, LoadScratch
    <3>2. obu \in Obus /\ Size[obu.kind] \in Nat \ {0} /\ <<obu>> \in Seq(Obus)
      BY PrologueType, ObuSize
    <3> HIDE DEF obu
    <3>3. TypeOK'
      BY <1>1, <2>1, <3>1, <3>2 DEF TypeOK, sinkVars
    <3>4. /\ Len(Asked') = Len(sink) + 1
          /\ \A i \in 1..Len(sink) : Asked'[i] = sink[i]
          /\ Asked'[Len(sink) + 1] = obu
      <4> DEFINE image == <<obu>>
      <4>1. image \in Seq(Obus) /\ Len(image) = 1 /\ image[1] = obu
        BY <3>2
      <4>2. state # "Poisoned" /\ pledge' = image /\ promised' = promised
        BY <2>1, <3>1
      <4> HIDE DEF image
      <4>3. /\ Len(Asked') = Len(sink) + Len(image)
            /\ \A i \in 1..Len(sink) : Asked'[i] = sink[i]
            /\ \A j \in 1..Len(image) : Asked'[Len(sink) + j] = image[j]
        BY <1>1, <4>1, <4>2, NewPledge
      <4> QED  BY <4>1, <4>3
    <3>5. Accounted'
      <4>1. Beginning(0) = <<>>
        BY BeginningProperties
      <4>2. /\ sink' = sink /\ torn' = <<>> /\ queue' = <<>> /\ Len(scratch') = 1
            /\ scratch'[1] = obu /\ scratch' # <<>> /\ Len(sink) \in Nat
            /\ remaining' \in 1..Size[obu.kind]
            /\ torn' = Beginning(Size[obu.kind] - remaining')
        BY <1>1, <2>1, <2>2, <3>1, <3>2, <4>1 DEF sinkVars, TypeOK
      <4> QED  BY <3>4, <4>2 DEF Accounted
    <3>6. CallsAgree'
      BY <2>1, <2>2, <3>1 DEF CallsAgree
    <3> QED  BY <1>1, <2>1, <3>1, <3>3, <3>5, <3>6
             DEF IInv, PoisonedAtRest, sinkVars
  <2>4. CASE ~set.writable
    <3>1. /\ result' = "Rejected"
          /\ UNCHANGED <<scratch, remaining, call, queue, historyVars>>
      BY <1>3, <2>4 DEF PushDescriptors
    <3>2. TypeOK'
      BY <1>1, <2>1, <3>1 DEF TypeOK, sinkVars, historyVars, Outcomes
    <3>3. Accounted'
      BY <2>1, <2>2, <3>1 DEF IInv, Accounted, Asked, sinkVars, historyVars
    <3> QED  BY <1>1, <2>1, <2>2, <3>1, <3>2, <3>3
             DEF IInv, CallsAgree, PoisonedAtRest, sinkVars, historyVars
  <2> QED  BY <2>3, <2>4
<1> QED  BY <1>2, <1>3

\* push_temporal_unit queues a preflighted unit, or leaves no trace.
LEMMA PushTemporalUnitIInv ==
  ASSUME IInv, NEW unit \in Units, PushTemporalUnit(unit)
  PROVE  IInv'
<1>1. call = "none" /\ TypeOK /\ ~delivered
  BY DEF PushTemporalUnit, IInv
<1>2. CASE OutOfTurn("DescriptorsWritten")
  BY <1>1, <1>2, OutOfTurnIInv
<1>3. CASE ~OutOfTurn("DescriptorsWritten")
  <2>1. state = "DescriptorsWritten" /\ UNCHANGED <<writerVars, sinkVars>>
    BY <1>3 DEF PushTemporalUnit, InTurn
  <2>2. /\ sink = promised /\ torn = <<>> /\ Asked = promised /\ Asked \in Seq(Obus)
        /\ scratch = <<>> /\ queue = <<>> /\ pledge = <<>>
    BY <1>1, <2>1, AtRest
  <2>3. CASE Acceptable(definitions, unit)
    <3> DEFINE image == Image(definitions, unit)
               items == Items(unit)
    <3>1. /\ call' = "push_temporal_unit" /\ queue' = items /\ pledge' = image
          /\ UNCHANGED <<result, promised>>
      BY <1>3, <2>3 DEF PushTemporalUnit
    <3>2. /\ image \in Seq(Obus) /\ Len(image) = Len(items) /\ items \in Seq(ItemTypes)
          /\ \A i \in 1..Len(items) : /\ Serializable(definitions, items[i])
                                      /\ image[i] = Serialize(definitions, items[i])
      BY <2>3, ImageOfUnit, ItemsType
    <3> HIDE DEF image, items
    <3>3. TypeOK'
      BY <1>1, <2>1, <3>1, <3>2 DEF TypeOK, writerVars, sinkVars, ItemTypes
    <3>4. /\ Len(Asked') = Len(sink) + Len(image)
          /\ \A i \in 1..Len(sink) : Asked'[i] = sink[i]
          /\ \A j \in 1..Len(image) : Asked'[Len(sink) + j] = image[j]
      BY <1>1, <2>1, <3>1, <3>2, NewPledge
    <3>5. Accounted'
      <4>1. /\ sink' = sink /\ torn' = <<>> /\ scratch' = <<>> /\ Len(scratch') = 0
            /\ definitions' = definitions /\ Len(sink) \in Nat /\ Len(items) \in Nat
        BY <1>1, <2>1, <2>2, <3>2 DEF sinkVars, writerVars, TypeOK
      <4>2. \A j \in 1..Len(items) :
              Asked'[Len(sink) + 0 + j] = Serialize(definitions, items[j])
        BY <3>2, <3>4, <4>1
      <4> QED  BY <3>1, <3>2, <3>4, <4>1, <4>2 DEF Accounted
    <3>6. CallsAgree'
      BY <2>1, <3>1, <3>2 DEF CallsAgree, writerVars
    <3> QED  BY <1>1, <2>1, <3>1, <3>3, <3>5, <3>6
             DEF IInv, PoisonedAtRest, sinkVars, writerVars
  <2>4. CASE ~Acceptable(definitions, unit)
    <3>1. result' = "Rejected" /\ UNCHANGED <<call, queue, historyVars>>
      BY <1>3, <2>4 DEF PushTemporalUnit
    <3>2. TypeOK'
      BY <1>1, <2>1, <3>1 DEF TypeOK, writerVars, sinkVars, historyVars, Outcomes
    <3>3. Accounted'
      BY <2>1, <3>1 DEF IInv, Accounted, Asked, writerVars, sinkVars, historyVars
    <3> QED  BY <1>1, <2>1, <2>2, <3>1, <3>2, <3>3
             DEF IInv, CallsAgree, PoisonedAtRest, writerVars, sinkVars, historyVars
  <2> QED  BY <2>3, <2>4
<1> QED  BY <1>2, <1>3

\* finish leaves the sink as it is and hands it back only if it is whole.
LEMMA FinishIInv ==
  ASSUME IInv, Finish
  PROVE  IInv'
<1>1. call = "none" /\ TypeOK
  BY DEF Finish, IInv
<1>2. /\ call' = "finished" /\ result' \in {"Ok", "SinkWrite", "Poisoned"}
      /\ delivered' = (result' = "Ok")
      /\ state = "Poisoned" => result' = "Poisoned"
      /\ UNCHANGED <<writerVars, queue, sink, torn, room, historyVars>>
  BY DEF Finish, Finished
<1>3. TypeOK'
  BY <1>1, <1>2 DEF TypeOK, writerVars, historyVars, Outcomes
<1>4. state # "Poisoned" => Accounted'
  BY <1>2 DEF IInv, Accounted, Asked, writerVars, historyVars
<1>5. CallsAgree'
  BY <1>1, <1>2 DEF IInv, CallsAgree, writerVars, historyVars
<1>6. PoisonedAtRest'
  BY <1>2 DEF IInv, PoisonedAtRest, InWireOrder, writerVars, historyVars
<1> QED  BY <1>1, <1>2, <1>3, <1>4, <1>5, <1>6 DEF IInv, writerVars, historyVars

\* Every step preserves IInv.
LEMMA NextIInv ==
  ASSUME IInv, [Next]_vars
  PROVE  IInv'
<1>1. CASE \E set \in DescriptorSets : PushDescriptors(set)
  BY <1>1, PushDescriptorsIInv
<1>2. CASE \E unit \in Units : PushTemporalUnit(unit)
  BY <1>2, PushTemporalUnitIInv
<1>3. CASE \E n \in 1..remaining : AcceptBytes(n)
  BY <1>3, AcceptBytesIInv
<1>4. CASE RefuseBytes \/ SinkError
  BY <1>4, SinkFailureIInv
<1>5. CASE EmitNext
  BY <1>5, EmitNextIInv
<1>6. CASE Succeed
  BY <1>6, SucceedIInv
<1>7. CASE Finish
  BY <1>7, FinishIInv
<1>8. CASE Interrupted \/ Terminated \/ UNCHANGED vars
  BY <1>8, StutterIInv DEF Interrupted, Terminated
<1> QED  BY <1>1, <1>2, <1>3, <1>4, <1>5, <1>6, <1>7, <1>8 DEF Next, Proceed

\* IInv holds throughout.
THEOREM Invariance == Spec => []IInv
BY InitIInv, NextIInv, PTL DEF Spec

----------------------------------------------------------------------------
(* Safety                                                                  *)

\* Every variable of the writer, the call and the sink keeps its type; the
\* count of written bytes stays within MaxOffset.
THEOREM TypeCorrectness == Spec => []TypeOK
<1>1. IInv => TypeOK
  BY DEF IInv
<1> QED  BY <1>1, Invariance, PTL

\* A writer that is not poisoned ends, between calls, at the end of a unit,
\* and has written what its successful pushes were asked to write.
THEOREM UnitBoundary == Spec => []AtUnitBoundary
<1>1. IInv => AtUnitBoundary
  BY AtRest DEF AtUnitBoundary
<1> QED  BY <1>1, Invariance, PTL

\* finish never hands back a sink with a torn or an incomplete unit.
THEOREM Delivery == Spec => []DeliveredWhole
<1>1. IInv => DeliveredWhole
  BY AtRest DEF DeliveredWhole, IInv, PoisonedAtRest
<1> QED  BY <1>1, Invariance, PTL

\* In every state, inside flushes and after failures, the sink holds a
\* beginning of what was asked for, in wire order and without repetition.
THEOREM WireOrder == Spec => []InWireOrder
<1>1. IInv => InWireOrder
  BY AccountedInOrder DEF IInv, PoisonedAtRest
<1> QED  BY <1>1, Invariance, PTL

\* An input never poisons the writer: the preflight refuses all of what the
\* OBU writers would refuse later.
THEOREM SinkOnly == Spec => []OnlySinkPoisons
<1>1. IInv => OnlySinkPoisons
  BY DEF OnlySinkPoisons, IInv, PoisonedAtRest
<1> QED  BY <1>1, Invariance, PTL

\* After a failure nothing reaches the sink again and nothing succeeds.
THEOREM Terminal == Spec => PoisonIsTerminal
<1> DEFINE Quiet ==
      state = "Poisoned" =>
        /\ state' = "Poisoned"
        /\ UNCHANGED <<sink, torn, bytes_written>>
        /\ ~delivered'
        /\ result' # "Ok"
<1>1. ASSUME IInv, Next PROVE Quiet
  <2> SUFFICES ASSUME state = "Poisoned"
               PROVE  /\ state' = "Poisoned"
                      /\ UNCHANGED <<sink, torn, bytes_written>>
                      /\ ~delivered'
                      /\ result' # "Ok"
    OBVIOUS
  <2>1. /\ call \in {"none", "finished"} /\ scratch = <<>> /\ ~delivered
        /\ result \in {"SinkWrite", "Overflow", "Poisoned"}
    BY <1>1 DEF IInv, PoisonedAtRest, CallsAgree
  <2>2. ASSUME NEW set \in DescriptorSets, PushDescriptors(set) PROVE Quiet
    BY <2>1, <2>2 DEF PushDescriptors, OutOfTurn, InTurn, writerVars, sinkVars
  <2>3. ASSUME NEW unit \in Units, PushTemporalUnit(unit) PROVE Quiet
    BY <2>1, <2>3 DEF PushTemporalUnit, OutOfTurn, InTurn, writerVars, sinkVars
  <2>4. ~Proceed \/ UNCHANGED vars
    BY <2>1 DEF Proceed, AcceptBytes, RefuseBytes, Interrupted, SinkError, EmitNext, Succeed
  <2>5. CASE Finish
    BY <2>1, <2>5 DEF Finish, Finished, writerVars
  <2>6. CASE UNCHANGED vars
    BY <2>1, <2>6 DEF vars, writerVars, callVars, sinkVars
  <2> QED  BY <1>1, <2>2, <2>3, <2>4, <2>5, <2>6 DEF Next, Terminated
<1>2. IInv /\ [Next]_vars => [Quiet]_vars
  BY <1>1
<1> QED  BY <1>2, Invariance, PTL DEF Spec, PoisonIsTerminal

----------------------------------------------------------------------------
(* The count of the bytes                                                  *)

Table(s, m, f) ==
  f = [n \in 0..m |-> IF n = 0 THEN 0 ELSE f[n - 1] + Size[s[n].kind]]

\* The recursion that counts the bytes of a file has a solution: extend that
\* of one OBU less.
LEMMA TableExists ==
  ASSUME NEW s, NEW m \in Nat
  PROVE  \E f : Table(s, m, f)
<1> DEFINE Bad == {k \in Nat : ~ \E f : Table(s, k, f)}
<1> SUFFICES ASSUME Bad # {} PROVE FALSE
  OBVIOUS
<1>1. PICK k \in Bad : \A l \in Bad : k <= l
  <2>1. Bad \in SUBSET Nat
    OBVIOUS
  <2> HIDE DEF Bad
  <2> QED  BY <2>1, LeastMember
<1>2. k \in Nat /\ ~ \E f : Table(s, k, f)
  BY <1>1
<1>3. CASE k = 0
  <2> DEFINE f == [n \in 0..0 |-> 0]
  <2>1. Table(s, 0, f)
    BY DEF Table
  <2> QED  BY <1>2, <1>3, <2>1
<1>4. CASE k # 0
  <2>1. k - 1 \in Nat /\ k - 1 \notin Bad
    BY <1>1, <1>2, <1>4
  <2>2. PICK f : Table(s, k - 1, f)
    BY <2>1
  <2> DEFINE g == [n \in 0..k |-> IF n = 0 THEN 0 ELSE f[n - 1] + Size[s[n].kind]]
  <2>3. \A n \in 0..(k - 1) : f[n] = IF n = 0 THEN 0 ELSE f[n - 1] + Size[s[n].kind]
    BY <2>2 DEF Table
  <2>4. \A n \in 0..(k - 1) : g[n] = f[n]
    BY <1>2, <2>3
  <2>5. \A n \in 0..k : (IF n = 0 THEN 0 ELSE g[n - 1] + Size[s[n].kind])
                          = (IF n = 0 THEN 0 ELSE f[n - 1] + Size[s[n].kind])
    <3> HIDE DEF g
    <3>1. \A n \in 0..k : n # 0 => n - 1 \in 0..(k - 1)
      BY <1>2
    <3> QED  BY <2>4, <3>1
  <2>6. g = [n \in 0..k |-> IF n = 0 THEN 0 ELSE g[n - 1] + Size[s[n].kind]]
    BY <2>5
  <2>7. Table(s, k, g)
    BY <2>6 DEF Table
  <2> QED  BY <1>2, <2>7
<1> QED  BY <1>3, <1>4

\* Two tables agree as far as their OBUs do, and hold naturals.
LEMMA TablesAgree ==
  ASSUME NEW s \in Seq(Obus), NEW t, NEW m \in 0..Len(s), NEW k \in Nat, m <= k,
         \A i \in 1..m : s[i] = t[i],
         NEW f, Table(s, m, f), NEW g, Table(t, k, g)
  PROVE  \A n \in 0..m : f[n] = g[n] /\ f[n] \in Nat
<1> DEFINE Bad == {n \in Nat : n \in 0..m /\ ~ (f[n] = g[n] /\ f[n] \in Nat)}
<1> SUFFICES ASSUME Bad # {} PROVE FALSE
  OBVIOUS
<1>1. PICK n \in Bad : \A l \in Bad : n <= l
  <2>1. Bad \in SUBSET Nat
    OBVIOUS
  <2> HIDE DEF Bad
  <2> QED  BY <2>1, LeastMember
<1>2. n \in 0..m /\ ~ (f[n] = g[n] /\ f[n] \in Nat)
  BY <1>1
<1>3. m \in Nat /\ n \in 0..k
  BY <1>2
<1>4. /\ f[n] = IF n = 0 THEN 0 ELSE f[n - 1] + Size[s[n].kind]
      /\ g[n] = IF n = 0 THEN 0 ELSE g[n - 1] + Size[t[n].kind]
  BY <1>2, <1>3 DEF Table
<1>5. CASE n = 0
  BY <1>2, <1>4, <1>5
<1>6. CASE n # 0
  <2>1. n - 1 \in 0..m /\ n \in 1..m /\ n \in 1..Len(s)
    BY <1>2, <1>3, <1>6
  <2>2. n - 1 \notin Bad
    BY <1>1, <1>2
  <2>3. f[n - 1] = g[n - 1] /\ f[n - 1] \in Nat
    BY <1>3, <2>1, <2>2
  <2>4. s[n] \in Obus /\ s[n] = t[n]
    BY <2>1
  <2>5. Size[s[n].kind] \in Nat
    BY <2>4, ObuSize
  <2> QED  BY <1>2, <1>4, <1>6, <2>3, <2>4, <2>5
<1> QED  BY <1>5, <1>6

LEMMA ByteCountTable ==
  ASSUME NEW s \in Seq(Obus)
  PROVE  \E f : Table(s, Len(s), f) /\ ByteCount(s) = f[Len(s)]
<1> DEFINE f == CHOOSE f : Table(s, Len(s), f)
<1>1. Table(s, Len(s), f)
  BY TableExists
<1>2. ByteCount(s) = f[Len(s)]
  BY DEF ByteCount, Table
<1> HIDE DEF f
<1> QED  BY <1>1, <1>2

\* A file with another OBU is longer by its size.
LEMMA ByteCountAppend ==
  ASSUME NEW s \in Seq(Obus), NEW obu \in Obus
  PROVE  /\ ByteCount(s) \in Nat
         /\ ByteCount(Append(s, obu)) = ByteCount(s) + Size[obu.kind]
<1> DEFINE t == Append(s, obu)
           m == Len(s)
<1>1. m \in Nat /\ t \in Seq(Obus) /\ Len(t) = m + 1 /\ t[m + 1] = obu
      /\ \A i \in 1..m : s[i] = t[i]
  OBVIOUS
<1>2. PICK f : Table(s, m, f) /\ ByteCount(s) = f[m]
  BY ByteCountTable
<1>3. PICK g : Table(t, m + 1, g) /\ ByteCount(t) = g[m + 1]
  BY <1>1, ByteCountTable
<1> HIDE DEF t, m
<1>4. m \in 0..Len(s)
  BY <1>1 DEF m
<1>5. f[m] = g[m] /\ f[m] \in Nat
  BY <1>1, <1>2, <1>3, <1>4, TablesAgree
<1>6. g[m + 1] = g[m] + Size[obu.kind]
  BY <1>1, <1>3 DEF Table
<1> QED  BY <1>2, <1>3, <1>5, <1>6 DEF t

LEMMA ByteCountEmpty == ByteCount(<<>>) = 0
<1>1. PICK f : Table(<<>>, 0, f) /\ ByteCount(<<>>) = f[0]
  BY ByteCountTable, EmptySeq
<1> QED  BY <1>1 DEF Table

\* A write adds as much to the counter as to the sink, and one that cannot be
\* counted leaves more in the sink than the counter holds.
LEMMA AcceptBytesExact ==
  ASSUME IInv, OffsetExact, NEW n \in 1..remaining, AcceptBytes(n)
  PROVE  OffsetExact'
<1> DEFINE size == Size[scratch[1].kind]
<1>1. /\ scratch # <<>> /\ n <= room /\ HandOver(n) /\ state # "Poisoned"
      /\ TypeOK /\ Accounted
  BY DEF AcceptBytes, IInv, TypeOK, CallsAgree, PoisonedAtRest
<1>2. PICK obu \in Obus : scratch = <<obu>>
  BY <1>1 DEF TypeOK
<1>3. /\ size \in Nat \ {0} /\ remaining \in 1..size
      /\ torn = Beginning(size - remaining)
  BY <1>1, <1>2, ObuSize DEF Accounted
<1>4. /\ n = remaining => sink' = Append(sink, obu) /\ torn' = <<>>
      /\ n # remaining => sink' = sink /\ torn' = Beginning(size - (remaining - n))
  BY <1>1, <1>2, HandOverEffect
<1>5. sink \in Seq(Obus) /\ bytes_written \in 0..MaxOffset
  BY <1>1 DEF TypeOK
<1>6. /\ ByteCount(sink) \in Nat
      /\ ByteCount(Append(sink, obu)) = ByteCount(sink) + size
  BY <1>2, <1>5, ByteCountAppend
<1> HIDE DEF size
<1>7. Len(torn) = size - remaining
  <2>1. size - remaining \in Nat
    BY <1>3
  <2> QED  BY <1>3, <2>1, BeginningProperties
<1>8. bytes_written = ByteCount(sink) + (size - remaining)
  BY <1>1, <1>7 DEF OffsetExact
<1>9. ByteCount(sink') + Len(torn') = bytes_written + n
  <2>1. CASE n = remaining
    <3>1. Len(torn') = 0
      BY <1>4, <2>1
    <3>2. ByteCount(sink') = ByteCount(sink) + size
      BY <1>4, <1>6, <2>1
    <3>3. ByteCount(sink) \in Nat /\ size \in Nat /\ remaining \in Nat
      BY <1>3, <1>6
    <3> QED  BY <1>8, <2>1, <3>1, <3>2, <3>3
  <2>2. CASE n # remaining
    <3>1. size - (remaining - n) \in Nat
      BY <1>3
    <3>2. Len(torn') = size - (remaining - n)
      BY <1>4, <2>2, <3>1, BeginningProperties
    <3>3. ByteCount(sink') = ByteCount(sink)
      BY <1>4, <2>2
    <3>4. ByteCount(sink) \in Nat /\ size \in Nat /\ remaining \in Nat /\ n \in Nat
      BY <1>3, <1>6
    <3> QED  BY <1>8, <3>2, <3>3, <3>4
  <2> QED  BY <2>1, <2>2
<1>10. CASE CountFits(n)
  BY <1>9, <1>10 DEF AcceptBytes, Counted, OffsetExact
<1>11. CASE ~CountFits(n)
  <2>1. state' = "Poisoned"
    BY <1>11 DEF AcceptBytes, Poison
  <2>2. ByteCount(sink') + Len(torn') > MaxOffset
    BY <1>5, <1>9, <1>11, OffsetAssumption DEF CountFits
  <2> QED  BY <2>1, <2>2 DEF OffsetExact
<1> QED  BY <1>10, <1>11

\* bytes_written is the length of the file at every step, until the count of a
\* write overflows (flush_scratch).
THEOREM ExactOffset == Spec => []OffsetExact
<1>1. Init => OffsetExact
  BY ByteCountEmpty DEF Init, OffsetExact
<1>2. IInv /\ OffsetExact /\ [Next]_vars => OffsetExact'
  <2> SUFFICES ASSUME IInv, OffsetExact, [Next]_vars PROVE OffsetExact'
    OBVIOUS
  <2>1. CASE \E n \in 1..remaining : AcceptBytes(n)
    BY <2>1, AcceptBytesExact
  <2>2. ASSUME UNCHANGED <<bytes_written, sink, torn>>, state = "Poisoned" => state' = "Poisoned"
        PROVE  OffsetExact'
    BY <2>2 DEF OffsetExact
  <2>3. ASSUME NEW set \in DescriptorSets, PushDescriptors(set) PROVE OffsetExact'
    BY <2>2, <2>3 DEF PushDescriptors, OutOfTurn, InTurn, writerVars, sinkVars
  <2>4. ASSUME NEW unit \in Units, PushTemporalUnit(unit) PROVE OffsetExact'
    BY <2>2, <2>4 DEF PushTemporalUnit, OutOfTurn, InTurn, writerVars, sinkVars
  <2>5. CASE RefuseBytes \/ SinkError
    BY <2>2, <2>5 DEF RefuseBytes, SinkError, Poison
  <2>6. CASE EmitNext \/ Succeed
    BY <2>2, <2>6 DEF EmitNext, Succeed, Return, IInv, PoisonedAtRest, sinkVars, Poison
  <2>7. CASE Finish
    BY <2>2, <2>7 DEF Finish, Finished, writerVars
  <2>8. CASE Interrupted \/ Terminated \/ UNCHANGED vars
    BY <2>2, <2>8 DEF Interrupted, Terminated, vars, writerVars, sinkVars
  <2> QED  BY <2>1, <2>3, <2>4, <2>5, <2>6, <2>7, <2>8 DEF Next, Proceed
<1> QED  BY <1>1, <1>2, Invariance, PTL DEF Spec

----------------------------------------------------------------------------
(* What governs the blocks in the sink                                     *)

\* The push under way is known by what it pledged.
PledgeKnown ==
  /\ call = "push_descriptors" =>
       \E set \in DescriptorSets :
         /\ set.writable
         /\ pledge = <<PrologueObu(set)>>
         /\ definitions = FromDescriptors(set)
  /\ call = "push_temporal_unit" =>
       \E unit \in Units :
         /\ Acceptable(definitions, unit)
         /\ pledge = Image(definitions, unit)

\* The registry is the one the prologue publishes, and every block that was
\* asked for is written under the definition it finds there.
GovernedObu(obu) ==
  obu.kind = "block" =>
    /\ IsGoverned(definitions, obu.block.param)
    /\ obu.under = GoverningShape(definitions, obu.block.param)

AskedGoverned ==
  /\ Asked # <<>> => Asked[1].kind = "descriptors" /\ Published(Asked[1]) = definitions
  /\ \A i \in 1..Len(Asked) : GovernedObu(Asked[i])

GInv ==
  /\ IInv
  /\ state = "Fresh" => promised = <<>>
  /\ state = "DescriptorsWritten" => promised # <<>>
  /\ PledgeKnown
  /\ AskedGoverned

\* The mirrored sort: a reader of the prologue gets the writer's registry.
LEMMA PrologueReadsBack ==
  ASSUME NEW set
  PROVE  /\ PrologueObu(set).kind = "descriptors"
         /\ Published(PrologueObu(set)) = FromDescriptors(set)
BY DEF PrologueObu, WriteDescriptors, Published, FromDescriptors

\* The image of a unit holds no prologue, and its blocks are governed.
LEMMA ImageGoverned ==
  ASSUME NEW unit \in Units, Acceptable(definitions, unit)
  PROVE  \A i \in 1..Len(Image(definitions, unit)) :
           GovernedObu(Image(definitions, unit)[i])
<1> DEFINE image == Image(definitions, unit)
           items == Items(unit)
<1>1. /\ Len(image) = Len(items) /\ items \in Seq(ItemTypes)
      /\ \A i \in 1..Len(items) : /\ Serializable(definitions, items[i])
                                  /\ image[i] = Serialize(definitions, items[i])
  BY ImageOfUnit, ItemsType
<1> HIDE DEF image, items
<1>2. ASSUME NEW i \in 1..Len(image) PROVE GovernedObu(image[i])
  <2> DEFINE item == items[i]
  <2>1. /\ item \in ItemTypes /\ Serializable(definitions, item)
        /\ image[i] = Serialize(definitions, item)
    BY <1>1
  <2> HIDE DEF item
  <2>2. CASE item.kind = "block"
    <3>1. Serialize(definitions, item) =
            [kind |-> "block", block |-> item.block,
             under |-> GoverningShape(definitions, item.block.param)]
      BY <2>2 DEF Serialize
    <3>2. IsGoverned(definitions, item.block.param)
      BY <2>1, <2>2 DEF Serializable, BlockFits
    <3> QED  BY <2>1, <3>1, <3>2 DEF GovernedObu
  <2>3. CASE item.kind # "block"
    BY <2>1, <2>3 DEF Serialize, GovernedObu
  <2> QED  BY <2>2, <2>3
<1> QED  BY <1>2 DEF image

\* Steps that leave what is asked for and the registry alone.
LEMMA SameAsked ==
  ASSUME GInv, IInv', UNCHANGED <<definitions, historyVars>>,
         \/ call' \in {"none", "finished"}
         \/ call' = call,
         state' = state \/ state' = "Poisoned"
  PROVE  GInv'
<1>1. Asked' = Asked /\ promised' = promised /\ definitions' = definitions
  BY DEF Asked, historyVars
<1>2. AskedGoverned'
  BY <1>1 DEF GInv, AskedGoverned, GovernedObu
<1>3. PledgeKnown'
  BY DEF GInv, PledgeKnown, historyVars
<1> QED  BY <1>1, <1>2, <1>3 DEF GInv

\* Every step preserves GInv.
LEMMA NextGInv ==
  ASSUME GInv, [Next]_vars
  PROVE  GInv'
<1>1. IInv /\ IInv'
  BY NextIInv DEF GInv
<1>2. ASSUME NEW set \in DescriptorSets, PushDescriptors(set) PROVE GInv'
  <2>1. call = "none"
    BY <1>2 DEF PushDescriptors
  <2>2. CASE OutOfTurn("Fresh")
    BY <1>1, <2>2, SameAsked DEF OutOfTurn, writerVars
  <2>3. CASE ~OutOfTurn("Fresh")
    <3>1. state = "Fresh" /\ state' = state /\ definitions' = FromDescriptors(set)
      BY <1>2, <2>3 DEF PushDescriptors, InTurn
    <3>2. promised = <<>> /\ pledge = <<>>
      BY <1>1, <2>1, <3>1, AtRest DEF GInv
    <3>3. CASE set.writable
      <4>1. call' = "push_descriptors" /\ promised' = <<>> /\ pledge' = <<PrologueObu(set)>>
        BY <1>2, <2>3, <3>2, <3>3 DEF PushDescriptors
      <4>2. PledgeKnown'
        BY <3>1, <3>3, <4>1 DEF PledgeKnown
      <4>3. Asked' = <<PrologueObu(set)>>
        <5>1. <<PrologueObu(set)>> \in Seq(Obus)
          BY PrologueType
        <5> QED  BY <4>1, <5>1, ConcatEmptySeq DEF Asked
      <4>4. AskedGoverned'
        <5> DEFINE obu == PrologueObu(set)
        <5>1. obu.kind = "descriptors" /\ Published(obu) = definitions'
          BY <3>1, PrologueReadsBack
        <5> HIDE DEF obu
        <5>2. Asked' = <<obu>> /\ Len(Asked') = 1 /\ Asked'[1] = obu
          BY <4>3 DEF obu
        <5> QED  BY <5>1, <5>2 DEF AskedGoverned, GovernedObu
      <4> QED  BY <1>1, <3>1, <4>1, <4>2, <4>4 DEF GInv
    <3>4. CASE ~set.writable
      <4>1. call' = "none" /\ promised' = <<>> /\ pledge' = <<>>
        BY <1>2, <2>1, <2>3, <3>2, <3>4 DEF PushDescriptors, historyVars
      <4>2. Asked' = <<>>
        BY <4>1 DEF Asked
      <4> QED  BY <1>1, <3>1, <4>1, <4>2 DEF GInv, PledgeKnown, AskedGoverned
    <3> QED  BY <3>3, <3>4
  <2> QED  BY <2>2, <2>3
<1>3. ASSUME NEW unit \in Units, PushTemporalUnit(unit) PROVE GInv'
  <2>1. call = "none"
    BY <1>3 DEF PushTemporalUnit
  <2>2. CASE OutOfTurn("DescriptorsWritten")
    BY <1>1, <2>2, SameAsked DEF OutOfTurn, writerVars
  <2>3. CASE ~OutOfTurn("DescriptorsWritten")
    <3>1. state = "DescriptorsWritten" /\ UNCHANGED writerVars
      BY <1>3, <2>3 DEF PushTemporalUnit, InTurn
    <3>2. state' = state /\ definitions' = definitions
      BY <3>1 DEF writerVars
    <3>3. CASE Acceptable(definitions, unit)
      <4> DEFINE image == Image(definitions, unit)
      <4>1. call' = "push_temporal_unit" /\ promised' = promised /\ pledge' = image
        BY <1>3, <2>3, <3>3 DEF PushTemporalUnit
      <4>2. PledgeKnown'
        BY <3>2, <3>3, <4>1 DEF PledgeKnown
      <4>3. image \in Seq(Obus) /\ \A i \in 1..Len(image) : GovernedObu(image[i])
        BY <3>3, ImageOfUnit, ImageGoverned
      <4> HIDE DEF image
      <4>4. /\ Asked = promised /\ promised # <<>> /\ sink = promised
            /\ Asked \in Seq(Obus) /\ Len(promised) \in Nat \ {0}
        BY <1>1, <2>1, <3>1, AtRest DEF GInv
      <4>5. /\ Asked' \in Seq(Obus)
            /\ Len(Asked') = Len(sink) + Len(image)
            /\ \A i \in 1..Len(sink) : Asked'[i] = sink[i]
            /\ \A j \in 1..Len(image) : Asked'[Len(sink) + j] = image[j]
        BY <1>1, <2>1, <3>1, <4>1, <4>3, NewPledge
      <4>6. Asked'[1].kind = "descriptors" /\ Published(Asked'[1]) = definitions'
        BY <3>2, <4>4, <4>5 DEF GInv, AskedGoverned
      <4>7. ASSUME NEW i \in 1..Len(Asked') PROVE GovernedObu(Asked'[i])
        <5>1. CASE i \in 1..Len(sink)
          BY <4>4, <4>5, <5>1 DEF GInv, AskedGoverned
        <5>2. CASE i > Len(sink)
          <6>1. i - Len(sink) \in 1..Len(image) /\ Len(sink) + (i - Len(sink)) = i
            BY <4>3, <4>4, <4>5, <5>2
          <6> QED  BY <4>3, <4>5, <6>1
        <5> QED  BY <4>4, <5>1, <5>2
      <4>8. AskedGoverned'
        BY <3>2, <4>6, <4>7 DEF AskedGoverned, GovernedObu
      <4> QED  BY <1>1, <3>1, <3>2, <4>1, <4>2, <4>4, <4>8 DEF GInv
    <3>4. CASE ~Acceptable(definitions, unit)
      BY <1>1, <1>3, <2>3, <3>2, <3>4, SameAsked DEF PushTemporalUnit
    <3> QED  BY <3>3, <3>4
  <2> QED  BY <2>2, <2>3
<1>4. CASE \E n \in 1..remaining : AcceptBytes(n)
  BY <1>1, <1>4, SameAsked DEF AcceptBytes, Poison, Return, callVars, historyVars
<1>5. CASE RefuseBytes \/ SinkError
  BY <1>1, <1>5, SameAsked DEF RefuseBytes, SinkError, Poison, Return, historyVars
<1>6. CASE EmitNext
  BY <1>1, <1>6, SameAsked DEF EmitNext, Poison, Return, historyVars
<1>7. CASE Succeed
  <2>1. /\ call \in {"push_descriptors", "push_temporal_unit"} /\ call' = "none"
        /\ state' = IF call = "push_descriptors" THEN "DescriptorsWritten" ELSE state
        /\ promised' = Asked /\ pledge' = <<>> /\ definitions' = definitions
    BY <1>7 DEF Succeed, Return, Asked
  <2>2. Asked \in Seq(Obus) /\ promised \in Seq(Obus) /\ pledge \in Seq(Obus)
    BY <1>1, AskedType DEF IInv, TypeOK
  <2>3. Asked' = Asked
    BY <2>1, <2>2 DEF Asked
  <2>4. state' = "DescriptorsWritten" /\ Asked # <<>>
    <3>1. CASE call = "push_descriptors"
      <4>1. pledge # <<>>
        BY <3>1 DEF GInv, PledgeKnown
      <4> QED  BY <2>1, <2>2, <3>1, <4>1, ConcatEqualIffEmpty DEF Asked
    <3>2. CASE call = "push_temporal_unit"
      <4>1. state = "DescriptorsWritten" /\ promised # <<>>
        BY <1>1, <3>2 DEF GInv, IInv, CallsAgree
      <4> QED  BY <2>1, <2>2, <3>2, <4>1, ConcatEqualIffEmpty DEF Asked
    <3> QED  BY <2>1, <3>1, <3>2
  <2>5. AskedGoverned'
    BY <2>1, <2>3 DEF GInv, AskedGoverned, GovernedObu
  <2> QED  BY <1>1, <2>1, <2>4, <2>5 DEF GInv, PledgeKnown
<1>8. CASE Finish
  BY <1>1, <1>8, SameAsked DEF Finish, Finished, writerVars
<1>9. CASE Interrupted \/ Terminated \/ UNCHANGED vars
  BY <1>1, <1>9, SameAsked
     DEF Interrupted, Terminated, vars, writerVars, callVars, historyVars
<1> QED
  BY <1>2, <1>3, <1>4, <1>5, <1>6, <1>7, <1>8, <1>9 DEF Next, Proceed

LEMMA InitGInv == Init => GInv
BY InitIInv DEF Init, GInv, PledgeKnown, AskedGoverned, Asked

LEMMA GInvGoverned ==
  ASSUME GInv
  PROVE  GovernedAsRead
<1>1. InWireOrder /\ TypeOK
  BY AccountedInOrder DEF GInv, IInv, PoisonedAtRest
<1>2. /\ sink \in Seq(Obus) /\ Asked \in Seq(Obus) /\ Len(sink) <= Len(Asked)
      /\ sink = SubSeq(Asked, 1, Len(sink))
  BY <1>1, AskedType DEF InWireOrder, Asked, TypeOK
<1>3. \A i \in 1..Len(sink) : i \in 1..Len(Asked) /\ sink[i] = Asked[i]
  <2>1. Len(sink) \in Nat /\ Len(Asked) \in Nat
    BY <1>2
  <2>2. \A i \in 1..Len(sink) : SubSeq(Asked, 1, Len(sink))[i] = Asked[i]
    BY <1>2, <2>1
  <2> QED  BY <1>2, <2>1, <2>2
<1>4. ASSUME NEW i \in DOMAIN sink, sink[i].kind = "block"
      PROVE  /\ sink[1].kind = "descriptors"
             /\ IsGoverned(ReadBack, sink[i].block.param)
             /\ sink[i].under = GoverningShape(ReadBack, sink[i].block.param)
  <2>1. i \in 1..Len(sink) /\ 1 \in 1..Len(sink) /\ Asked # <<>>
    BY <1>2
  <2>2. sink[i] = Asked[i] /\ sink[1] = Asked[1] /\ i \in 1..Len(Asked)
    BY <1>3, <2>1
  <2>3. sink[1].kind = "descriptors" /\ ReadBack = definitions
    BY <2>1, <2>2 DEF GInv, AskedGoverned, ReadBack
  <2>4. GovernedObu(sink[i])
    BY <2>2 DEF GInv, AskedGoverned
  <2> QED  BY <1>4, <2>3, <2>4 DEF GovernedObu
<1> QED  BY <1>4 DEF GovernedAsRead

\* Every Parameter Block in the sink was written under the definition that a
\* reader of the sink finds for it.
THEOREM Governed == Spec => []GovernedAsRead
BY InitGInv, GInvGoverned, NextGInv, PTL DEF Spec

----------------------------------------------------------------------------
(* SequenceWriter implements UnitLog: every step of a push, seen from      *)
(* outside, is a stutter, the opening, a whole unit, or the tear that ends *)
(* the log.                                                                *)

\* The phase of the log, by cases.
LEMMA Phases ==
  ASSUME TypeOK
  PROVE  /\ call = "finished" => LogPhase = IF delivered THEN "closed" ELSE "discarded"
         /\ call # "finished" /\ state = "Poisoned" => LogPhase = "broken"
         /\ call # "finished" /\ state = "Fresh" => LogPhase = "fresh"
         /\ call # "finished" /\ state = "DescriptorsWritten" => LogPhase = "open"
BY DEF LogPhase

\* The same after a step.
LEMMA PhasesAfter ==
  ASSUME TypeOK'
  PROVE  /\ call' = "finished" => LogPhase' = IF delivered' THEN "closed" ELSE "discarded"
         /\ call' # "finished" /\ state' = "Poisoned" => LogPhase' = "broken"
         /\ call' # "finished" /\ state' = "Fresh" => LogPhase' = "fresh"
         /\ call' # "finished" /\ state' = "DescriptorsWritten" => LogPhase' = "open"
BY DEF LogPhase

\* A beginning of a concatenation that covers its first part.
LEMMA BeginningOfConcat ==
  ASSUME NEW S, NEW s \in Seq(S), NEW t \in Seq(S), NEW k \in 0..Len(t)
  PROVE  SubSeq(s \o t, 1, Len(s) + k) = s \o SubSeq(t, 1, k)
<1> DEFINE whole == s \o t
           part  == SubSeq(t, 1, k)
<1>1. Len(s) \in Nat /\ Len(t) \in Nat /\ k \in Nat /\ k <= Len(t)
  OBVIOUS
<1>2. /\ whole \in Seq(S) /\ Len(whole) = Len(s) + Len(t)
      /\ \A i \in 1..(Len(s) + Len(t)) :
           whole[i] = IF i <= Len(s) THEN s[i] ELSE t[i - Len(s)]
  BY ConcatProperties
<1>3. /\ part \in Seq(S) /\ Len(part) = k
      /\ \A i \in 1..k : part[i] = t[i]
  BY <1>1
<1> HIDE DEF whole, part
<1>4. /\ s \o part \in Seq(S) /\ Len(s \o part) = Len(s) + k
      /\ \A i \in 1..(Len(s) + k) :
           (s \o part)[i] = IF i <= Len(s) THEN s[i] ELSE part[i - Len(s)]
  BY <1>3, ConcatProperties
<1>5. /\ SubSeq(whole, 1, Len(s) + k) \in Seq(S)
      /\ Len(SubSeq(whole, 1, Len(s) + k)) = Len(s) + k
      /\ \A i \in 1..(Len(s) + k) : SubSeq(whole, 1, Len(s) + k)[i] = whole[i]
  BY <1>1, <1>2
<1>6. ASSUME NEW i \in 1..(Len(s) + k) PROVE whole[i] = (s \o part)[i]
  <2>1. CASE i <= Len(s)
    <3>1. i \in 1..(Len(s) + Len(t))
      BY <1>1
    <3>2. whole[i] = s[i] /\ (s \o part)[i] = s[i]
      BY <1>2, <1>4, <2>1, <3>1
    <3> QED  BY <3>2
  <2>2. CASE i > Len(s)
    <3>1. i - Len(s) \in 1..k /\ ~(i <= Len(s)) /\ i \in 1..(Len(s) + Len(t))
      BY <1>1, <2>2
    <3>2. whole[i] = t[i - Len(s)] /\ (s \o part)[i] = part[i - Len(s)]
      BY <1>2, <1>4, <3>1
    <3> QED  BY <1>3, <3>1, <3>2
  <2>3. i <= Len(s) \/ i > Len(s)
    BY <1>1
  <2> QED  BY <2>1, <2>2, <2>3
<1>7. SubSeq(whole, 1, Len(s) + k) = s \o part
  <2>1. \A i \in 1..(Len(s) + k) : SubSeq(whole, 1, Len(s) + k)[i] = (s \o part)[i]
    BY <1>5, <1>6
  <2> DEFINE left == SubSeq(whole, 1, Len(s) + k)
             right == s \o part
  <2>2. /\ left \in Seq(S) /\ right \in Seq(S) /\ Len(left) = Len(right)
        /\ \A i \in 1..Len(left) : left[i] = right[i]
    BY <1>4, <1>5, <2>1
  <2> HIDE DEF left, right
  <2>3. left = right
    BY <2>2, SeqEqual
  <2> QED  BY <2>3 DEF left, right
<1> QED  BY <1>7 DEF whole, part

\* A push that the sink fails tears the log in the middle of its image.
LEMMA PushTears ==
  ASSUME GInv, GInv',
         call \in {"push_descriptors", "push_temporal_unit"},
         call' = "none", state' = "Poisoned",
         UNCHANGED <<definitions, historyVars>>
  PROVE  Log!Tear(pledge)
<1>1. /\ TypeOK /\ TypeOK' /\ InWireOrder'
      /\ promised \in Seq(Obus) /\ pledge \in Seq(Obus) /\ sink' \in Seq(Obus)
      /\ torn' \in Seq(Nat)
      /\ promised' = promised /\ pledge' = pledge
  BY DEF GInv, IInv, PoisonedAtRest, TypeOK, historyVars
<1> DEFINE k == Len(sink') - Len(promised)
           asked == promised \o pledge
<1>2. /\ Len(promised) <= Len(sink') /\ Len(sink') <= Len(asked)
      /\ sink' = SubSeq(asked, 1, Len(sink'))
      /\ torn' # <<>> =>
           /\ Len(sink') < Len(asked)
           /\ torn' = Beginning(Len(torn'))
           /\ Len(torn') < Size[asked[Len(sink') + 1].kind]
  BY <1>1 DEF InWireOrder
<1>3. /\ Len(asked) = Len(promised) + Len(pledge)
      /\ \A i \in 1..(Len(promised) + Len(pledge)) : asked[i] =
            IF i <= Len(promised) THEN promised[i] ELSE pledge[i - Len(promised)]
  BY <1>1, ConcatProperties
<1>4. Len(promised) \in Nat /\ Len(pledge) \in Nat /\ Len(sink') \in Nat
  BY <1>1
<1>5. k \in 0..Len(pledge) /\ Len(promised) + k = Len(sink')
  BY <1>2, <1>3, <1>4
<1>6. LogFile' = LogFile \o SubSeq(pledge, 1, k)
  <2>1. SubSeq(asked, 1, Len(promised) + k) = promised \o SubSeq(pledge, 1, k)
    <3> HIDE DEF k
    <3> QED  BY <1>1, <1>5, BeginningOfConcat
  <2>2. sink' = promised \o SubSeq(pledge, 1, k)
    BY <1>2, <1>5, <2>1
  <2>3. LogFile = promised /\ LogFile' = sink'
    BY DEF LogFile, Settled
  <2> QED  BY <2>2, <2>3
<1>7. LogTorn' = torn'
  BY DEF LogTorn, Settled
<1>8. ASSUME torn' # <<>>
      PROVE  /\ k < Len(pledge)
             /\ \E j \in 1..(Size[pledge[k + 1].kind] - 1) : torn' = Beginning(j)
  <2>1. k < Len(pledge)
    BY <1>2, <1>3, <1>4, <1>8
  <2>2. asked[Len(sink') + 1] = pledge[k + 1]
    <3>1. /\ Len(sink') + 1 \in 1..(Len(promised) + Len(pledge))
          /\ ~(Len(sink') + 1 <= Len(promised))
          /\ Len(sink') + 1 - Len(promised) = k + 1
      BY <1>2, <1>3, <1>4, <2>1
    <3> QED  BY <1>3, <3>1
  <2>3. pledge[k + 1] \in Obus
    BY <1>1, <1>5, <2>1
  <2>4. Size[pledge[k + 1].kind] \in Nat
    BY <2>3, ObuSize
  <2>5. Len(torn') \in 1..(Size[pledge[k + 1].kind] - 1)
    <3>1. Len(torn') \in Nat \ {0}
      BY <1>1, <1>8
    <3>2. Len(torn') < Size[pledge[k + 1].kind]
      BY <1>2, <1>8, <2>2
    <3> HIDE DEF k
    <3> QED  BY <2>4, <3>1, <3>2
  <2> QED  BY <1>2, <1>8, <2>1, <2>5
<1>9. LogPhase' = "broken"
  BY <1>1, PhasesAfter
<1>10. LogPublished' = LogPublished
  BY <1>1 DEF LogPublished
<1> HIDE DEF k
<1> QED  BY <1>5, <1>6, <1>7, <1>8, <1>9, <1>10 DEF Log!Tear, Beginning

\* A step that leaves the sink, the promises and the phase alone is a stutter.
LEMMA Stutters ==
  ASSUME LogFile' = LogFile, LogTorn' = LogTorn, LogPhase' = LogPhase,
         LogPublished' = LogPublished
  PROVE  [Log!Next]_(Log!logVars)
BY DEF Log!logVars

\* During a push the log does not see the sink.
LEMMA PushUnseen ==
  ASSUME GInv, GInv',
         call \in {"push_descriptors", "push_temporal_unit"}, call' = call,
         UNCHANGED <<definitions, historyVars>>
  PROVE  [Log!Next]_(Log!logVars)
<1>1. TypeOK /\ TypeOK' /\ state' = state /\ promised' = promised
  BY DEF GInv, IInv, CallsAgree, historyVars
<1>2. LogPhase' = LogPhase
  BY <1>1, Phases, PhasesAfter DEF GInv, IInv, CallsAgree
<1>3. LogFile' = LogFile /\ LogTorn' = LogTorn /\ LogPublished' = LogPublished
  BY <1>1 DEF LogFile, LogTorn, LogPublished, Settled
<1> QED  BY <1>2, <1>3, Stutters

\* A push that poisons the writer is the step that tears the log.
LEMMA PoisonTears ==
  ASSUME GInv, GInv',
         call \in {"push_descriptors", "push_temporal_unit"},
         call' = "none", state' = "Poisoned",
         UNCHANGED <<definitions, historyVars>>
  PROVE  Log!Next
<1>1. Log!Tear(pledge) /\ TypeOK
  BY PushTears DEF GInv, IInv
<1>2. CASE call = "push_descriptors"
  <2>1. PICK set \in DescriptorSets : set.writable /\ pledge = <<PrologueObu(set)>>
    BY <1>2 DEF GInv, PledgeKnown
  <2>2. LogPhase = "fresh"
    BY <1>1, <1>2, Phases DEF GInv, IInv, CallsAgree
  <2> DEFINE prologue == [obu |-> PrologueObu(set), registry |-> FromDescriptors(set)]
  <2>3. prologue \in LogPrologues /\ prologue.obu = PrologueObu(set)
    BY <2>1 DEF LogPrologues
  <2>4. Log!TearPrologue(prologue)
    BY <1>1, <2>1, <2>2, <2>3 DEF Log!TearPrologue
  <2> HIDE DEF prologue
  <2> QED  BY <2>3, <2>4 DEF Log!Next
<1>3. CASE call = "push_temporal_unit"
  <2>1. PICK unit \in Units : Acceptable(definitions, unit) /\ pledge = Image(definitions, unit)
    BY <1>3 DEF GInv, PledgeKnown
  <2>2. state = "DescriptorsWritten"
    BY <1>3 DEF GInv, IInv, CallsAgree
  <2>3. LogPhase = "open" /\ LogPublished = definitions
    BY <1>1, <1>3, <2>2, Phases DEF GInv, LogPublished
  <2>4. pledge \in LogImages(LogPublished)
    BY <2>1, <2>3 DEF LogImages
  <2>5. Log!TearUnit(pledge)
    BY <1>1, <2>3 DEF Log!TearUnit
  <2> QED  BY <2>4, <2>5 DEF Log!Next
<1> QED  BY <1>2, <1>3

\* A push that returns Ok is the step that adds its image.
LEMMA SucceedCommits ==
  ASSUME GInv, GInv', Succeed
  PROVE  Log!Next
<1>1. /\ call \in {"push_descriptors", "push_temporal_unit"} /\ call' = "none"
      /\ state' = IF call = "push_descriptors" THEN "DescriptorsWritten" ELSE state
      /\ promised' = promised \o pledge /\ definitions' = definitions
      /\ TypeOK /\ TypeOK'
  BY DEF Succeed, Return, GInv, IInv
<1>2. sink' = promised' /\ torn' = <<>>
  BY SucceedIInv DEF GInv
<1>3. LogFile = promised /\ LogFile' = promised \o pledge /\ LogTorn = <<>> /\ LogTorn' = <<>>
  BY <1>1, <1>2 DEF LogFile, LogTorn, Settled
<1>4. CASE call = "push_descriptors"
  <2>1. PICK set \in DescriptorSets : /\ set.writable
                                     /\ pledge = <<PrologueObu(set)>>
                                     /\ definitions = FromDescriptors(set)
    BY <1>4 DEF GInv, PledgeKnown
  <2>2. state = "Fresh" /\ promised = <<>> /\ state' = "DescriptorsWritten"
    BY <1>1, <1>4 DEF GInv, IInv, CallsAgree
  <2>3. LogPhase = "fresh" /\ LogPhase' = "open"
    BY <1>1, <1>4, <2>2, Phases, PhasesAfter
  <2>4. LogFile' = <<PrologueObu(set)>>
    <3>1. <<PrologueObu(set)>> \in Seq(Obus)
      BY PrologueType
    <3> QED  BY <1>3, <2>1, <2>2, <3>1, ConcatEmptySeq
  <2>5. LogPublished' = FromDescriptors(set)
    BY <1>1, <2>1, <2>2 DEF GInv, LogPublished
  <2> DEFINE prologue == [obu |-> PrologueObu(set), registry |-> FromDescriptors(set)]
  <2>6. /\ prologue \in LogPrologues
        /\ prologue.obu = PrologueObu(set) /\ prologue.registry = FromDescriptors(set)
    BY <2>1 DEF LogPrologues
  <2>7. Log!Open(prologue)
    BY <1>3, <2>3, <2>4, <2>5, <2>6 DEF Log!Open
  <2> HIDE DEF prologue
  <2> QED  BY <2>6, <2>7 DEF Log!Next
<1>5. CASE call = "push_temporal_unit"
  <2>1. PICK unit \in Units : Acceptable(definitions, unit) /\ pledge = Image(definitions, unit)
    BY <1>5 DEF GInv, PledgeKnown
  <2>2. state = "DescriptorsWritten" /\ state' = "DescriptorsWritten"
    BY <1>1, <1>5 DEF GInv, IInv, CallsAgree
  <2>3. LogPhase = "open" /\ LogPhase' = "open"
    BY <1>1, <1>5, <2>2, Phases, PhasesAfter
  <2>4. LogPublished = definitions /\ LogPublished' = definitions
    BY <1>1, <2>2 DEF GInv, LogPublished
  <2>5. pledge \in LogImages(LogPublished)
    BY <2>1, <2>4 DEF LogImages
  <2>6. Log!Commit(pledge)
    BY <1>3, <2>3, <2>4 DEF Log!Commit
  <2> QED  BY <2>5, <2>6 DEF Log!Next
<1> QED  BY <1>1, <1>4, <1>5

\* finish closes an unbroken log or discards it.
LEMMA FinishCloses ==
  ASSUME GInv, GInv', Finish
  PROVE  Log!Next
<1>1. /\ call = "none" /\ call' = "finished" /\ TypeOK /\ TypeOK'
      /\ state = "Poisoned" => ~delivered'
      /\ state' = state /\ sink' = sink /\ torn' = torn /\ promised' = promised
      /\ definitions' = definitions
  BY DEF Finish, Finished, GInv, IInv, writerVars, historyVars
<1>2. LogFile' = LogFile /\ LogTorn' = LogTorn /\ LogPublished' = LogPublished
  BY <1>1 DEF LogFile, LogTorn, LogPublished, Settled
<1>3. /\ LogPhase' = IF delivered' THEN "closed" ELSE "discarded"
      /\ LogPhase \in {"fresh", "open", "broken"}
      /\ state # "Poisoned" => LogPhase \in {"fresh", "open"}
  BY <1>1, Phases, PhasesAfter DEF TypeOK
<1>4. CASE delivered'
  BY <1>1, <1>2, <1>3, <1>4 DEF Log!Next, Log!Close
<1>5. CASE ~delivered'
  BY <1>2, <1>3, <1>5 DEF Log!Next, Log!Discard
<1> QED  BY <1>4, <1>5

\* Starting a push, or being refused one, does not change the log.
LEMMA StartUnseen ==
  ASSUME GInv, GInv', call = "none",
         call' \in {"none", "push_descriptors", "push_temporal_unit"},
         state' = state,
         UNCHANGED <<promised, sinkVars>>,
         promised # <<>> => definitions' = definitions
  PROVE  [Log!Next]_(Log!logVars)
<1>1. TypeOK /\ TypeOK'
  BY DEF GInv, IInv
<1>2. LogPhase' = LogPhase
  BY <1>1, Phases, PhasesAfter DEF TypeOK
<1>3. LogPublished' = LogPublished
  BY DEF LogPublished
<1>4. LogFile = sink /\ LogTorn = torn /\ sink' = sink /\ torn' = torn
  BY DEF LogFile, LogTorn, Settled, sinkVars
<1>5. LogFile' = sink /\ LogTorn' = torn
  <2>1. CASE call' = "none"
    BY <1>4, <2>1 DEF LogFile, LogTorn, Settled
  <2>2. CASE call' # "none"
    <3>1. state # "Poisoned"
      BY <2>2 DEF GInv, IInv, CallsAgree
    <3>2. sink = promised /\ torn = <<>>
      BY <3>1, AtRest DEF GInv
    <3> QED  BY <2>2, <3>2 DEF LogFile, LogTorn, Settled
  <2> QED  BY <2>1, <2>2
<1> QED  BY <1>2, <1>3, <1>4, <1>5, Stutters

\* Every step of the writer is a step of the log or none.
LEMMA StepRefines ==
  ASSUME GInv, [Next]_vars
  PROVE  [Log!Next]_(Log!logVars)
<1>1. GInv' /\ TypeOK
  BY NextGInv DEF GInv, IInv
<1>2. ASSUME NEW set \in DescriptorSets, PushDescriptors(set)
      PROVE  [Log!Next]_(Log!logVars)
  <2>1. /\ call = "none" /\ state' = state /\ UNCHANGED <<promised, sinkVars>>
        /\ call' \in {"none", "push_descriptors"}
    BY <1>2 DEF PushDescriptors, OutOfTurn, writerVars, historyVars
  <2>2. promised # <<>> => definitions' = definitions
    BY <1>2 DEF PushDescriptors, OutOfTurn, InTurn, writerVars, GInv
  <2> QED  BY <1>1, <2>1, <2>2, StartUnseen
<1>3. ASSUME NEW unit \in Units, PushTemporalUnit(unit)
      PROVE  [Log!Next]_(Log!logVars)
  <2>1. /\ call = "none" /\ state' = state /\ UNCHANGED <<promised, sinkVars>>
        /\ call' \in {"none", "push_temporal_unit"} /\ definitions' = definitions
    BY <1>3 DEF PushTemporalUnit, OutOfTurn, writerVars, historyVars
  <2> QED  BY <1>1, <2>1, StartUnseen
<1>4. ASSUME NEW n \in 1..remaining, AcceptBytes(n)
      PROVE  [Log!Next]_(Log!logVars)
  <2>1. call \in {"push_descriptors", "push_temporal_unit"}
    BY <1>4 DEF AcceptBytes, GInv, IInv, CallsAgree, TypeOK
  <2>2. CASE CountFits(n)
    BY <1>1, <1>4, <2>1, <2>2, PushUnseen DEF AcceptBytes, callVars
  <2>3. CASE ~CountFits(n)
    BY <1>1, <1>4, <2>1, <2>3, PoisonTears DEF AcceptBytes, Poison, Return
  <2> QED  BY <2>2, <2>3
<1>5. CASE RefuseBytes \/ SinkError
  <2>1. call \in {"push_descriptors", "push_temporal_unit"}
    BY <1>5 DEF RefuseBytes, SinkError, GInv, IInv, CallsAgree, TypeOK
  <2> QED  BY <1>1, <1>5, <2>1, PoisonTears DEF RefuseBytes, SinkError, Poison, Return
<1>6. CASE EmitNext
  <2>1. call = "push_temporal_unit"
    BY <1>6 DEF EmitNext
  <2>2. CASE Serializable(definitions, Head(queue))
    BY <1>1, <1>6, <2>1, <2>2, PushUnseen DEF EmitNext
  <2>3. CASE ~Serializable(definitions, Head(queue))
    BY <1>1, <1>6, <2>1, <2>3, PoisonTears DEF EmitNext, Poison, Return
  <2> QED  BY <2>2, <2>3
<1>7. CASE Succeed
  BY <1>1, <1>7, SucceedCommits
<1>8. CASE Finish
  BY <1>1, <1>8, FinishCloses
<1>9. CASE Interrupted \/ Terminated \/ UNCHANGED vars
  <2>1. UNCHANGED vars
    BY <1>9 DEF Interrupted, Terminated
  <2> QED  BY <2>1, Stutters DEF LogFile, LogTorn, LogPhase, LogPublished, Settled,
           vars, writerVars, callVars, sinkVars, historyVars
<1> QED
  BY <1>2, <1>3, <1>4, <1>5, <1>6, <1>7, <1>8, <1>9 DEF Next, Proceed

\* Seen from outside a push, the writer is an append-only log of whole units
\* that a failing sink may tear once, at its end, for good.
THEOREM Refinement == Spec => RefinesUnitLog
<1>1. Init => GInv
  BY InitIInv DEF Init, GInv, PledgeKnown, AskedGoverned, Asked
<1>2. Init => Log!Init
  <2> SUFFICES ASSUME Init PROVE Log!Init
    OBVIOUS
  <2>1. LogPhase = "fresh"
    BY <1>1, Phases DEF Init, GInv, IInv
  <2> QED  BY <2>1 DEF Init, Log!Init, LogFile, LogTorn, LogPublished, Settled
<1> QED  BY <1>1, <1>2, NextGInv, StepRefines, PTL DEF Spec, RefinesUnitLog, Log!Spec
=============================================================================
