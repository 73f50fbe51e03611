--------------------------- MODULE SequenceWriter ---------------------------
(***************************************************************************)
(* sequence::SequenceWriter over a sink that may take part of a buffer,    *)
(* refuse it, fail or be interrupted.                                      *)
(*                                                                         *)
(* The writer is single-threaded, but a call is not atomic for its sink:   *)
(* every sink.write is a step here.  Between two calls (call = "none") the *)
(* caller may do anything the API allows.                                  *)
(*                                                                         *)
(* A name with a suffix after an underscore is a faulty form of the        *)
(* definition below it; no specification uses it.                          *)
(***************************************************************************)
EXTENDS TemporalUnits

CONSTANTS
  Size,            \* the bytes an OBU of each kind takes
  SinkCapacities,  \* how many bytes a sink may have room for
  MaxOffset        \* the largest bytes_written (u64::MAX)

ObuKinds == {"descriptors", "delimiter", "block", "frame"}

ASSUME SizeAssumption == Size \in [ObuKinds -> Nat \ {0}]
ASSUME CapacityAssumption == SinkCapacities \subseteq Nat
ASSUME OffsetAssumption == MaxOffset \in Nat

VARIABLES
  \* the writer
  state,          \* State: Fresh, DescriptorsWritten or Poisoned
  definitions,    \* the ParamDefinitionRegistry, a sequence of definitions
  bytes_written,
  scratch,        \* <<obu>> while its bytes are being flushed, else <<>>
  remaining,      \* the bytes of the scratch the sink has not taken yet
  \* the call under way
  call,           \* "none", the pushing method, or "finished"
  queue,          \* items of the unit still to be serialised and flushed
  result,         \* what the last call returned
  \* the sink
  sink,           \* the whole OBUs it holds
  torn,           \* the bytes, by position, of the incomplete OBU after them
  room,           \* the bytes it can still take
  delivered,      \* finish handed it back
  \* history
  promised,       \* what the pushes that returned Ok were asked to write
  pledge          \* what the push under way was asked to write

writerVars  == <<state, definitions, bytes_written, scratch, remaining>>
callVars    == <<call, queue, result>>
sinkVars    == <<sink, torn, room, delivered>>
historyVars == <<promised, pledge>>
vars == <<writerVars, callVars, sinkVars, historyVars>>

Outcomes == {"Ok", "Rejected", "Misordered", "Poisoned", "SinkWrite", "Overflow"}

Beginning(n) == [i \in 1..n |-> i]

Init ==
  /\ state = "Fresh"
  /\ definitions = <<>>
  /\ bytes_written = 0
  /\ scratch = <<>>
  /\ remaining = 0
  /\ call = "none"
  /\ queue = <<>>
  /\ result = "Ok"
  /\ sink = <<>>
  /\ torn = <<>>
  /\ room \in SinkCapacities
  /\ delivered = FALSE
  /\ promised = <<>>
  /\ pledge = <<>>

----------------------------------------------------------------------------
(* Calls                                                                   *)

InTurn_PoisonIgnored(expected) == state \in {expected, "Poisoned"}

\* The state check every push opens with, and its error.
InTurn(expected) == state = expected

OutOfTurn(expected) ==
  /\ ~InTurn(expected)
  /\ result' = IF state = "Poisoned" THEN "Poisoned" ELSE "Misordered"
  /\ UNCHANGED <<writerVars, call, queue, sinkVars, historyVars>>

\* Serialise an OBU into the scratch buffer.
LoadScratch(obu) ==
  /\ scratch' = <<obu>>
  /\ remaining' = Size[obu.kind]

\* The registry is replaced before the descriptors are known to be writable.
PushDescriptors(set) ==
  /\ call = "none"
  /\ \/ OutOfTurn("Fresh")
     \/ /\ InTurn("Fresh")
        /\ definitions' = FromDescriptors(set)
        /\ \/ /\ set.writable
              /\ call' = "push_descriptors"
              /\ LoadScratch(PrologueObu(set))
              /\ pledge' = <<PrologueObu(set)>>
              /\ UNCHANGED <<queue, result, promised>>
           \/ /\ ~set.writable
              /\ result' = "Rejected"
              /\ UNCHANGED <<scratch, remaining, call, queue, historyVars>>
        /\ UNCHANGED <<state, bytes_written, sinkVars>>

\* The whole unit is preflighted before any of it is emitted.
PushTemporalUnit(unit) ==
  /\ call = "none"
  /\ \/ OutOfTurn("DescriptorsWritten")
     \/ /\ InTurn("DescriptorsWritten")
        /\ \/ /\ Acceptable(definitions, unit)
              /\ call' = "push_temporal_unit"
              /\ queue' = Items(unit)
              /\ pledge' = Image(definitions, unit)
              /\ UNCHANGED <<result, promised>>
           \/ /\ ~Acceptable(definitions, unit)
              /\ result' = "Rejected"
              /\ UNCHANGED <<call, queue, historyVars>>
        /\ UNCHANGED <<writerVars, sinkVars>>

\* The call ends, and with it the buffers it was working on.
Return(outcome) ==
  /\ call' = "none"
  /\ result' = outcome
  /\ scratch' = <<>>
  /\ remaining' = 0
  /\ queue' = <<>>

\* A failure that may leave part of an OBU in the sink.
Poison(outcome) ==
  /\ Return(outcome)
  /\ state' = "Poisoned"
  /\ UNCHANGED <<definitions, delivered, historyVars>>

\* The scratch is flushed: serialise the next item, again, and flush that.
EmitNext ==
  /\ call = "push_temporal_unit"
  /\ scratch = <<>>
  /\ queue # <<>>
  /\ IF Serializable(definitions, Head(queue))
       THEN /\ LoadScratch(Serialize(definitions, Head(queue)))
            /\ queue' = Tail(queue)
            /\ UNCHANGED <<state, definitions, bytes_written, call, result, sinkVars, historyVars>>
       ELSE /\ Poison("Rejected")
            /\ UNCHANGED <<bytes_written, sink, torn, room>>

Succeed_StillFresh ==
  /\ call \in {"push_descriptors", "push_temporal_unit"}
  /\ scratch = <<>>
  /\ queue = <<>>
  /\ Return("Ok")
  /\ promised' = promised \o pledge
  /\ pledge' = <<>>
  /\ UNCHANGED <<state, definitions, bytes_written, sinkVars>>

\* Everything is flushed: the push returns Ok.
Succeed ==
  /\ call \in {"push_descriptors", "push_temporal_unit"}
  /\ scratch = <<>>
  /\ queue = <<>>
  /\ Return("Ok")
  /\ state' = IF call = "push_descriptors" THEN "DescriptorsWritten" ELSE state
  /\ promised' = promised \o pledge
  /\ pledge' = <<>>
  /\ UNCHANGED <<definitions, bytes_written, sinkVars>>

----------------------------------------------------------------------------
(* flush_scratch: one action per answer sink.write can give                *)

HandOver_FromStart(n) ==
  LET size  == Size[scratch[1].kind]
      bytes == torn \o Beginning(n)
  IN  /\ room' = room - n
      /\ \/ /\ bytes = Beginning(size)
            /\ sink' = Append(sink, scratch[1])
            /\ torn' = <<>>
         \/ /\ bytes # Beginning(size)
            /\ torn' = bytes
            /\ UNCHANGED sink

\* The sink takes the next n bytes of the scratch.
HandOver(n) ==
  LET size  == Size[scratch[1].kind]
      bytes == torn \o [i \in 1..n |-> size - remaining + i]
  IN  /\ room' = room - n
      /\ \/ /\ bytes = Beginning(size)
            /\ sink' = Append(sink, scratch[1])
            /\ torn' = <<>>
         \/ /\ bytes # Beginning(size)
            /\ torn' = bytes
            /\ UNCHANGED sink

Counted_Offered(n) == bytes_written + remaining

\* The new bytes_written after a write that took n bytes, and checked_add.
Counted(n) == bytes_written + n

CountFits_Unchecked(n) == TRUE

CountFits(n) == bytes_written + n <= MaxOffset

\* Ok(n): the bytes are counted after the sink has them.
AcceptBytes(n) ==
  /\ scratch # <<>>
  /\ n \in 1..remaining
  /\ n <= room
  /\ HandOver(n)
  /\ \/ /\ CountFits(n)
        /\ bytes_written' = Counted(n)
        /\ remaining' = remaining - n
        /\ scratch' = IF remaining = n THEN <<>> ELSE scratch
        /\ UNCHANGED <<state, definitions, callVars, delivered, historyVars>>
     \/ /\ ~CountFits(n)
        /\ Poison("Overflow")
        /\ UNCHANGED bytes_written

RefuseBytes_Retried ==
  /\ scratch # <<>>
  /\ room = 0
  /\ UNCHANGED vars

\* Ok(0): the sink is full.
RefuseBytes ==
  /\ scratch # <<>>
  /\ room = 0
  /\ Poison("SinkWrite")
  /\ UNCHANGED <<bytes_written, sink, torn, room>>

\* Err(Interrupted): the same bytes are offered again.
Interrupted ==
  /\ scratch # <<>>
  /\ UNCHANGED vars

\* Any other Err.
SinkError ==
  /\ scratch # <<>>
  /\ Poison("SinkWrite")
  /\ UNCHANGED <<bytes_written, sink, torn, room>>

----------------------------------------------------------------------------
(* finish, which consumes the writer                                       *)

Finished(outcome) ==
  /\ call' = "finished"
  /\ result' = outcome
  /\ delivered' = (outcome = "Ok")
  /\ UNCHANGED <<writerVars, queue, sink, torn, room, historyVars>>

Finish ==
  /\ call = "none"
  /\ \/ /\ state = "Poisoned"
        /\ Finished("Poisoned")
     \/ /\ state # "Poisoned"
        /\ \/ Finished("Ok")
           \/ Finished("SinkWrite")   \* sink.flush fails

Terminated == call = "finished" /\ UNCHANGED vars

----------------------------------------------------------------------------

\* The steps of a push under way; the caller is only asked between calls.
Proceed ==
  \/ \E n \in 1..remaining : AcceptBytes(n)
  \/ RefuseBytes
  \/ Interrupted
  \/ SinkError
  \/ EmitNext
  \/ Succeed

Next ==
  \/ \E set \in DescriptorSets : PushDescriptors(set)
  \/ \E unit \in Units : PushTemporalUnit(unit)
  \/ Proceed
  \/ Finish
  \/ Terminated

\* A started call keeps running, and a sink that neither fails nor is
\* interrupted for ever answers in the end: it takes bytes while it has room
\* and says Ok(0) when it has none.  Nothing is asked of the caller.
Answered ==
  \/ \E n \in 1..remaining : AcceptBytes(n)
  \/ RefuseBytes
  \/ EmitNext
  \/ Succeed

Fairness == WF_vars(Answered)

Spec == Init /\ [][Next]_vars /\ Fairness

----------------------------------------------------------------------------
(* Properties                                                              *)

Obus ==
  [kind : {"descriptors"}, owners : {WriteDescriptors(set) : set \in DescriptorSets}]
    \cup {Delimiter}
    \cup [kind : {"block"}, block : Blocks, under : Shapes]
    \cup [kind : {"frame"}, frame : Frames]

\* Every variable holds a value of its type; in particular the byte counters
\* never go below zero or past their bound.
TypeOK ==
  /\ state \in {"Fresh", "DescriptorsWritten", "Poisoned"}
  /\ bytes_written \in 0..MaxOffset
  /\ scratch = <<>> \/ \E obu \in Obus : scratch = <<obu>>
  /\ remaining \in Nat
  /\ scratch = <<>> <=> remaining = 0
  /\ call \in {"none", "push_descriptors", "push_temporal_unit", "finished"}
  /\ queue \in Seq({Delimiter} \cup [kind : {"block"}, block : Blocks]
                               \cup [kind : {"frame"}, frame : Frames])
  /\ result \in Outcomes
  /\ sink \in Seq(Obus)
  /\ torn \in Seq(Nat)
  /\ room \in Nat
  /\ delivered \in BOOLEAN
  /\ promised \in Seq(Obus)
  /\ pledge \in Seq(Obus)

\* Between calls a writer that is not poisoned has in its sink exactly what
\* the successful pushes asked for, and ends at the end of an OBU: a rejected
\* or misordered push left no trace.
AtUnitBoundary ==
  call = "none" /\ state # "Poisoned" => sink = promised /\ torn = <<>>

\* A sink that finish hands back holds whole temporal units and nothing else;
\* a sink with a broken tail is never delivered.
DeliveredWhole == delivered => sink = promised /\ torn = <<>>

\* At every moment, also inside a flush and after a failure, the sink holds a
\* beginning of what was asked for: all successful pushes, then in order and
\* without repetition the first bytes of the push under way.
InWireOrder ==
  LET asked == promised \o pledge
  IN  /\ Len(promised) <= Len(sink)
      /\ Len(sink) <= Len(asked)
      /\ sink = SubSeq(asked, 1, Len(sink))
      /\ torn # <<>> =>
           /\ Len(sink) < Len(asked)
           /\ torn = Beginning(Len(torn))
           /\ Len(torn) < Size[asked[Len(sink) + 1].kind]

\* Only the sink can poison the writer: an input that cannot be written is
\* refused by the preflight, never in the middle of a unit.
OnlySinkPoisons ==
  state = "Poisoned" => result \in {"SinkWrite", "Overflow", "Poisoned"}

\* The definitions a reader of this sink has after its prologue, in the order
\* of the bytes: what SequenceReader would look a parameter_id up in.
Published(obu) ==
  ObserveAudioElements(obu.owners.elements) \o Definitions(obu.owners.presentations)

ReadBack == Published(sink[1])

\* Every Parameter Block in the sink was written under the definition a
\* reader of the same sink finds for its parameter_id, although the writer
\* builds its registry from the unsorted descriptor set.
GovernedAsRead ==
  \A i \in DOMAIN sink :
    sink[i].kind = "block" =>
      /\ sink[1].kind = "descriptors"
      /\ IsGoverned(ReadBack, sink[i].block.param)
      /\ sink[i].under = GoverningShape(ReadBack, sink[i].block.param)

ByteCount(obus) ==
  LET upto[n \in 0..Len(obus)] == IF n = 0 THEN 0 ELSE upto[n - 1] + Size[obus[n].kind]
  IN  upto[Len(obus)]

\* bytes_written, the offset errors are reported at, counts every byte the
\* sink took, after partial writes and failures too, until it overflows.
OffsetExact ==
  \/ bytes_written = ByteCount(sink) + Len(torn)
  \/ /\ state = "Poisoned"
     /\ ByteCount(sink) + Len(torn) > MaxOffset

\* Poison is terminal: nothing reaches the sink of a poisoned writer again,
\* no later call succeeds and the sink is not handed back.
PoisonIsTerminal ==
  [][state = "Poisoned" =>
       /\ state' = "Poisoned"
       /\ UNCHANGED <<sink, torn, bytes_written>>
       /\ ~delivered'
       /\ result' # "Ok"]_vars

\* Every push returns, whatever the sink answers.
PushReturns ==
  (call \in {"push_descriptors", "push_temporal_unit"}) ~> (call = "none")

\* Seen from outside a call, the writer is an append-only log of whole units:
\* during a push the log still is what it was before.
Settled == call \in {"none", "finished"}

LogFile == IF Settled THEN sink ELSE promised
LogTorn == IF Settled THEN torn ELSE <<>>

LogPhase ==
  CASE call = "finished" -> IF delivered THEN "closed" ELSE "discarded"
    [] call # "finished" /\ state = "Poisoned" -> "broken"
    [] call # "finished" /\ state = "Fresh" -> "fresh"
    [] call # "finished" /\ state = "DescriptorsWritten" -> "open"

LogPublished == IF promised = <<>> THEN <<>> ELSE definitions

LogPrologues ==
  {[obu |-> PrologueObu(set), registry |-> FromDescriptors(set)] :
     set \in {s \in DescriptorSets : s.writable}}

LogImages(registry) ==
  {Image(registry, unit) : unit \in {u \in Units : Acceptable(registry, u)}}

Log ==
  INSTANCE UnitLog WITH
    Prologues <- LogPrologues,
    Images <- LogImages,
    file <- LogFile,
    torn <- LogTorn,
    phase <- LogPhase,
    published <- LogPublished

RefinesUnitLog == Log!Spec
=============================================================================
