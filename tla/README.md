# A verification project for iamf-rs

`iamf-rs` (crate `iamf`) reads and writes IAMF v1.1 bitstreams. It is
single-threaded and synchronous and has no clock; what makes it hard is order:
a file is produced by a sequence of calls over a sink that may fail inside any
of them, the meaning of a Parameter Block depends on the descriptors before it,
and rules that span many temporal units are enforced one unit at a time. Below
that lies a format of counted, gated and optional fields in which a reader and a
writer have to agree on every bit. The modules here are translated from `src/src/`; every definition that models code
has its lines in `PROJECT.json` under `map`.

## 1. The system

| Part | State it keeps | Operations | What must hold |
|---|---|---|---|
| **Sequence writer** `sequence.rs` | `State` (Fresh, DescriptorsWritten, Poisoned), the parameter definitions, `bytes_written`, the scratch buffer, the sink | `push_descriptors`, `push_temporal_unit`, `finish`, and inside them `flush_scratch` | the file is an append-only log of whole units; a torn file is never handed back; the reported offset is exact |
| **Parameter registry** `obu/param_definition.rs` | a list of definitions in wire order | `observe_*`, `from_descriptors`, `get` | a block is written under the definition its reader will find |
| **Descriptor set** `model/mod.rs` | the owned descriptors | `write_descriptors`, by-id lookup, `validate` | wire order, first binding |
| **Encoder builder** `encoder.rs` | declarations, handles, generation | `add_*`, `build`, id allocation, manifest | ids are unique and dense, handles of one builder mean nothing to another, what is frozen means what was declared |
| **Encoding writer** `encoder.rs` | `TemporalProgress`: parameter ids of the first unit, whether the leading trim run is open, whether the end was trimmed, Opus samples trimmed | `Encoder::start`, `push_temporal_unit`, `finish` | trims form one leading run and one final trim, `pre_skip` is met exactly, parameter coverage is constant, and a failed push changes none of it |
| **Profiles** `model/profile.rs` | none | floors per presentation and per sequence, compliance findings | the profile chosen is the least that admits the sequence |
| **Sequence reader, flat writer** `sequence.rs` | cursor, registry, `finished` | `SequenceReader::next`, `parse_sequence`, `write_parsed_sequence` | first binding at every position, one error at the start of the failing OBU, faithful re-emission |
| **Parsed sequence** `sequence.rs` | OBUs in wire order | `from_parts`, `validate`, `temporal_unit_ranges` | the model of the parts is the model of the bytes; units are cut where they were |
| **OBU framing** `obu/header.rs`, `obu/mod.rs`, `obu/boundaries.rs` | none | header and size, bounded sub-readers, boundary walk | a reader never leaves `obu_size`; walk and reader agree on where OBUs begin |
| **Payloads** `obu/codec_config.rs`, `audio_element.rs`, `mix_presentation.rs`, `parameter_block.rs`, `audio_frame.rs`, `sequence_header.rs` | none | one reader and one writer each, constructors, `validate` | what is written reads back, what is read is written as it was |
| **Frame plan and packing** `obu/audio_frame.rs`, `packing.rs` | none | `plan_frames`, `trimming_for`, `pack_channels_to_substreams` | the samples that go in are those that are played |
| **Bits** `bits/` | bit position, buffered bits | bit reader and writer, uleb128 | widths and bounds |
| **Validation** `model/mod.rs`, `sequence.rs`, the `validate` of each payload | none | findings of a payload, a descriptor set, a parsed sequence | the set and the file it becomes are found alike |
| **Language tags** `model/language_tag.rs` | none | `is_well_formed_language_tag`, `validate_language_tags` | a greedy pass decides the grammar of RFC 5646 |
| **Layouts, loudness** `model/layout.rs`, `model/loudness.rs` | none | tables, conversions | values and variants correspond |
| **Errors, dump, fuzzing** `error.rs`, `dump.rs`, `fuzzing.rs` | none | diagnostics | - |

How they interact: an `Encoder` (frozen by the builder) becomes an
`EncodingWriter` by pushing its descriptors through the `SequenceWriter` it
owns. Each input unit is judged by the encoding writer's preflight, lowered to a
`TemporalUnit`, judged again by the inner writer's preflight and serialised OBU
by OBU into the sink. The inner writer looks definitions up in the registry it
built from the descriptor *set*; a reader looks them up in the registry it
builds from the descriptor *bytes*. `write_parsed_sequence` is a second writer,
which rebuilds a registry while it writes. All of them end in `write_obu` and
begin with `read_obu_header`; only `find_obu_boundaries`, on which the dump
relies, cuts a stream without either.

What is hard: a sink that takes part of a buffer, nothing, or fails (partial
failure, atomicity); state that is replaced before the call is known to succeed
(`definitions` in a rejected `push_descriptors`) or must not be
(`TemporalProgress`); two sorts that have to agree; rules that only a sequence
of calls can break; a file left behind by a failure and read later; references
resolved at a position by the reader and globally by `validate`; sizes and counts
that come from the wire; flags in one byte that gate fields in another; variants
that hold a raw value another variant stands for. `PROJECT.json`
lists each under `hazards`, at its line. There are no threads, timers or
messages, so no properties about those.

## 2. The modules

| Module | Models |
|---|---|
| `Descriptors` | descriptor sets, `sorted_by_id`, the order of `write_descriptors`, the registry: `observe_audio_element` (extension definitions are opaque), `from_descriptors` with its own sort, `get` |
| `ParameterDefinitions` | what a definition is to the writer's and to the reader's side |
| `TemporalUnits` | the OBUs of a unit in order, `validate_temporal_unit`, what the OBU writers accept, the preflight, the serialised unit |
| `UnitLog` | *abstract*: an append-only log of one prologue and whole units, which a failure breaks for good |
| `SequenceWriter` | the writer and its sink; one action per call and one per answer `sink.write` can give; implements `UnitLog` |
| `EncoderBuilder` | several builders under one generation counter: every `add_` method, and `build` with its checks, id allocation and lowering |
| `EncodingWriter` | the encoding writer over an inner `SequenceWriter` |
| `ParsedSequences` | the flat model: registry growth, parsing and writing one OBU, `write_parsed_sequence`, `from_parts`, `temporal_unit_ranges`, duplicate and reference findings (pure operators) |
| `SequenceReader` | `SequenceReader::next`, its errors and its fuse |
| `RoundTrip` | extends `SequenceWriter` and `SequenceReader`: the writer, then the reader over what its sink holds |
| `Profiles` | floors of presentations and sequences, profile selection, findings about the header, over a descriptor set that grows |
| `Wire` | the bit reader and the bit writer over bytes, uleb128, counted lists |
| `ParameterBlocks` | the definition of a parameter, blocks under it, their subblocks and data |
| `CodecConfigs` | the four decoder configurations and the raw one, the constructors, the findings of `validate` |
| `AudioElements`, `MixPresentations` | their readers and writers, with everything nested in them |
| `ObuFraming` | headers, `obu_size` and its ceiling, the frame of an OBU, a step of the boundary walk |
| `AudioFrames` | audio frames; frame plans, packing, and an application that uses both |
| `ObuStream` | one OBU of any kind and a whole stream, read, written and walked |
| `LanguageTags` | `is_well_formed_language_tag`, one part of the tag after the other |
| `Findings` | what `validate` reports of a payload, of a `DescriptorSet`, of a `ParsedSequence` |
| `TagGrammar` | tags that grow by a subtag at a time, and the grammar of RFC 5646 as positions at which its parts end; the classes of single subtags are those of `LanguageTags` |
| `WireFormat` | a stream that is written OBU by OBU, framed by another encoder, cut or damaged, and read back |
| `MC*` | instances for TLC |
| `SequenceLemmas`, `*_proofs` | lemmas and proofs |

A name such as `InTurn_PoisonIgnored` is a faulty form of the definition below it,
kept so that every checked property is known to fail for some plausible bug.

**SequenceWriter.** A call is not atomic for its sink, so the variable `call`
says which one is under way and the loop of `flush_scratch` is a step per
`sink.write`: `AcceptBytes(n)` (with the `checked_add` of the counter, which
can fail *after* the sink has the bytes), `RefuseBytes` (`Ok(0)`),
`Interrupted`, `SinkError`. `PushDescriptors`/`PushTemporalUnit` are everything
up to the first byte, including their early returns; `EmitNext` serialises the
next OBU, again, after the preflight; `Succeed` is the return of `Ok`. The sink
records whole OBUs (`sink`) and the bytes of an incomplete one by position
(`torn`), so repeated, skipped or reordered bytes show. `promised` and `pledge`
are history variables: what successful pushes were asked to write and what the
push under way is. The first flush of the prologue is a single buffer, hence a
single item.

**EncodingWriter.** `Start`, `PushUnit`, `FinishEncoding` are the API;
`PushSucceeds` and `Flush` are the inner writer's steps, so every sink failure
can strike inside a push. The progress computed by the preflight waits in
`next` and is adopted when the inner push returns `Ok`, as in the code. The
inner preflight judges the lowered unit again and may refuse it (the `writable`
flag of a frame: the `obu_size` ceiling). `Encoders` are frozen encoders, about
which only types are assumed: `build` does not even promise that their
descriptors can be written (section 6), so `Start` may be rejected.

**EncoderBuilder.** The caller may pass any handle it has been given, by any
builder and in any number (`HandlesOf`, `ReferenceLists`); `given` remembers
which builder gave it. `Add` is the append that every `add_` method ends in;
`AddAudioElement` and `AddMixPresentation` also declare what their template
implies, and the caller gets those handles from the manifest. `add_ambisonics_mono`
is `AddAudioElementWithSubstreams` with a template of its own.
`resolve_parameter_references` is `ParametersResolve` (its checks) and the
declared gain in `TemplatesFit` and `LowerPresentation` (its effect). What a
single declaration is checked for by itself (topology, findings, languages,
layouts) is the flag `sound`; what is compared across declarations is modelled.
`Admitted` stands for `select_sequence_profile`. A frozen set has the fields
that `Descriptors` uses, so the properties look ids up through
`FromDescriptors` and `Get` as the encoding writer does.

**SequenceReader.** The input is a sequence of OBUs, each readable, not framed
(`framing`) or refused by its payload parser (`payload`); the position is the
number of OBUs before the cursor. A block's bytes remember the shape they were
written for, and decoding them under another one may succeed or fail
(`MayFail`). `refused` marks an OBU that can be read but not written
(`validate_header` refuses flags that `read_obu_header` lets pass).

**RoundTrip.** The prologue is one buffer to the writer and many OBUs to the
reader, so a sink that tore inside it may hold any number of descriptors, and
the beginning of the next or not (`Contents`).

**Profiles.** The code has no state here, so the variables are only its
argument: a descriptor set that grows by one descriptor at a time, which is what
`GrowthNeverLowers` needs. An element keeps what the floors ask of it (channel
count, scene based, several layers, expanded first layer). The floors are levels
on one scale, the three profiles and above them the three errors; the maximum of
the levels is then what the code computes with `max` and `?`, except for which of
several errors is reported, and no property asks that. `Permits` states the limits
independently, as the table at the head of `profile.rs` scopes them.

Data that these modules abstract: the bytes of payloads; a parameter definition
is its id and the syntax it imposes (`shape`); trimming is an opaque header value
to `SequenceWriter` and a pair of numbers to `EncodingWriter`; sizes are a
constant per kind of OBU. Their round trips are stated on OBUs; those on bytes
are the subject of the other family:

**Wire and the payload modules.** A reader is a cursor `[bytes, bit, out, err]`:
each read appends the value to `out` and, after an error, nothing changes any
more, which is `?`. A syntax is a sequence of steps (`Bits(n)`, `Signed(n)`,
`Span(n)`, `Uleb`, `Text`, `Rest`), and `Read` takes them in order; `AndThen`
and `ReadMany` go on with what was read, and `Built` makes the model of it. A
writer is a sequence of steps too (`Put(v, n)`, `PutUleb(v)`, ..., `Refuse(c,
kind)`, an early return), and `Written` is what they leave in a `BitWriter` or the
first error. Thus a payload has two definitions, as in the code, next to each
other, in the order of its functions. A variant that stands for a raw value is
`[raw, reserved]`, so that the aliases the type allows exist in the model.

**ObuFraming, ObuStream.** `ReadFrame` is `read_obu_with_header` up to the payload:
the window of `obu_size`, the fields inside it, the payload that is left of it.
`WalkStep` is one turn of the loop of `find_obu_boundaries`. `ReadStream` iterates
`ReadObu` with the registry the reader grows; `WriteObu` is `write_parsed_sequence`
for one OBU.

**WireFormat.** `WriteOwn` writes the next OBU as this crate does, `WriteForeign`
as an encoder that pads `obu_size` to one more byte than needed; `Cut` and
`Garble` are what may happen to a file; `ReadBack` reads it, once. Which lists of
OBUs are written is the constant `Scripts`. `ReadsBackAs` says what no byte tells
apart: a descriptor's `trailing` from that of its OBU, a recon gain its flag does
not select, and an absent trim pair of a frame from a header without the field.
`Streams` are samples an application plans, packs and frames (`FramesOf`, after
the example in `tests/support/fixture.rs`); `SamplesSurvive` plays what is read.
`Sets` are whole descriptor sets; `FindingsAgree` compares what `validate` says of
the set, of the parsed sequence that was written and of the one read back.

**Findings.** A finding is the name of its field and the id or value it speaks
of. The order of findings is that of the code; what they say in words is not
modelled. `Profiles` models those about profiles.

**TagGrammar.** The code makes one pass and takes each part as soon as it can,
without going back. The grammar is stated by the existence of positions, hence
with every way to divide a tag, and `GreedyIsGrammar` compares the two.

## 3. What is checked

| Run | Instance | Shows |
|---|---|---|
| `SequenceWriter` | two descriptor sets, eight units (good, empty, shadowed block, ungoverned block, unwritable frame, repeated substream, mixed trims), sinks with room for 2, 8 or 15 bytes, `bytes_written` up to 12 | type correctness; `InWireOrder`, `OnlySinkPoisons`, `GovernedAsRead`, `OffsetExact`; `PoisonIsTerminal`; `PushReturns` (liveness); `RefinesUnitLog` (refinement) |
| `EncodingWriter` | Opus with `pre_skip` of one and a half and of two frames, another codec, one whose descriptors cannot be written; 18 well formed and 10 malformed inputs; sinks of 5 and 12 bytes, counter up to 10 | `ProgressTracksUnits`, `StartTrimsLead`, `EndTrimIsLast`, `OpusPreSkip`, `SameParameters`, `TrimsOnWire` |
| `BuilderHandles` | two builders, the first with up to four declarations, the second with one; lists of up to two handles of either | `HandlesNameOneBuilder`, `OwnHandles` |
| `BuilderLowering` | one builder, five declarations; mono, stereo and ambisonics elements, a gain in step with the frames and one that is not, presentations of one and two elements | `HandlesKeepMeaning`, `SharedAudioAgrees`, `FrozenIsCoherent` |
| `SequenceReader` | every sequence of four OBUs out of ten, and three-OBU inputs with a fault in the middle | `RewritesPrefix`, `GovernedByFirst`, `FusedAfterError`, `RangesAreUnits`, `DanglingAreUndefinedBefore` |
| `RoundTrip` | six units, sinks of 1 and 9 bytes | `ReadsBackModel`, `DeliveredRoundTrips`, `UnitsFoundAgain` |
| `WireFormat` | some 190 scripts: every kind of OBU with every variant of its payload, at the boundaries of its counts and sizes, and six descriptor sets; foreign framing; 142 streams cut at every byte and changed at every byte by 1 and by 128; six sample streams | `WrittenReadsBack`, `RewritesAsRead`, `CutIsReported`, `FramesOnWalk`, `OwnBytesOnly`, `MadeConfigsAreClean`, `SamplesSurvive`, `FindingsAgree` |
| `TagGrammar` | every tag of up to five subtags out of twelve | `GreedyIsGrammar` |
| `Profiles` | up to five descriptors, of ten elements and four presentations | `SelectsLeast`, `SelectedValidates`, `CleanHeaderPlays`, `GrowthNeverLowers` |
| `DuplicateBinding`, `FrozenWritable`, `ReservedAliases` | the same modules | a disagreement each, see section 6 |

**Bounds and why they suffice.** Sink capacities fall inside the prologue,
inside a unit and beyond the counter's bound, so every failure point and the
overflow occur; OBUs of more than one byte let a buffer be taken in pieces. The
counter's bound (`MaxOffset`) also bounds the file, at least two units past the
prologue. The descriptor set has a parameter published three times, first by the
element that is sorted *second* and behind an opaque extension, so that every
error of order or binding changes the shape of a block. `pre_skip` values need
one full and one partial, or two full, leading units. Four OBUs are enough for a
definition, a second definition, and a block before, between and behind them,
and for the smallest units that are cut wrongly; three occurrences of an id, as
`DuplicateBinding` needs, fit too. A unit without OBUs leaves no trace in a
file, so `RoundTrip` has none. A builder needs three declarations to be built
(config, element, presentation) and one of another builder to be confused; five
declarations leave room for two explicit gains, two presentations that reuse
one, or two elements on one explicit substream. The limits of `Profiles` are
scaled from 1, 2 and 28 elements of 16, 18 and 28 channels to 1, 2 and 3 of 2, 3
and 4, so that five descriptors exceed each of them, by elements or by channels,
with a redundant copy or a presentation to spare. `FrozenWritable` scales the
boundary at which an id takes two bytes from 128 to 3 and the ceiling of an OBU
to 4; an admitted set stays below the boundary with its elements and substreams,
as 28 does below 128.

The widths of `WireFormat` are scaled where TLC's integers or its time ask for
it: a uleb128 of four bytes (`MaxLeb`, 8 in the code) whose value has 20 bits
(`ValueLimit`, 32), so that both a value that is too large and a size that is
longer than it has to be remain; strings of up to 4 bytes (`MaxString`, 128), an
OBU of at most 133 bytes (`EntireObuSizeMax`, 2 MiB), which is still more than
one byte of `obu_size` can say; 64 for a counter of 64 bits (`WordLimit`); two
parameters per element (`MaxNumParameters`, 256). `Offsets` are the changes of a
byte: 1 is the lowest bit with its carry, 128 the highest, which continues a
uleb128 and begins the type of an OBU. The subtags of `TagGrammar` lie at both
ends of the lengths of each class, of letters, of digits, of neither; five
(`MaxSubtags`) hold a language with a part of each optional kind, or a run of
three of one kind between two others.

**Fairness.** Only `SequenceWriter` assumes any: weak fairness of `Answered`, a
started call keeps running and its sink is neither failing nor interrupted for
ever (it takes bytes while it has room and says `Ok(0)` when it has none). The
code is a loop, so the first half is the language; the second is what
`std::io::Write` allows a caller to expect, and without it `flush_scratch`
indeed retries `Interrupted` without bound. The caller is never assumed to do
anything. The other specifications are safety only.

Deadlock is checked in all runs but three: a finished writer (`Terminated`,
`Ended`) and a finished reader (`End`), like consumed builders (`AllConsumed`)
and a full descriptor set (`Complete`), have explicit steps that change nothing
but an answer. `WireFormat` and `ReservedAliases` end when a stream has been
read back, and `TagGrammar` at the longest tag.

## 4. What is proved

For all values of the constants, under the named assumptions only:

- types of inputs: `UnitsAssumption`, `DescriptorSetsAssumption`,
  `InputsAssumption` (for a reader also that the decoded definitions on the wire
  have known shapes, and that "ungoverned" is not something a wire says),
  `EncodersAssumption`, `BuilderAssumption`, `GainsAssumption`,
  `ElementsAssumption`, `PresentationsAssumption`; `PublishedAssumption`: the
  descriptors of a set are lists, with numbers for ids; `LoweredAssumption`: a
  lowered input is a unit the inner writer may be given;
- sizes: `SizeAssumption`, every OBU takes at least a byte;
  `CapacityAssumption`, `OffsetAssumption`, `FramingAssumption`, naturals;
  `WireAssumption`, `WordAssumption`, the widths of integers are at least one;
  `SamplesAssumption`, subtags are sequences of bytes;
- `LimitsAssumption`: the limits of the profiles are ordered, and Simple admits
  one element, as the constants of `profile.rs` do. `SelectsLeast` needs the
  second half: the combination rule is asked of Base and not of Simple, which
  would be wrong if Simple took two elements.

- `SequenceWriter_proofs`. `IInv` is inductive: everything asked for
  (`promised \o pledge`) is, in order, in the sink, in the scratch or in the
  queue, and `torn` is the part of the scratch already handed over
  (`Accounted`); where a call may be in each state (`CallsAgree`); a poisoned
  writer rests (`PoisonedAtRest`). `AtUnitBoundary` alone is not inductive, as
  it says nothing during a flush, where the damage would be done; and
  `OnlySinkPoisons` needs to know that each queued item is still the one the
  preflight accepted, under an unchanged registry. From `IInv`: `TypeOK`,
  `AtUnitBoundary`, `DeliveredWhole`, `InWireOrder`, `OnlySinkPoisons`,
  `PoisonIsTerminal`. `OffsetExact` compares the counter with a byte count that
  is recursive over the file: the table of its partial sums exists and any two
  agree, both by a least counterexample, so one more OBU adds its size; `IInv`
  says how much of the scratch is in the sink. `GInv` adds that the registry is
  the one published by the prologue that was asked for, even after a rejected `push_descriptors` replaced
  it; from it, `GovernedAsRead`.
  `Spec => RefinesUnitLog`: seen from outside a
  call, every step is a step of the log or a stutter. The steps inside a push
  stutter (the log still is what it was before); `Succeed` is `Open` or
  `Commit`; any failure is `Tear`, for which `Accounted` gives how many items
  and bytes got through.
- `EncodingWriter_proofs`. Every step of the encoding writer is one of the inner
  writer or leaves it alone (`InnerStep`), so `IInv` carries over. `EncInv` adds
  that the progress, and the one waiting in `next`, say of the units in the file
  exactly what the rules need; then `ProgressTracksUnits`, `StartTrimsLead`,
  `EndTrimIsLast`, `OpusPreSkip`, `SameParameters` follow. `Inside` carries
  `InWireOrder`, `AtUnitBoundary`, `OnlySinkPoisons` and `GovernedAsRead` over to
  the writer inside.
  `TrimsOnWire` selects from a file that also holds what is not a frame of a
  given substream: what two preflights let through has exactly one frame of each
  declared substream (`declared_substreams` lists none twice), so each unit adds
  one trim to each selection; during a push the invariant speaks of what was asked for.
- `EncoderBuilder_proofs`. A handle names one builder. `GenInv`: the generations
  of living builders are below the counter and no two are equal, and every given
  handle carries that of its builder. The property alone is not inductive: it
  says nothing of a counter that is about to hand out a generation again.
  `DeclInv`: every config and element declared has had its handle given out, and
  a built builder passed the checks of `build` as it is, with a manifest that
  was given for the rest. Hence `OwnHandles` and `SharedAudioAgrees`: the checks
  are made once, and no later call changes what they were made of.
  `HandlesKeepMeaning` and `FrozenIsCoherent` are about what `build` froze:
  ids are allocated in the order of declarations, so the sort of
  `from_descriptors` leaves the elements in place; the manifest lists every
  handle once under its index, so looking an id up leads back to the declaration
  (`MeaningKept`), and there is one Codec Config and as many ids as declarations
  (`FrozenCoherent`). Both follow from `DeclInv`, which holds of a built
  builder whatever is called afterwards.
- `RoundTrip_proofs`, the reader. `RInv`: the registry governs exactly what the OBUs
  before the cursor publish, with the shape of the first of them. The registry
  appends and `get` takes the first entry (`GetOfExtended`), and the first owner
  of a parameter stays the first (`FirstShapeStays`); hence `GovernedByFirst`.
  `InStep`: the flat writer, run over what was yielded, has the registry of the
  reader and the bytes that were read; that writing one more OBU continues
  writing those before it is again a table (`WriteAppend`). From both,
  `RewritesPrefix`. `FusedAfterError` needs no invariant.
  `Modelled`: a block was yielded decoded or ungoverned, under its own parameter,
  and everything else as it was on the wire. A decoded block had its parameter
  published before it, so the list that `validate` flattens over the whole
  sequence carries it too, and an ungoverned one is always reported: by
  `GovernedByFirst` the reported blocks are exactly those whose parameter no
  earlier OBU defines (`DanglingUndefinedBefore`). That is not what the message of
  the finding says (see 5 in section 6). `RangesCut` is about any sequence of
  OBUs: a table of the scan holds at each position the ranges closed so far, the
  start of the open one, and the substreams in it (`ScanHeld`); one more OBU
  either joins (`ScanJoins`) or cuts (`ScanCuts`), and a cut is made exactly where
  the declarative definition wants one (`BoundaryIsDue`).
- `RoundTrip_proofs`, the writer and then the reader. `RTInv` is `IInv` with two parts of its own. `Given`: what
  the writer was asked for is the serialised prologue of `set` and the images of
  `units`, item for item, and each of the units was acceptable under the
  registry of `set`. `Opened`: before `finish` nothing was read; then the file
  holds a beginning of the model, OBU by OBU, all of it if the writer was not
  poisoned, and what was yielded are the OBUs of the model before the position.
  The round trip is not inductive alone: whether the next block on the wire is
  decoded as the model says depends on the registry, and the registry of the
  reader is only known to be the writer's because the descriptors, sorted by
  `write_descriptors` on one side and by `from_descriptors` on the other, publish
  the same definitions OBU by OBU (`PrologueAdds`, `RegistryPublished`) and
  nothing behind the prologue publishes any. Hence `ReadsBackModel`,
  `DeliveredRoundTrips` and, by `RangesCut`'s lemma and the places at which the units are
  in the model (`ModelLaidOut`), `UnitsFoundAgain`: a range that begins with a
  unit ends with it, by the delimiters (`MarkedEnds`) or because no OBU of a unit
  that passed `validate_temporal_unit` starts another one and the first of the
  next one does (`UnmarkedEnds`), and two chains of ranges to one end with this
  property are the same chain (`SameChain`).
- `Profiles_proofs`. Every floor is a level, the selected profile is the greatest
  of the floor of the sequence and those of the presentations, hence no less than
  any of them: `SelectedValidates`. The code counts over a list of unique
  elements that it folds together; the properties count over the elements a
  presentation or the sequence *has*. Both are the elements at the first
  position of their id (`unique` lists every first position, once), so their
  channels are sums over the same set of positions, and these only grow with
  it. From that, `GrowthNeverLowers`: an appended element takes no id away from
  its carrier, and a copy adds no first position. Under the limits the floor is
  the least level with room for the elements (`SelectsLeast`), and a
  header without findings names a profile that is at least the floor of some
  presentation (`CleanHeaderPlays`). They hold in any state with lists of
  elements and presentations, which is the invariant.
- `WireFormat_proofs`. *Framing*, of bytes of any content and length: what `ReadHeader`
  and the fields behind `obu_size` leave is inside the window of the OBU
  (`FieldsCounted`); hence the boundary walk, which reads nothing but the header
  byte and the size, finds the OBU the reader frames (`FrameIsWalked`) and the
  reader needs no byte beyond it (`OwnBytesSuffice`, and of a whole stream
  `StreamFallsApart`). `StreamIsWalked` lifts the former to the specification
  under `[](stream \in Seq(Byte))`: that a writer leaves bytes is an induction
  over the steps of its syntax and stays with TLC.

  *Written and read back.* A uleb128, padded or not (`UlebReadsBack`), and a frame
  with any header, trims, extension and padding (`FrameReadsBack`) are found
  where they were written, by a chain of reads of which each starts where the one
  before ended. `PayloadsDecide`: an OBU reads back by itself if its payload does
  inside the window that `obu_size` opens; then header, kind, size, trailing
  bytes and registry are settled, for every kind. `AsWritten` is the invariant of the
  stream: its OBUs are at their ends, each in its own bytes, and the registry is
  the fold of what they publish. From it, `StreamReadsBack` and
  `CutStreamIsReported`, under the condition `[]EachReadsAlone`, that the next OBU would
  read back by itself: a read must not depend on the position or on what follows
  (`ReadsAlone` quantifies over both), and a reader in front of a part of an OBU
  must run out of input, not misread. `PlainReadsAlone` discharges the condition for
  Audio Frames, sequence headers, Temporal Delimiters, reserved OBUs and
  blocks without a definition. `PlainStreamsReadBack` is then about every stream all of
  whose OBUs are of these kinds: its invariant says nothing of the others, and
  nothing is assumed of what else the specification may write. `OthersDecide`
  leaves the condition on Codec Configs, Audio Elements, Mix Presentations and
  governed blocks: their payloads are folds and bit fields over nested lists, and
  that those read back is what TLC checks, variant by variant. That `PlainFramed`
  is no empty hypothesis was evaluated: every OBU of these kinds in the
  `WireFormat` run satisfies it. These theorems assume `CrateLimits`: a uleb128
  has at least five groups and values lie below 2^35. The crate has eight groups
  and 2^32. TLC's integers have 32 bits, so its instance takes four groups and a
  smaller limit, and reaches the ceiling.

  *Frames and packing.* `PlanHoldsTheStream`: for every length and
  frame size the frames hold the stream, and what is trimmed at the end is less
  than a frame. What packing puts into a frame (`PackingKeepsSamples`): for
  every list of channels, sample width and input, each channel of a substream has
  the bytes of its own channel; the places are computed by `FlattenEven`, and the
  rest is the uniqueness of a quotient and a remainder.

  *What was recorded is played* (`PlannedSamplesSurvive`). The frames of a plan are
  plain OBUs, so they read back; those of one substream are a column of the even
  list of units (`RowOfPlace`); the counts of streams and coupled pairs of each of
  the four layouts that have a plan are what packing and unpacking need
  (`PlanFits`); a unit, trimmed, plays the beginning of the samples cut for it
  (`UnitIsPlayed`), and these joined are the stream (`FramesJoin`, from
  `PlanHoldsTheStream`). The hypothesis `StreamsTyped` says of every stream an
  application records that it is bytes in whole samples, that `plan_frames` takes
  it, and that no frame is larger than its writer frames; it was evaluated for the
  streams of the run.

- `Findings_proofs`, which extends `WireFormat_proofs`. *Language tags.*
  `PassNeverGoesBack`: what the one pass of the code accepts
  is the grammar, which may try every way to divide a tag. The folds of the pass
  are tables of positions; where two rules could take the same part (an extlang
  or a variant, a script or a variant, `x` or another singleton), the classes of
  parts are disjoint or the greedy choice loses nothing, because what follows
  accepts everything the part could have been skipped for.

  *Constructors.* Whatever those of `CodecConfig` are asked for, `validate` finds
  nothing in what they return but `Unchecked` (`ConstructorsAreClean`,
  `OpusRollIsLeast`); and, as nothing of such a config is lost on the wire, not
  after a file was written and read either (`MadeConfigsReadClean`, under the
  condition of `OthersDecide`).

  *Findings.* `FileHasFindings` is about any descriptor set, of any size and with
  any id in it as often as one likes: the OBUs that `write_descriptors` lays out
  have the findings of the set, each as often. The writer sorts configs and
  elements, which permutes their findings; the sort is stable
  (`SortIsStable`: the rank of a place among the ids is a bijection of the
  places), so the first carrier of an id stays the first and references bind alike;
  the pairs of equal ids are as many in any order; and the registry that the
  sequence grows OBU by OBU is the one `from_descriptors` builds.
  `FindingsSurvive` is about any written sequence: its findings are those of the
  sequence read back, in order. `ReadsBackAs` changes trailing bytes, gains that no
  flag selects and absent trim pairs, and no finding looks at these. Both together
  are `FileFindingsAgree`, again under the condition of `OthersDecide`. The hypotheses
  `ScriptsShaped` (an OBU has the fields of its kind) and `SetsListed` (a set
  consists of lists, ids are numbers) were evaluated for the scripts and sets of
  the run.

- `SequenceLemmas` has what these share: what `FlattenSeq` makes of a
  list of lists, of a concatenation, of a mapped list, and where each part is in
  it (`FlattenPlaces`); which lists have the same entries as often; that a
  stable sort by numbers is one; least members and induction on naturals (the library's
  take an operator as a parameter, so induction is stated on a set).

Every fold or recursive function over a sequence enters these proofs as a table:
that one exists, that any two agree, and that one more entry continues it.

Where a proof did not go through, the model was at fault three times: `CASE`s with
overlapping arms, whose value TLC takes from the first and the logic leaves open
(in the boundary of units, the steps of a bit reader and of a bit writer), a
`SelectsLeast` that was claimed for limits under which it is false, and a `CASE`
whose last arm took in what followed it, so that a wrong `audio_roll_distance` was
a finding of an unknown codec only.

**Only model-checked.** `PushReturns` is liveness. In `WireFormat`,
`RewritesAsRead` is about what is read of every payload, from bytes nobody wrote,
and is model-checked only. `WrittenReadsBack`, `CutIsReported`, `MadeConfigsAreClean`
and `FindingsAgree` are proved for every stream whose Codec Configs, Audio Elements, Mix
Presentations and governed blocks read back by themselves, the first two of
streams without these as they stand. That those four kinds read back is
model-checked: they are read and written by folds over their syntax, with fields
on powers of two of a variable exponent, of which the provers know nothing (they
evaluate `2 ^ 3`; that `2 ^ n` is a natural number they cannot show). Of the
properties of all other runs that are meant to hold, each is proved.

`EncTypeOK`, `AtUnitBoundary` and `DeliveredWhole` are the other way round:
proved, and not a property of a run. The latter two follow from
`RefinesUnitLog`, which the run checks, for the states between calls.

## 5. What is not modelled

`PROJECT.json` has every part with its status.

- `dump.rs` and `fuzzing.rs` are diagnostics and entry points of other programs;
  `error.rs` is types, whose kinds appear as the errors of `Wire`.
- Where an error or a finding is located in a file, and its wording. The number
  by which a duplicate is named in a message is modelled in `ParsedSequences`
  only, where `DuplicateBinding` needs it.
- `model/layout.rs`: the tables of channel labels and the conversions from the
  layouts of other formats; the channel counts and reserved values are modelled.
- `model/loudness.rs`: the conversion of a floating-point level to Q7.8. On the
  wire it is a signed integer of 16 bits.
- `bounded_vec`: how much memory a count from the wire reserves. The counts
  themselves, and running out of input before them, are modelled.

Left out of modelled parts: a raw decoder configuration under a known codec id,
whose bytes and trailing together are long enough to be a typed one, is read as
that (no script has one); an OBU whose payload is kept as bytes has no
`trailing` of its own; a stream never registers a definition of a reserved
parameter type, as only a presentation or an element read from it could.

## 6. Findings

With a run:

1. `DuplicateBinding`. From the third publication of an id on,
   `push_later_duplicate` (`sequence.rs:494`) reports that lookup binds to the
   second, "the first in wire order"; it binds to the first. The loop in
   `DescriptorSet::validate` (`model/mod.rs:152`) has the same shape.
2. `FrozenWritable`. `build` tries the descriptor writers on the templates and
   replaces the ids afterwards, which the comment at `encoder.rs:1349-1350`
   takes to be harmless. An allocated id may be longer than the template's (the
   129th parameter or presentation), so a Mix Presentation that lies exactly at
   the `obu_size` ceiling is accepted by `build` and refused by `Encoder::start`.
   Nothing is written, and an OBU of 2 MiB is a corner case indeed.
3. `ReservedAliases`. The crate's `Reserved(raw)` variants "can alias and are
   refused on write" (`error.rs:226`). The writers of these take any value, so
   `LoudspeakerLayout::Reserved(0)`, for one, is written (`audio_element.rs:802`)
   and read back as `Mono`. The expanded layouts, the sound systems, the
   headphones rendering modes and the LPCM sample formats share this; of
   `LoudspeakerLayout::Reserved(15)` the reader takes the next byte for an expanded
   layout, which `layout.rs:67-69` says the type rules out.

Noticed, without a run:

4. The documentation of `EncodingWriter::push_temporal_unit` says that a failed
   push advances neither the sink nor the state (`encoder.rs:266-267`). A push
   that fails because the sink does leaves part of its unit there. (The state
   indeed does not advance, and the inner writer's documentation says the truth.)
5. A block before its definition is read as an `UngovernedParameterBlock` and
   reported as having a `parameter_id` "which no definition in this sequence
   carries" (`sequence.rs:368`), although one does. `DanglingAreUndefinedBefore`
   states what is reported: the blocks whose parameter no *earlier* OBU defines.
6. `IdManifest::sequence_profile` is documented as the minimum required by the
   most demanding Mix Presentation (`encoder.rs:118`). It is the profile of the
   sequence, which counts every element, "referenced or not"
   (`encoder.rs:1015-1016`): with two elements and one presentation that plays
   one of them it is Base, while the presentation only needs Simple. The header
   is right, the documentation of the accessor is not.

## 7. Plan

Done: the writer, its log, the encoding writer and their proofs; the registry;
the reader, the flat writer and the round trip; the builder; the profiles; every
OBU and payload on bytes, with the findings, the framing proofs and the plan of
frames; the grammar of language tags. Next, in this order:

1. A builder, its encoder and the file composed: handles of the manifest used
   in `push_temporal_unit`, and `Profiles` in the place of `Admitted`.
2. Proofs about `WireFormat`: the payloads of Codec Configs, Audio Elements, Mix
   Presentations and governed blocks written and read back, the condition that
   `OthersDecide` leaves.
3. The tables of `model/layout.rs`.
