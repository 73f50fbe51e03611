--------------------------- MODULE ParameterBlocks --------------------------
(***************************************************************************)
(* Parameter definitions and Parameter Blocks on the wire                  *)
(* (param_definition.rs, parameter_block.rs).                              *)
(*                                                                         *)
(* The bytes of a block say neither whether it carries durations nor what  *)
(* its subblocks look like: the definition registered under its            *)
(* parameter_id decides both.                                              *)
(*   definition  [parameter_id, parameter_rate, reserved, duration_fields] *)
(*               with duration_fields <<>> in mode 1, else one record      *)
(*               [duration, constant, subblocks]                           *)
(*   context     [kind, present, value]: present are the layer gates of a  *)
(*               Recon Gain, value the type of a Reserved context          *)
(*   registry    a sequence of [definition, context]                       *)
(*   block       [parameter_id, duration_fields, subblocks]                *)
(*   subblock    [duration, data], data [kind, fields]                     *)
(* An Option is the empty sequence or a sequence of one.                   *)
(***************************************************************************)
EXTENDS Wire

None == <<>>
Some(v) == <<v>>
When(condition, v) == IF condition THEN Some(v) ELSE None

\* A field whose undefined values are kept as Reserved(raw).
Enum(Known, raw) == [raw |-> raw, reserved |-> raw \notin Known]

\* A Reserved the reader would give another name.
Aliases(Known, enum) == enum.reserved /\ enum.raw \in Known

----------------------------------------------------------------------------
(* Parameter definitions                                                   *)

MixGainContext == [kind |-> "mix_gain", present |-> <<>>, value |-> 0]
DemixingContext == [kind |-> "demixing", present |-> <<>>, value |-> 1]
ReconGainContext(present) == [kind |-> "recon_gain", present |-> present, value |-> 2]
ReservedContext(value) == [kind |-> "reserved", present |-> <<>>, value |-> value]

\* param_definition_mode is derived: no duration fields.
Mode1(definition) == definition.duration_fields = None

\* The list of subblock durations a constant of 0 announces.
ReadDefinedSubblocks(r) ==
  IF LastRead(r) # 0 THEN Yield(r, <<>>)
  ELSE ReadMany(ReadBoundedCount(r), LAMBDA c : Read(c, <<Uleb>>))

ReadDurationFields(r) ==
  Built(r, AndThen(Read(Fresh(r), <<Uleb, Uleb>>), ReadDefinedSubblocks), LAMBDA h :
        Some([duration |-> h[1], constant |-> h[2], subblocks |-> h[3]]))

ReadParamDefinition(r) ==
  Built(r, AndThen(Read(Fresh(r), <<Uleb, Uleb, Bits(1), Bits(7)>>), LAMBDA c :
             IF c.out[3] = 1 THEN Yield(c, None) ELSE ReadDurationFields(c)),
        LAMBDA h : [parameter_id |-> h[1], parameter_rate |-> h[2],
                    reserved |-> h[4], duration_fields |-> h[5]])

PutParamDefinition(d) ==
  LET PutDurations(f) ==
        PutUleb(f.duration) \o PutUleb(f.constant)
        \o (IF f.constant # 0 THEN <<>>
            ELSE PutUleb(Len(f.subblocks)) \o PutEach(f.subblocks, PutUleb))
      \* A list beside a constant would read back without the list.
      Mismatch(f) == f.constant # 0 /\ f.subblocks # <<>>
  IN  Refuse(\E i \in DOMAIN d.duration_fields : Mismatch(d.duration_fields[i]),
             "GatedFieldMismatch")
      \o PutUleb(d.parameter_id) \o PutUleb(d.parameter_rate)
      \o Put(IF Mode1(d) THEN 1 ELSE 0, 1) \o Put(d.reserved, 7)
      \o PutEach(d.duration_fields, PutDurations)

\* The first definition wins a duplicate id; 0 when there is none.
GetDefinition(registry, id) ==
  SelectInSeq(registry, LAMBDA entry : entry.definition.parameter_id = id)

----------------------------------------------------------------------------
(* Subblocks                                                               *)

\* The last subblock may be shorter than the constant.
SubblocksImpliedBy(duration, constant) ==
  (duration \div constant) + (IF duration % constant = 0 THEN 0 ELSE 1)

SingleSubblock(context) == context.kind \in {"demixing", "recon_gain"}

AnimationType == <<"step", "linear", "bezier">>

AnimationPoints == [step   |-> <<Signed(16)>>,
                    linear |-> <<Signed(16), Signed(16)>>,
                    bezier |-> <<Signed(16), Signed(16), Signed(16), Bits(8)>>]

ReadAnimation(r) ==
  IF LastRead(r) >= Len(AnimationType) THEN Failed(r, "UnsupportedParameterData")
  ELSE Read(r, AnimationPoints[AnimationType[LastRead(r) + 1]])

ReadMixGain(r) ==
  Built(r, AndThen(Read(Fresh(r), <<Uleb>>), ReadAnimation), LAMBDA h :
        [kind |-> AnimationType[h[1] + 1], fields |-> Tail(h)])

\* The twelve gains a flag can select, lowest bit first.
Gains == 1 .. 12
Selects(flag, i) == (flag \div 2 ^ (i - 1)) % 2 = 1
SelectedGains(flag) == {i \in Gains : Selects(flag, i)}

\* One byte per selected gain; the others read as zero.
ReadReconGainElement(r) ==
  LET Rank(flag, i) == Cardinality({j \in SelectedGains(flag) : j <= i})
      Gain(h, i) == IF Selects(h[1], i) THEN h[1 + Rank(h[1], i)] ELSE 0
  IN  Built(r, AndThen(Read(Fresh(r), <<Uleb>>), LAMBDA c :
                 Read(c, [k \in 1 .. Cardinality(SelectedGains(LastRead(c))) |-> Bits(8)])),
            LAMBDA h : Some([flag |-> h[1], gains |-> [i \in Gains |-> Gain(h, i)]]))

ReadReconGain(r, present) ==
  LET layers[i \in 0 .. Len(present)] ==
        IF i = 0 THEN Fresh(r)
        ELSE IF present[i] THEN ReadReconGainElement(layers[i - 1])
        ELSE Yield(layers[i - 1], None)
  IN  Built(r, layers[Len(present)], LAMBDA h : [kind |-> "recon_gain", fields |-> h])

ReadParameterData(r, context) ==
  CASE context.kind = "mix_gain"   -> ReadMixGain(r)
    [] context.kind = "demixing"   ->
         ReadAs(r, <<Bits(3), Bits(5)>>, LAMBDA h : [kind |-> "demixing", fields |-> h])
    [] context.kind = "recon_gain" -> ReadReconGain(r, context.present)
    [] context.kind = "reserved" /\ context.value <= 2 -> Failed(r, "UnsupportedParameterData")
    [] OTHER ->
         Built(r, ReadSized(Fresh(r)), LAMBDA h : [kind |-> "raw", fields |-> h[1]])

PutParameterData(data, context) ==
  LET PutMixGain ==
        PutUleb(CHOOSE i \in 0 .. 2 : AnimationType[i + 1] = data.kind)
        \o FlattenSeq([i \in 1 .. Len(data.fields) |->
             IF i = 4 THEN Put(data.fields[i], 8) ELSE PutSigned(data.fields[i], 16)])
      PutLayer(e) ==
        PutUleb(e.flag)
        \o FlattenSeq([i \in 1 .. 12 |->
             IF Selects(e.flag, i) THEN Put(e.gains[i], 8) ELSE <<>>])
      PutRecon ==
        FlattenSeq([i \in 1 .. Min({Len(data.fields), Len(context.present)}) |->
          IF ~ context.present[i] THEN <<>>
          ELSE Refuse(data.fields[i] = None, "UnsupportedParameterData")
               \o PutEach(data.fields[i], PutLayer)])
  IN  CASE data.kind \in {"step", "linear", "bezier"} -> PutMixGain
        [] data.kind = "demixing"   -> Put(data.fields[1], 3) \o Put(data.fields[2], 5)
        [] data.kind = "recon_gain" ->
             Refuse(context.kind # "recon_gain", "UnsupportedParameterData") \o PutRecon
        [] data.kind = "raw"        -> PutUleb(Len(data.fields)) \o PutSpan(data.fields)

----------------------------------------------------------------------------
(* Blocks                                                                  *)

\* How many subblocks a definition in mode 0 gives each of its blocks.
DefinedCount(definition) ==
  LET fields == definition.duration_fields[1]
  IN  IF fields.constant = 0 THEN Len(fields.subblocks)
      ELSE SubblocksImpliedBy(fields.duration, fields.constant)

\* The block's own durations and the count that governs its subblocks: from
\* the block under mode 1, from the definition under mode 0.
ReadBlockDurations(r, definition) ==
  LET Own(h) == Some([duration |-> h[1], constant |-> h[2]])
  IN  IF ~ Mode1(definition) THEN [r EXCEPT !.out = @ \o <<None, DefinedCount(definition)>>]
      ELSE AndThen(AndThen(Read(Fresh(r), <<Uleb, Uleb>>), LAMBDA c :
                     IF LastRead(c) = 0 THEN Read(c, <<Uleb>>)
                     ELSE Yield(c, SubblocksImpliedBy(c.out[1], c.out[2]))),
                   LAMBDA c : [c EXCEPT !.out = r.out \o <<Own(@), @[3]>>])

DurationSum(subblocks) ==
  FoldLeft(LAMBDA sum, s : sum + (IF s.duration = None THEN 0 ELSE s.duration[1]), 0, subblocks)

ReadSubblock(r, context, timed) ==
  Built(r, ReadParameterData(IF timed THEN ReadAs(Fresh(r), <<Uleb>>, LAMBDA h : Some(h[1]))
                             ELSE Yield(Fresh(r), None),
                             context),
        LAMBDA h : [duration |-> h[1], data |-> h[2]])

\* The subblocks in the place of their count: for Recon Gain exactly one,
\* because a subblock without a present layer takes no byte.
ReadSubblocks(r, context, timed) ==
  IF context.kind = "recon_gain"
    THEN Built([r EXCEPT !.out = Front(@)], ReadSubblock(Fresh(r), context, timed), LAMBDA h : h)
    ELSE ReadMany(r, LAMBDA c : ReadSubblock(c, context, timed))

Timed(fields) == fields # None /\ fields[1].constant = 0

\* The subblocks a cursor behind the durations has ahead of it.
ReadBlockBody(r, context) ==
  LET fields == r.out[2]
      count  == LastRead(r)
  IN  IF SingleSubblock(context) /\ count # 1 THEN Failed(r, "SubblockCountNotOne")
      ELSE IF context.kind # "recon_gain" /\ count > BytesRemaining(r)
        THEN Failed(r, "UnexpectedEndOfInput")
      ELSE AndThen(ReadSubblocks(r, context, Timed(fields)), LAMBDA c :
             FailIf(c, Timed(fields) /\ DurationSum(LastRead(c)) # fields[1].duration,
                    "SubblockDurationMismatch"))

ReadGoverned(r, registry, found) ==
  IF found = 0 THEN Failed(r, "NoGoverningParamDefinition")
  ELSE AndThen(ReadBlockDurations(r, registry[found].definition), LAMBDA c :
         ReadBlockBody(c, registry[found].context))

ReadParameterBlock(r, registry) ==
  Built(r, AndThen(Read(Fresh(r), <<Uleb>>), LAMBDA c :
             ReadGoverned(c, registry, GetDefinition(registry, c.out[1]))),
        LAMBDA h : [parameter_id |-> h[1], duration_fields |-> h[2], subblocks |-> h[3]])

\* The data has the form its context gives it: for Recon Gain, a layer where
\* the Audio Element has a gate and nowhere else.
DataFits(data, context) ==
  CASE data.kind \in {"step", "linear", "bezier"} -> context.kind = "mix_gain"
    [] data.kind = "demixing"   -> context.kind = "demixing"
    [] data.kind = "recon_gain" ->
         /\ context.kind = "recon_gain"
         /\ Len(data.fields) = Len(context.present)
         /\ \A i \in DOMAIN data.fields : context.present[i] <=> data.fields[i] # None
    [] data.kind = "raw"        -> context.kind = "reserved" /\ context.value >= 3

\* The rules of validate_parameter_block, in its order: an empty sequence when
\* the block keeps them all.
BlockRefusal(definition, context, block) ==
  LET own      == block.duration_fields
      timed    == Timed(own)
      count    == Len(block.subblocks)
      expected == IF timed THEN count
                  ELSE IF own # None THEN SubblocksImpliedBy(own[1].duration, own[1].constant)
                  ELSE IF Mode1(definition) THEN count
                  ELSE DefinedCount(definition)
  IN  Refuse(block.parameter_id # definition.parameter_id, "ParameterIdMismatch")
      \o Refuse((own # None) # Mode1(definition), "ParameterModeMismatch")
      \o Refuse(\E i \in 1 .. count : ~ DataFits(block.subblocks[i].data, context),
                "UnsupportedParameterData")
      \o Refuse(SingleSubblock(context) /\ count # 1, "SubblockCountNotOne")
      \o Refuse(count # expected, "SubblockDurationMismatch")
      \o Refuse(\E i \in 1 .. count : (block.subblocks[i].duration # None) # timed,
                "SubblockDurationMismatch")
      \o Refuse(timed /\ DurationSum(block.subblocks) # own[1].duration,
                "SubblockDurationMismatch")

PutParameterBlock(definition, context, block) ==
  LET PutDurations(f) ==
        PutUleb(f.duration) \o PutUleb(f.constant)
        \o (IF f.constant = 0 THEN PutUleb(Len(block.subblocks)) ELSE <<>>)
      PutSubblock(s) == PutEach(s.duration, PutUleb) \o PutParameterData(s.data, context)
  IN  BlockRefusal(definition, context, block)
      \o PutUleb(block.parameter_id)
      \o PutEach(block.duration_fields, PutDurations)
      \o PutEach(block.subblocks, PutSubblock)

=============================================================================
