-------------------------------- MODULE Inputs --------------------------------
(***************************************************************************)
(* What reaches the program from files it did not write: plans, logits, the *)
(* directory of a model file and the metadata in it.  A state is one input, *)
(* and the properties say what the algorithms make of it.                   *)
(***************************************************************************)
EXTENDS PlanText

Draw == INSTANCE Sampler
Gguf == INSTANCE ModelFile
Arch == INSTANCE ModelLayout

VARIABLE input

Is(kind) == input.kind = kind
Pick(kind, of) == input' = [kind |-> kind, of |-> of]

InputsInit == input = [kind |-> "none"]

\* A plan file holds lines; the rest is what the loaders can rely on.
PickPlan(of) == Is("none") /\ IsLines(of) /\ Pick("plan", of)
PickLogits(of) == Is("none") /\ Pick("logits", of)
PickFile(of) ==
    /\ Is("none")
    /\ Gguf!IsFile(of.file)
    /\ \A s \in of.shapes : s[2] \in Nat /\ s[3] \in Nat /\ s[4] \in Nat
    /\ Pick("file", of)
PickMetadata(of) ==
    /\ Is("none")
    /\ Arch!IsMetadata(of.md) /\ of.batch \in Nat \ {0} /\ of.slots \in Nat
    /\ Pick("metadata", of)

InputsNext == \E of : PickPlan(of) \/ PickLogits(of) \/ PickFile(of) \/ PickMetadata(of)
InputsSpec == InputsInit /\ [][InputsNext]_input

-----------------------------------------------------------------------------
\* A plan that is loaded and saved, as a checked phase makes it, is the same
\* plan when it is loaded again, whatever the file looked like before, unless a
\* phase begins with a mark that ends a number: the header promises it of every
\* plan, but ".net upgrade" comes back as "net upgrade" (parse_plan, render_plan,
\* strip_phase_prefix).
SavedPlanIsThePlan ==
    Is("plan") /\ ReadsBack(ParsePlan(input.of)) => RoundTrips(ParsePlan(input.of))

-----------------------------------------------------------------------------
\* What may be drawn is never nothing and never more than top_k tokens, no
\* token left out is likelier than one left in, and the nucleus holds its
\* share of the mass and not a token more than that takes; but when everything
\* is masked, as a min_p above 1 masks it, any token at all may be drawn
\* (top_k, top_p, min_p, softmax_probs, sample).
TheMostLikelySurvive ==
    Is("logits") =>
        LET p == input.of.p
            tokens == DOMAIN input.of.logits
            logits == Draw!Penalised(input.of.logits, p, input.of.recent)
            value == Draw!Heated(logits, p.inverse)
            Mass(some) == Draw!WeightOf(value, some)
            all_masked == p.min_p > 100 \/ \A t \in tokens : logits[t] = Draw!Masked
            Sound(left) == IF all_masked THEN left = tokens ELSE
                /\ left # {}
                /\ \A t \in left, o \in tokens \ left : value[o] <= value[t]
                /\ p.top_k > 0 => Cardinality(left) <= p.top_k
                /\ p.top_k = 0 /\ p.min_p = 0 =>
                      /\ Mass(left) * 100 >= p.top_p * Mass(tokens)
                      /\ p.top_p < 100 =>
                            \A t \in left : Mass(left \ {t}) * 100 < p.top_p * Mass(tokens)
                /\ p.top_k = 0 /\ p.top_p = 100 /\ p.min_p > 0 =>
                      left = {t \in tokens : \A o \in tokens :
                                 Mass({t}) * 100 >= p.min_p * Mass({o})}
        IN IF p.inverse = 0
           THEN \A t \in Draw!Sample(input.of.logits, p, input.of.recent) :
                   \A o \in tokens : logits[o] <= logits[t]
           ELSE \A left \in Draw!Filtered(logits, p) : Sound(Draw!Drawable(left))

-----------------------------------------------------------------------------
\* A span lies in the tensor it is read from, and in the file.
InTensor(file, info, w, span) ==
    /\ Gguf!DataBase(file) <= span[1] /\ w.data <= span[1] /\ span[1] <= span[2]
    /\ span[2] <= w.data + Gguf!TensorBytes(info.dtype, info.dims)
    /\ span[2] <= file.size
Apart(a, b) == a[2] <= b[1] \/ b[2] <= a[1]

\* The loader can tell how many bytes the tensor takes, and looks for them.
Sized(info) == Gguf!TensorBytes(info.dtype, info.dims) # 0

\* Every byte that is read of a weight of that name and shape, if it is read.
ReadInside(file, name, rows, cols, experts) ==
    LET w == Gguf!Weight(file, name, rows, cols, experts)
        info == file.tensors[Gguf!TensorNamed(file, name)]
        all == (0 .. (IF experts = 0 THEN 0 ELSE experts - 1)) \X (0 .. rows - 1)
    IN IF cols = 0
       THEN Gguf!Dequantises(w) => InTensor(file, info, w, Gguf!VectorSpan(w))
       ELSE \A n \in {1, 4} : Gguf!Multiplies(w, n) /\ (n < 4 => Sized(info)) =>
               \A r \in all :
                  /\ InTensor(file, info, w, Gguf!RowSpan(w, r[1], r[2]))
                  /\ \A o \in all \ {r} :
                        Apart(Gguf!RowSpan(w, r[1], r[2]), Gguf!RowSpan(w, o[1], o[2]))

\* The elements of the array that counts under a key.
ArrayInside(file, key) ==
    LET v == file.kv[Gguf!EntryOf(file, key)].value
    IN v.type = "Array" =>
          Gguf!ArrayBegin(file, key) + v.count * Gguf!ScalarBytes(v.element) <= file.size

\* A file that loads holds every byte that is read of its weights: each row of
\* each expert lies in its tensor, apart from the others, and in the file,
\* however much of the file is missing and whatever types it has; and the
\* elements of its arrays.  A tensor whose elements are not whole blocks has no
\* size and is not looked for in the file: products of fewer than four tokens
\* read it all the same, and of them nothing is said (GgufLoader::load, resolve,
\* resolve_experts, read_row, dequant_1d, matvec, read_u8_array).
WeightsAreReadInside ==
    Is("file") /\ Gguf!Loads(input.of.file) =>
        /\ \A entry \in Range(input.of.file.kv) : ArrayInside(input.of.file, entry.key)
        /\ \A s \in input.of.shapes :
              Gguf!Resolves(input.of.file, s[1], s[2], s[3], s[4])
                 => ReadInside(input.of.file, s[1], s[2], s[3], s[4])

-----------------------------------------------------------------------------
\* How far a pass of n tokens at a layer reaches, and what its products ask for.
PassFits(d, p, B, layer, n) ==
    /\ \A r \in Arch!Reach(d, p, layer, n, d.n_ctx_train) : r[2] <= Arch!Scratch(d, p, B)[r[1]]
    /\ \A product \in Arch!Products(d, p, layer) :
          \E w \in Arch!Weights(d, p, layer) :
             w[1] = product.weight /\ w[2] = product.rows /\ w[3] = product.cols

\* The parts of the recurrent state: the conv history of a layer and its heads.
Regions(p, slots) ==
    {<<s, l, h>> : s \in 0 .. slots - 1, l \in p.recurrent, h \in -1 .. p.delta.n_v - 1}
Begin(p, r) ==
    IF r[3] = -1 THEN Arch!ConvBegin(p, r[1], r[2]) ELSE Arch!DeltaBegin(p, r[1], r[2], r[3])
End(p, r) ==
    Begin(p, r) + (IF r[3] = -1 THEN Arch!ConvFloats(p.delta)
                   ELSE p.delta.d_state * p.delta.d_state)

StatesApart(p, slots) ==
    \A r \in Regions(p, slots) :
        /\ End(p, r) <= slots * Arch!SlotFloats(p)
        /\ \A o \in Regions(p, slots) \ {r} : End(p, r) <= Begin(p, o) \/ End(p, o) <= Begin(p, r)

\* The tiled value heads stand by their key heads, each once.
HeadsGrouped(dn) ==
    LET heads == 0 .. dn.n_v - 1
    IN /\ {Arch!Grouped(dn, h) : h \in heads} = heads
       /\ \A h, o \in heads :
             Arch!DeltaKeyHeadOf(dn, h) < Arch!DeltaKeyHeadOf(dn, o)
                 => Arch!Grouped(dn, h) < Arch!Grouped(dn, o)

\* Nothing a forward pass of up to the scratch's tokens does reaches past what
\* was made for it: every product has the shape of its weight and finds room
\* for what it reads and writes, and every layer and slot a recurrent state of
\* its own.  Where there are as many heads as key heads or more, every head has
\* its key head exactly if the key heads divide the heads, which is nowhere
\* checked (parse_arch_config, BlockScratch::init, resolve_model_tensors,
\* block_forward, RecurrentState).
ScratchHolds ==
    Is("metadata") /\ Arch!Accepted(input.of.md) =>
        LET d == Arch!Dims(input.of.md)
            p == Arch!Params(input.of.md)
        IN /\ \A layer \in 0 .. d.n_layers - 1, n \in 1 .. input.of.batch :
                 PassFits(d, p, input.of.batch, layer, n)
           /\ 0 < d.n_kv_heads /\ d.n_kv_heads <= d.n_heads =>
                 ((\A h \in 0 .. d.n_heads - 1 : Arch!KeyHeadOf(d, h) < d.n_kv_heads)
                     <=> d.n_heads % d.n_kv_heads = 0)
           /\ p.rope_dim <= d.head_dim /\ p.rope_dim_swa <= d.head_dim
           /\ StatesApart(p, input.of.slots)
           /\ HeadsGrouped(p.delta)
=============================================================================
