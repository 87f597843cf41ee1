----------------------------- MODULE ModelLayout -----------------------------
(***************************************************************************)
(* From the metadata of a model to the sizes everything is built with: the  *)
(* shapes of its weights (qwen_config.cpp, qwen_tensor_slots.cpp), the      *)
(* scratch a forward pass works in, and how far that pass reaches into      *)
(* every buffer (qwen_block.cpp).  Metadata md is a record with the keys a  *)
(* file has; widths are in floats, layers from 0 as in the code.            *)
(***************************************************************************)
EXTENDS Integers, Sequences, FiniteSets, FiniteSetsExt

ArchSpec(ffn, qkv, attn_gate, hybrid) ==
    [ffn |-> ffn, qkv |-> qkv, attn_gate |-> attn_gate, hybrid |-> hybrid]

\* The architectures that can be executed.
Archs ==
    [a \in {"qwen2", "qwen3", "qwen3moe", "granite", "phi3", "spark2_5", "qwen35", "qwen35moe"} |->
        CASE a \in {"qwen2", "qwen3", "granite"} -> ArchSpec("dense", "separate", FALSE, FALSE)
          [] a = "qwen3moe"  -> ArchSpec("moe", "separate", FALSE, FALSE)
          [] a = "phi3"      -> ArchSpec("fused", "fused", FALSE, FALSE)
          [] a = "spark2_5"  -> ArchSpec("dense", "fused", TRUE, FALSE)
          [] a = "qwen35"    -> ArchSpec("dense", "separate_gate", FALSE, TRUE)
          [] a = "qwen35moe" -> ArchSpec("moe", "separate_gate", FALSE, TRUE)]

Has(md, key) == key \in DOMAIN md
OrElse(md, key, default) == IF Has(md, key) THEN md[key] ELSE default
AtLeast(md, key, least) == Has(md, key) /\ md[key] >= least

-----------------------------------------------------------------------------
(* parse_arch_config()                                                      *)

\* The blocks that only predict further tokens are not run.
Layers(md) == md.block_count - OrElse(md, "nextn_predict_layers", 0)
KvHeads(md) == OrElse(md, "head_count_kv", md.head_count)
HeadDim(md) == OrElse(md, "key_length", md.embedding_length \div md.head_count)

Dims(md) ==
    [n_layers |-> Layers(md), n_heads |-> md.head_count, n_kv_heads |-> KvHeads(md),
     head_dim |-> HeadDim(md), hidden |-> md.embedding_length,
     ffn_hidden |-> OrElse(md, "feed_forward_length", 0),
     vocab |-> md.vocab, n_ctx_train |-> md.context_length,
     q_dim |-> md.head_count * HeadDim(md), kv_dim |-> KvHeads(md) * HeadDim(md)]

\* The dimensions rotated; a width that cannot be is passed over.
RopeDim(md, key, default) ==
    IF AtLeast(md, key, 1) /\ md[key] <= HeadDim(md) THEN md[key] ELSE default

\* A window counts only with a pattern of the layers it is for.
Windowed(md) == AtLeast(md, "sliding_window", 1) /\ Has(md, "window_pattern")

\* ArchParams::DeltaNet.
Delta(md) ==
    IF ~Archs[md.arch].hybrid
    THEN [d_conv |-> 0, d_state |-> 0, n_k |-> 0, n_v |-> 0,
          head_v_dim |-> 0, key_dim |-> 0, value_dim |-> 0, conv_dim |-> 0]
    ELSE LET key == md.state_size * md.group_count
             value == md.state_size * md.time_step_rank
         IN [d_conv |-> md.conv_kernel, d_state |-> md.state_size,
             n_k |-> md.group_count, n_v |-> md.time_step_rank,
             head_v_dim |-> md.inner_size \div md.time_step_rank,
             key_dim |-> key, value_dim |-> value, conv_dim |-> 2 * key + value]

\* Every layer but each fourth, or as an array of flags says.
RecurrentLayers(md) ==
    IF ~Archs[md.arch].hybrid THEN {}
    ELSE IF Has(md, "recurrent_layers")
    THEN {i \in 0..(Layers(md) - 1) : md.recurrent_layers[i + 1]}
    ELSE LET interval == IF AtLeast(md, "full_attention_interval", 1)
                         THEN md.full_attention_interval ELSE 4
         IN {i \in 0..(Layers(md) - 1) : (i + 1) % interval # 0}

Params(md) ==
    [ffn |-> Archs[md.arch].ffn, qkv |-> Archs[md.arch].qkv,
     attn_gate |-> Archs[md.arch].attn_gate, delta |-> Delta(md),
     recurrent |-> RecurrentLayers(md),
     n_expert |-> OrElse(md, "expert_count", 0),
     n_expert_used |-> OrElse(md, "expert_used_count", 0),
     expert_ffn |-> OrElse(md, "expert_feed_forward_length", 0),
     expert_shared_ffn |-> OrElse(md, "expert_shared_feed_forward_length", 0),
     rope_dim |-> RopeDim(md, "rope_dim", HeadDim(md)),
     rope_dim_swa |-> RopeDim(md, "rope_dim_swa", RopeDim(md, "rope_dim", HeadDim(md))),
     sliding_window |-> IF Windowed(md) THEN md.sliding_window ELSE 0,
     swa |-> IF Windowed(md) THEN {i \in 0..(Layers(md) - 1) : md.window_pattern[i + 1]} ELSE {}]

DeltaSized(md) ==
    /\ \A key \in {"conv_kernel", "inner_size", "state_size", "group_count", "time_step_rank"} :
          AtLeast(md, key, 1)
    /\ md.inner_size % md.time_step_rank = 0
    /\ md.time_step_rank % md.group_count = 0
    /\ Has(md, "recurrent_layers") => Len(md.recurrent_layers) >= Layers(md)

\* The width of a value head has two sources, which must agree.
DeltaChecks(md) ==
    DeltaSized(md) /\ md.inner_size \div md.time_step_rank = md.state_size

MoeChecks(md) ==
    /\ \A key \in {"expert_count", "expert_used_count", "expert_feed_forward_length"} :
          AtLeast(md, key, 1)
    /\ md.expert_used_count <= md.expert_count

Accepted(md) ==
    /\ md.arch \in DOMAIN Archs
    /\ \A key \in {"context_length", "embedding_length", "block_count", "head_count", "vocab"} :
          Has(md, key)
    /\ Archs[md.arch].ffn # "moe" => Has(md, "feed_forward_length")
    /\ AtLeast(md, "nextn_predict_layers", 1) => Layers(md) > 0
    /\ ~Has(md, "key_length") => /\ md.head_count > 0 /\ md.embedding_length > 0
                                 /\ md.embedding_length % md.head_count = 0
    /\ HeadDim(md) # 0
    /\ Archs[md.arch].ffn = "moe" => MoeChecks(md)
    /\ Windowed(md) => Len(md.window_pattern) = Layers(md)
    /\ Archs[md.arch].hybrid => DeltaChecks(md)

-----------------------------------------------------------------------------
(* The weights a layer must have, by name and shape <<rows, cols, experts>>  *)

AttentionWeights(d, p) ==
    (CASE p.qkv = "separate_gate" -> {<<"attn_q", 2 * d.q_dim, d.hidden, 0>>}
       [] p.qkv = "separate" -> {<<"attn_q", d.q_dim, d.hidden, 0>>}
       [] p.qkv = "fused" -> {<<"attn_qkv", d.q_dim + 2 * d.kv_dim, d.hidden, 0>>})
    \cup (IF p.qkv = "fused" THEN {}
          ELSE {<<"attn_k", d.kv_dim, d.hidden, 0>>, <<"attn_v", d.kv_dim, d.hidden, 0>>})
    \cup {<<"attn_output", d.hidden, d.q_dim, 0>>}
    \cup (IF p.attn_gate THEN {<<"attn_gate", d.n_heads, d.hidden, 0>>} ELSE {})

DeltaWeights(d, dn) ==
    {<<"ssm_in", dn.conv_dim, d.hidden, 0>>, <<"ssm_gate", dn.value_dim, d.hidden, 0>>,
     <<"ssm_conv1d", dn.conv_dim, dn.d_conv, 0>>, <<"ssm_norm", dn.head_v_dim, 0, 0>>,
     <<"ssm_beta", dn.n_v, d.hidden, 0>>, <<"ssm_alpha", dn.n_v, d.hidden, 0>>,
     <<"ssm_dt_bias", dn.n_v, 0, 0>>, <<"ssm_a", dn.n_v, 0, 0>>,
     <<"ssm_out", d.hidden, dn.value_dim, 0>>}

FfnWeights(d, p) ==
    CASE p.ffn = "dense" -> {<<"ffn_gate", d.ffn_hidden, d.hidden, 0>>,
                             <<"ffn_up", d.ffn_hidden, d.hidden, 0>>,
                             <<"ffn_down", d.hidden, d.ffn_hidden, 0>>}
      [] p.ffn = "fused" -> {<<"ffn_up", 2 * d.ffn_hidden, d.hidden, 0>>,
                             <<"ffn_down", d.hidden, d.ffn_hidden, 0>>}
      [] p.ffn = "moe" ->
            {<<"ffn_gate_inp", p.n_expert, d.hidden, 0>>,
             <<"ffn_gate_exps", p.expert_ffn, d.hidden, p.n_expert>>,
             <<"ffn_up_exps", p.expert_ffn, d.hidden, p.n_expert>>,
             <<"ffn_down_exps", d.hidden, p.expert_ffn, p.n_expert>>}
            \cup (IF p.expert_shared_ffn = 0 THEN {}
                  ELSE {<<"ffn_gate_inp_shexp", d.hidden, 0, 0>>,
                        <<"ffn_gate_shexp", p.expert_shared_ffn, d.hidden, 0>>,
                        <<"ffn_up_shexp", p.expert_shared_ffn, d.hidden, 0>>,
                        <<"ffn_down_shexp", d.hidden, p.expert_shared_ffn, 0>>})

Weights(d, p, layer) ==
    {<<"attn_norm", d.hidden, 0, 0>>, <<"ffn_norm", d.hidden, 0, 0>>} \cup FfnWeights(d, p)
    \cup (IF layer \in p.recurrent THEN DeltaWeights(d, p.delta) ELSE AttentionWeights(d, p))

-----------------------------------------------------------------------------
(* BlockScratch::init()                                                     *)

Scratch(d, p, B) ==
    LET dn == p.delta
        When(flag, floats) == IF flag THEN floats ELSE 0
        \* An expert works on one token, the widest of the two kinds.
        ffn == CASE p.ffn = "dense" -> <<B * d.ffn_hidden, B * d.ffn_hidden>>
                 [] p.ffn = "fused" -> <<B * 2 * d.ffn_hidden, B * d.ffn_hidden>>
                 [] p.ffn = "moe" -> <<Max({p.expert_ffn, p.expert_shared_ffn}),
                                       Max({p.expert_ffn, p.expert_shared_ffn})>>
    IN [x |-> B * d.hidden, residual |-> B * d.hidden, x_norm |-> B * d.hidden,
        q_full |-> B * d.q_dim, k_full |-> B * d.kv_dim, v_full |-> B * d.kv_dim,
        attn_out |-> B * d.q_dim, attn_scores |-> Max({d.n_ctx_train, 1}),
        qkv_full |-> When(p.qkv = "fused", B * (d.q_dim + 2 * d.kv_dim)),
        qg_full |-> When(p.qkv = "separate_gate", B * 2 * d.q_dim),
        elem_gate |-> When(p.qkv = "separate_gate", B * d.q_dim),
        head_gate |-> When(p.attn_gate, B * d.n_heads),
        dn_mixed |-> B * dn.conv_dim, dn_conv_out |-> B * dn.conv_dim,
        dn_z |-> B * dn.value_dim, dn_out |-> B * dn.value_dim,
        dn_beta |-> B * dn.n_v, dn_alpha |-> B * dn.n_v, dn_decay |-> B * dn.n_v,
        dn_head |-> dn.d_state,
        ssm_conv_w |-> d.n_layers * dn.conv_dim * dn.d_conv,
        ssm_dt_bias |-> d.n_layers * dn.n_v, ssm_a |-> d.n_layers * dn.n_v,
        ssm_norm |-> d.n_layers * dn.head_v_dim,
        gate |-> ffn[1], up |-> ffn[2],
        router_probs |-> When(p.ffn = "moe", p.n_expert),
        expert_ids |-> When(p.ffn = "moe", p.n_expert_used),
        expert_out |-> When(p.ffn = "moe", d.hidden),
        fold_buf |-> B * Max({d.hidden, d.q_dim, d.ffn_hidden, dn.value_dim}
                             \cup (IF p.ffn = "moe" THEN {p.expert_ffn, p.expert_shared_ffn}
                                   ELSE {})),
        fold_perm |-> B * dn.value_dim,
        norms |-> d.n_layers * d.hidden,
        qk_norms |-> d.n_layers * d.head_dim,
        q_bias |-> d.n_layers * d.q_dim, kv_bias |-> d.n_layers * d.kv_dim]

\* RecurrentState: a slot holds the conv history of all its layers, then their
\* delta states.
ConvFloats(dn) == (dn.d_conv - 1) * dn.conv_dim
DeltaFloats(dn) == dn.n_v * dn.d_state * dn.d_state
SlotFloats(p) ==
    IF p.recurrent = {} THEN 0
    ELSE Cardinality(p.recurrent) * (ConvFloats(p.delta) + DeltaFloats(p.delta))

Dense(p, layer) == Cardinality({l \in p.recurrent : l < layer})
ConvBegin(p, slot, layer) == slot * SlotFloats(p) + Dense(p, layer) * ConvFloats(p.delta)
DeltaBegin(p, slot, layer, head) ==
    slot * SlotFloats(p) + Cardinality(p.recurrent) * ConvFloats(p.delta)
    + Dense(p, layer) * DeltaFloats(p.delta) + head * p.delta.d_state * p.delta.d_state

-----------------------------------------------------------------------------
(* block_forward() of n tokens: the products, and the reach into buffers     *)

Product(weight, rows, cols, in, out) ==
    [weight |-> weight, rows |-> rows, cols |-> cols, in |-> in, out |-> out]

AttentionProducts(d, p) ==
    (CASE p.qkv = "separate_gate" -> {Product("attn_q", 2 * d.q_dim, d.hidden, "x_norm", "qg_full")}
       [] p.qkv = "separate" -> {Product("attn_q", d.q_dim, d.hidden, "x_norm", "q_full")}
       [] p.qkv = "fused" -> {Product("attn_qkv", d.q_dim + 2 * d.kv_dim, d.hidden,
                                      "x_norm", "qkv_full")})
    \cup (IF p.qkv = "fused" THEN {}
          ELSE {Product("attn_k", d.kv_dim, d.hidden, "x_norm", "k_full"),
                Product("attn_v", d.kv_dim, d.hidden, "x_norm", "v_full")})
    \cup (IF p.attn_gate THEN {Product("attn_gate", d.n_heads, d.hidden, "x_norm", "head_gate")}
          ELSE {})
    \cup {Product("attn_output", d.hidden, d.q_dim, "attn_out", "x")}

DeltaProducts(d, dn) ==
    {Product("ssm_in", dn.conv_dim, d.hidden, "x_norm", "dn_mixed"),
     Product("ssm_gate", dn.value_dim, d.hidden, "x_norm", "dn_z"),
     Product("ssm_beta", dn.n_v, d.hidden, "x_norm", "dn_beta"),
     Product("ssm_alpha", dn.n_v, d.hidden, "x_norm", "dn_alpha"),
     Product("ssm_out", d.hidden, dn.value_dim, "dn_out", "x")}

SwiGlu(gate, up, down, d, width, out) ==
    {Product(gate, width, d.hidden, "x_norm", "gate"), Product(up, width, d.hidden, "x_norm", "up"),
     Product(down, d.hidden, width, "gate", out)}

FfnProducts(d, p) ==
    CASE p.ffn = "dense" -> SwiGlu("ffn_gate", "ffn_up", "ffn_down", d, d.ffn_hidden, "x")
      [] p.ffn = "fused" -> {Product("ffn_up", 2 * d.ffn_hidden, d.hidden, "x_norm", "gate"),
                             Product("ffn_down", d.hidden, d.ffn_hidden, "up", "x")}
      [] p.ffn = "moe" ->
            {Product("ffn_gate_inp", p.n_expert, d.hidden, "x_norm", "router_probs")}
            \cup SwiGlu("ffn_gate_exps", "ffn_up_exps", "ffn_down_exps", d, p.expert_ffn,
                        "expert_out")
            \cup (IF p.expert_shared_ffn = 0 THEN {}
                  ELSE SwiGlu("ffn_gate_shexp", "ffn_up_shexp", "ffn_down_shexp", d,
                              p.expert_shared_ffn, "expert_out"))

Products(d, p, layer) ==
    FfnProducts(d, p)
    \cup (IF layer \in p.recurrent THEN DeltaProducts(d, p.delta) ELSE AttentionProducts(d, p))

\* folded_input(): the products that may take a rotated copy of their input.
Folds(p) ==
    {"attn_q", "attn_k", "attn_v", "attn_qkv", "attn_output", "ssm_in", "ssm_gate", "ssm_out"}
    \cup (IF p.ffn = "dense" THEN {"ffn_gate", "ffn_up", "ffn_down"} ELSE {})

\* ffn_moe_one() takes the tokens one by one.
Batch(p, buffer, n) ==
    IF p.ffn = "moe" /\ buffer \in {"gate", "up", "router_probs", "expert_out"} THEN 1 ELSE n

\* How far a product reaches: <<buffer, floats>>.
ProductReach(p, product, n) ==
    {<<product.in, Batch(p, product.in, n) * product.cols>>,
     <<product.out, Batch(p, product.out, n) * product.rows>>}
    \cup (IF product.weight \in Folds(p) THEN {<<"fold_buf", n * product.cols>>} ELSE {})

\* An attention layer sees the last of the positions 0 .. end - 1.
Span(p, layer, end) ==
    IF layer \in p.swa /\ p.sliding_window > 0 /\ end > p.sliding_window
    THEN p.sliding_window ELSE end

AttentionReach(d, p, layer, n, end) ==
    {<<"q_full", n * d.n_heads * d.head_dim>>, <<"k_full", n * d.n_kv_heads * d.head_dim>>,
     <<"v_full", n * d.kv_dim>>, <<"attn_out", n * d.n_heads * d.head_dim>>,
     <<"attn_scores", Span(p, layer, end)>>,
     <<"q_bias", (layer + 1) * d.q_dim>>, <<"kv_bias", (layer + 1) * d.kv_dim>>,
     <<"qk_norms", (layer + 1) * d.head_dim>>}
    \cup (IF p.qkv = "separate_gate" THEN {<<"elem_gate", n * d.q_dim>>} ELSE {})

\* The last value head of the last token: where it reads and where it writes.
DeltaReach(d, dn, layer, n) ==
    {<<"dn_conv_out", (n - 1) * dn.conv_dim + 2 * dn.key_dim
                      + (dn.n_v - 1) * dn.head_v_dim + dn.d_state>>,
     <<"dn_out", (n - 1) * dn.value_dim + (dn.n_v - 1) * dn.head_v_dim
                 + Max({dn.d_state, dn.head_v_dim})>>,
     <<"dn_decay", n * dn.n_v>>, <<"dn_head", dn.d_state>>, <<"fold_perm", n * dn.value_dim>>,
     <<"ssm_conv_w", (layer + 1) * dn.conv_dim * dn.d_conv>>,
     <<"ssm_dt_bias", (layer + 1) * dn.n_v>>, <<"ssm_norm", (layer + 1) * dn.head_v_dim>>}

Reach(d, p, layer, n, end) ==
    {<<"x", n * d.hidden>>, <<"residual", n * d.hidden>>, <<"x_norm", n * d.hidden>>,
     <<"norms", (layer + 1) * d.hidden>>}
    \cup (IF p.ffn = "moe" THEN {<<"expert_ids", p.n_expert_used>>} ELSE {})
    \cup (IF layer \in p.recurrent THEN DeltaReach(d, p.delta, layer, n)
          ELSE AttentionReach(d, p, layer, n, end))
    \cup UNION {ProductReach(p, product, n) : product \in Products(d, p, layer)}

\* The key head a query head reads, and a value head.
KeyHeadOf(d, head) == head \div (d.n_heads \div d.n_kv_heads)
DeltaKeyHeadOf(dn, head) == head % dn.n_k

\* hadamard_permute_gdn_v(): where the head at a place of the tiled order goes.
Grouped(dn, head) == head \div dn.n_k + (dn.n_v \div dn.n_k) * (head % dn.n_k)

-----------------------------------------------------------------------------
(* What metadata can be relied on to say, whatever is in it.                *)

NumberKeys ==
    {"context_length", "embedding_length", "block_count", "head_count", "vocab", "head_count_kv",
     "key_length", "nextn_predict_layers", "feed_forward_length", "expert_count",
     "expert_used_count", "expert_feed_forward_length", "expert_shared_feed_forward_length",
     "rope_dim", "rope_dim_swa", "sliding_window", "conv_kernel", "inner_size", "state_size",
     "group_count", "time_step_rank", "full_attention_interval"}

IsMetadata(md) ==
    /\ \A key \in NumberKeys : Has(md, key) => md[key] \in Nat
    /\ \A key \in {"recurrent_layers", "window_pattern"} : Has(md, key) => md[key] \in Seq(BOOLEAN)
=============================================================================
