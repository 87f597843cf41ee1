------------------------------- MODULE Sampler -------------------------------
(***************************************************************************)
(* The choice of the next token from the logits (sampler.cpp).  A logit is  *)
(* an integer or Masked (minus infinity); softmax is abstracted to weights  *)
(* that are powers of two, so that probabilities are exact fractions.  Where *)
(* the code leaves the order of equal values to a sort, every order counts: *)
(* a filter yields the set of the logits it may leave.                      *)
(***************************************************************************)
EXTENDS Integers, Sequences, FiniteSets, FiniteSetsExt

Masked == -1000

Keep(logits, kept) == [t \in DOMAIN logits |-> IF t \in kept THEN logits[t] ELSE Masked]

WindowSlice(recent, last_n) ==
    IF last_n >= Len(recent) THEN recent
    ELSE SubSeq(recent, Len(recent) - last_n + 1, Len(recent))

Count(window, token) == Cardinality({i \in DOMAIN window : window[i] = token})

\* Masked logits stay what they are: an infinite value absorbs the rest.
Adjust(logits, changed) ==
    [t \in DOMAIN logits |-> IF logits[t] = Masked THEN Masked ELSE changed[t]]

-----------------------------------------------------------------------------
(* Bias and penalties                                                       *)

LogitBias(logits, bias) == Adjust(logits, [t \in DOMAIN logits |-> logits[t] + bias[t]])

\* Once for each token of the window, however often it occurs.
RepPenalty(logits, recent, penalty) ==
    Adjust(logits, [t \in DOMAIN logits |->
        IF Count(recent, t) = 0 THEN logits[t]
        ELSE IF logits[t] > 0 THEN logits[t] \div penalty ELSE logits[t] * penalty])

Dry(logits, recent, multiplier, base, allowed_len) ==
    IF multiplier <= 0 \/ Len(recent) < 2 THEN logits
    ELSE Adjust(logits, [t \in DOMAIN logits |->
            IF Count(recent, t) <= allowed_len THEN logits[t]
            ELSE logits[t] - multiplier * base ^ (Count(recent, t) - allowed_len)])

FreqPresence(logits, recent, frequency, presence) ==
    Adjust(logits, [t \in DOMAIN logits |->
        IF Count(recent, t) = 0 THEN logits[t]
        ELSE logits[t] - Count(recent, t) * frequency - presence])

Penalised(logits, p, recent) ==
    LET biased   == LogitBias(logits, p.bias)
        repeated == RepPenalty(biased, WindowSlice(recent, p.repeat_last_n), p.rep_penalty)
        dried    == Dry(repeated, WindowSlice(recent, p.dry_last_n), p.dry_multiplier,
                        p.dry_base, p.dry_allowed_len)
    IN FreqPresence(dried, WindowSlice(recent, Max({p.repeat_last_n, p.dry_last_n})),
                    p.frequency_penalty, p.presence_penalty)

Argmax(logits) ==
    Min({t \in DOMAIN logits : \A o \in DOMAIN logits : logits[o] <= logits[t]})

-----------------------------------------------------------------------------
(* Filters                                                                  *)

\* Weights over the smallest logit that is left; all masked is uniform.
Weights(logits) ==
    LET left == {t \in DOMAIN logits : logits[t] # Masked}
    IN [t \in DOMAIN logits |->
           IF left = {} THEN 1
           ELSE IF t \notin left THEN 0
           ELSE 2 ^ (logits[t] - Min({logits[o] : o \in left}))]

WeightOf(logits, tokens) == FoldSet(LAMBDA t, w : w + Weights(logits)[t], 0, tokens)

\* The sets of n tokens a descending sort by value may put first.
Leading(value, n) ==
    {S \in kSubset(n, DOMAIN value) :
        \A t \in S : \A o \in DOMAIN value \ S : value[o] <= value[t]}

TopK(logits, k) ==
    IF k = 0 \/ k >= Cardinality(DOMAIN logits) THEN {logits}
    ELSE {Keep(logits, S) : S \in Leading(logits, k)}

\* Mutated: the token that reaches the mass is left out.
OneBelow(n) == n - 1

CutoffAt(n) == n

\* p is a percentage.  The shortest beginning of the order that reaches it.
TopP(logits, p) ==
    IF p >= 100 \/ p <= 0 THEN {logits}
    ELSE LET all == WeightOf(logits, DOMAIN logits)
             Reaches(n) == \E S \in Leading(Weights(logits), n) :
                               WeightOf(logits, S) * 100 >= p * all
             cutoff == Min({n \in 1..Cardinality(DOMAIN logits) : Reaches(n)})
         IN {Keep(logits, S) : S \in Leading(Weights(logits), CutoffAt(cutoff))}

MinP(logits, min_p) ==
    LET most == Max({Weights(logits)[t] : t \in DOMAIN logits})
    IN IF min_p <= 0 THEN logits
       ELSE Keep(logits, {t \in DOMAIN logits : Weights(logits)[t] * 100 >= min_p * most})

\* 1 / temperature; dividing by a temperature above 1 is left out.
Heated(logits, inverse) == Adjust(logits, [t \in DOMAIN logits |-> logits[t] * inverse])

\* What the draw is made from: the sets of logits the filters may leave.
Filtered(logits, p) ==
    {MinP(nucleus, p.min_p) :
        nucleus \in UNION {TopP(top, p.top_p) :
                              top \in TopK(Heated(logits, p.inverse), p.top_k)}}

Drawable(logits) == {t \in DOMAIN logits : Weights(logits)[t] > 0}

\* sample(): the tokens it may return.
Sample(logits, p, recent) ==
    LET penalised == Penalised(logits, p, recent)
    IN IF p.inverse = 0 THEN {Argmax(penalised)}
       ELSE UNION {Drawable(left) : left \in Filtered(penalised, p)}
=============================================================================
