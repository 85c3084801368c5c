----------------------------- MODULE Inference ------------------------------
(***************************************************************************)
(* The engine as the shell uses it: gguf_init at boot, then one            *)
(* gguf_generate per llm command.  The prompt is tokenized, all but its    *)
(* last token are run through transformer_forward to fill the caches, then *)
(* each step runs the last token, draws the next and prints it.            *)
(*                                                                         *)
(* The caches are rows one behind the other, every layer's positions after *)
(* those of the layer before; a row holds the layer and the token it was   *)
(* computed from.  Rows are not cleared between commands; those an earlier *)
(* command left are Stale here, whatever is in them.  What a token's       *)
(* logits are is left open.  The matrix products are IGpuGate's subject.   *)
(***************************************************************************)
EXTENDS Tokenizer, Sampling

CONSTANTS Prompts,       \* what get_formatted_prompt may return: bytes, with
                         \* the template's in front
          TokenSlots,    \* the tokens array: 256
          MaxTokens,     \* 100, from run_llm
          Weights,       \* bound: what a logit may weigh
          LoggedLogits,  \* logits printed for debugging: 5
          Stale

ASSUME InferenceAssumption ==
    /\ TokenSlots \in Nat \ {0} /\ MaxTokens \in Nat \ {0}
    /\ LoggedLogits \in Nat /\ Weights \subseteq Int
    /\ Stale \notin [layer : Int, token : Int]
    /\ Prompts \subseteq Seq(1 .. 255) \ {<<>>}

VARIABLES
    phase,     \* "boot", "shell", "tokenize", "prefill", "generate",
               \* "sample"; "undone" once it divides by zero or uses NULL
    pos, steps, last_token,
    output,    \* tokens printed by this command
    cache,     \* both caches, by row
    visible    \* whether the screen shows what is printed

runVars == <<phase, pos, steps, last_token, output, cache, visible>>
vars == <<modelVars, tokenVars, sampleVars, runVars>>

NotRunning == UNCHANGED <<sampleVars, runVars>>

Init == /\ ModelInit
        /\ table = <<>> /\ is_sentencepiece = FALSE
        /\ preprocessed = <<>> /\ at = 0 /\ tokens = <<>>
        /\ weight = <<>> /\ probs = <<>> /\ indices = <<>> /\ calls = <<>>
        /\ part = {} /\ chosen = NoToken
        /\ phase = "boot" /\ pos = 0 /\ steps = 0 /\ last_token = 0
        /\ output = <<>> /\ cache = <<>> /\ visible = TRUE

\* kmain starts the shell whether or not gguf_init succeeded.
StartShell == /\ phase = "boot" /\ stage \in {"loaded", "failed"}
              /\ phase' = "shell"
              /\ UNCHANGED <<modelVars, tokenVars, sampleVars,
                             pos, steps, last_token, output, cache, visible>>

Boot == \/ /\ phase = "boot" /\ NotRunning
           /\ \/ (ReadPair \/ AllocateBuffers) /\ UNCHANGED tokenVars
              \/ BuildTable
        \/ StartShell

-----------------------------------------------------------------------------
(* One command. *)

\* Without a vocabulary or a buffer, or before there are heads to divide by,
\* what follows is outside the model.
CanRun == /\ params.vocab_size \in 1 .. Len(vocab)
          /\ params.head_count_kv # 0
          /\ \A b \in Buffers : size[b] # Null

StartLlm(prompt) ==
    /\ phase = "shell"
    /\ preprocessed' = Preprocess(prompt) /\ at' = 0 /\ tokens' = StartTokens
    /\ output' = <<>> /\ steps' = 0 /\ pos' = 0 /\ last_token' = 0
    /\ cache' = [r \in DOMAIN cache |-> Stale]
    /\ phase' = IF CanRun THEN "tokenize" ELSE "undone"
    /\ UNCHANGED <<modelVars, table, is_sentencepiece, sampleVars,
                   visible>>

Tokenize == /\ phase = "tokenize" /\ TokenizeStep
            /\ UNCHANGED <<modelVars, sampleVars, runVars>>

StartPrefill ==
    /\ phase = "tokenize" /\ at = Len(preprocessed)
    /\ IF tokens = <<>>
       THEN phase' = "shell" /\ UNCHANGED <<last_token, visible>>
       ELSE /\ phase' = "prefill" /\ visible' = FALSE
            /\ last_token' = Head(tokens)
    /\ UNCHANGED <<modelVars, tokenVars, sampleVars, pos, steps, output, cache>>

Layers == 0 .. params.block_count - 1
Row(l, p) == l * params.context_length + p
Filled(l, token) == [layer |-> l, token |-> token]

\* transformer_forward: the row of the position is written in layer after
\* layer, whether or not the position is within the context.
Forward(token) ==
    LET writers(r) == {l \in Layers : Row(l, pos) = r}
    IN  cache' = [r \in DOMAIN cache \cup {Row(l, pos) : l \in Layers} |->
                     IF writers(r) = {} THEN cache[r]
                     ELSE Filled(Greatest(writers(r)), token)]

Prefill ==
    /\ phase = "prefill" /\ pos < Len(tokens) - 1
    /\ Forward(tokens[pos + 1])
    /\ last_token' = tokens[pos + 2] /\ pos' = pos + 1
    /\ UNCHANGED <<modelVars, tokenVars, sampleVars, phase, steps, output,
                   visible>>

\* (mutant) the last token of the prompt is skipped over.
StartGenerateLate ==
    /\ phase = "prefill" /\ pos = Len(tokens) - 1
    /\ phase' = "generate" /\ pos' = Len(tokens)
    /\ UNCHANGED <<modelVars, tokenVars, sampleVars, steps, last_token, output,
                   cache, visible>>

StartGenerate ==
    /\ phase = "prefill" /\ pos = Len(tokens) - 1
    /\ phase' = "generate"
    /\ UNCHANGED <<modelVars, tokenVars, sampleVars, pos, steps, last_token,
                   output, cache, visible>>

\* The forward pass and its logits; the arrays to sort, if there is memory.  A
\* sum of exactly zero, which the division turns to infinities, is left out.
Generate(w, enough) ==
    /\ phase = "generate" /\ \E t \in Ids : w[t] > 0
    /\ Forward(last_token)
    /\ weight' = w /\ phase' = "sample"
    /\ IF enough
       THEN /\ SumOf(w) # 0
            /\ probs' = Shares(w) /\ indices' = [t \in Ids |-> t]
            /\ calls' = <<Call(0, params.vocab_size - 1)>> /\ chosen' = NoToken
       ELSE /\ chosen' = Greedy(w)
            /\ UNCHANGED <<probs, indices, calls>>
    /\ UNCHANGED <<modelVars, tokenVars, part, pos, steps, last_token, output,
                   visible>>

Sample == /\ phase = "sample" /\ chosen = NoToken
          /\ \/ EnterCall
             \/ \E p \in part : Turn(p) \/ Divide(p)
             \/ \E n \in 1 .. params.vocab_size : Candidate(n) /\
                   \E r \in 0 .. 2 * Sum(probs, n) : Draw(n, r)
          /\ UNCHANGED <<modelVars, tokenVars, runVars>>

ForgetSample == /\ weight' = <<>> /\ probs' = <<>> /\ indices' = <<>>
                /\ calls' = <<>> /\ part' = {} /\ chosen' = NoToken

\* (mutant) the end of the text returns without showing the screen again.
StopHidden ==
    /\ phase = "sample" /\ chosen = params.eos_token_id
    /\ phase' = "shell" /\ ForgetSample
    /\ UNCHANGED <<modelVars, tokenVars, pos, steps, last_token, output,
                   cache, visible>>

Stop == /\ phase = "sample" /\ chosen = params.eos_token_id
        /\ phase' = "shell" /\ visible' = TRUE /\ ForgetSample
        /\ UNCHANGED <<modelVars, tokenVars, pos, steps, last_token, output,
                       cache>>

\* print_token, the next position, and the loop's two ends.
Emit(full) ==
    /\ phase = "sample" /\ chosen \notin {NoToken, params.eos_token_id}
    /\ output' = Append(output, chosen)
    /\ last_token' = chosen /\ pos' = pos + 1 /\ steps' = steps + 1
    /\ LET ends == full \/ steps + 1 = MaxTokens
       IN  /\ phase' = IF ends THEN "shell" ELSE "generate"
           /\ visible' = ends
    /\ ForgetSample
    /\ UNCHANGED <<modelVars, tokenVars, cache>>

\* (mutant) the limit of the context is noticed one position late.
PrintTokenLate == Emit(pos >= params.context_length)

PrintToken == Emit(pos + 1 >= params.context_length)

Llm == \/ Tokenize \/ StartPrefill \/ Prefill \/ StartGenerate
       \/ \E w \in [Ids -> Weights], enough \in BOOLEAN : Generate(w, enough)
       \/ Sample \/ Stop \/ PrintToken

Next == Boot \/ (\E prompt \in Prompts : StartLlm(prompt)) \/ Llm

\* The boot core runs without waiting for anything but the user.
Spec == Init /\ [][Next]_vars /\ WF_vars(Boot) /\ WF_vars(Llm)
-----------------------------------------------------------------------------
(* Properties. *)

Running == phase \in {"prefill", "generate", "sample"}
History == tokens \o output

TypeOK ==
    /\ stage \in {"pairs", "table", "loaded", "failed", "undone"}
    /\ Running \/ phase \in {"boot", "shell", "tokenize", "undone"}
    /\ \A b \in Buffers : size[b] \in Nat \cup {Null}
    /\ at \in 0 .. Len(preprocessed) /\ Len(preprocessed) < MaxText
    /\ Len(tokens) <= TokenSlots
    /\ Running => \A k \in DOMAIN History : History[k] \in Ids
    /\ pos \in Nat /\ steps \in 0 .. MaxTokens /\ Len(output) = steps
    /\ chosen \in Ids \cup {NoToken}
    /\ \A t \in Cells : \E k \in Cells : /\ indices[k] = t
                                       /\ probs[k] = Shares(weight)[t]
    /\ visible \in BOOLEAN
    /\ ScansStop

\* Attention at a position reads the rows up to it in each layer: each is of
\* that layer and of the token that this command's text has there, none is left
\* from an earlier command, none is missing, none is another layer's.
RowsHoldHistory ==
    Running =>
        \A l \in Layers, p \in 0 .. (IF phase = "sample" THEN pos ELSE pos - 1) :
            /\ Row(l, p) \in DOMAIN cache
            /\ cache[Row(l, p)] = Filled(l, History[p + 1])

\* They are, if the prompt's tokens are no more than the context: generation
\* keeps to it.  What is run next is the history's last token.
CacheHoldsHistory ==
    /\ Len(tokens) <= params.context_length => RowsHoldHistory
    /\ Running => /\ phase # "prefill" => Len(History) = pos + 1
                  /\ last_token = History[pos + 1]

\* How far transformer_forward and what follows reach into a buffer, at
\* position p.  d_q is the buffer of Q, and of the attention's output.
Extent(b, p) ==
    LET heads == params.head_count
        kv == params.head_count_kv
        group == heads \div kv
        row == kv * head_dim
        before == (params.block_count - 1) * params.context_length * row
    IN  CASE b \in {"x", "x_norm"} -> params.embedding_length
          [] b = "q" -> Greatest({heads * head_dim_q + (head_dim_q % 2),
                                  (heads - 1) * head_dim_q + head_dim,
                                  params.embedding_length})
          [] b = "k" -> row + (head_dim % 2)
          [] b = "v" -> row
          [] b = "scores" -> p + 1
          [] b = "attn_out" -> heads * head_dim
          [] b \in {"gate", "up", "ffn"} -> params.feed_forward_length
          [] b = "logits" -> Greatest({params.vocab_size, LoggedLogits})
          [] b \in {"k_cache", "v_cache"} ->
                before + p * row
                + Greatest({row, ((heads - 1) \div group + 1) * head_dim})

\* What the code takes for granted of a file.
Fits == /\ params.head_count % params.head_count_kv = 0
        /\ head_dim % 2 = 0 /\ head_dim_q % 2 = 0 /\ head_dim <= head_dim_q
        /\ params.embedding_length <= params.head_count * head_dim_q
        /\ params.vocab_size >= LoggedLogits
        /\ params.context_length >= TokenSlots

\* With a file of such dimensions no access leaves its buffer, whatever the
\* prompt and however long the answer; and the caches stay below their limit
\* unless the context is the least there is.
BuffersHold ==
    (phase \in {"prefill", "generate"}) =>
        /\ Fits => \A b \in Buffers : Extent(b, pos) <= size[b]
        /\ \/ size["k_cache"] + size["v_cache"] <= MaxCache
           \/ params.context_length = MinContext

\* Every command comes to an end, and the screen is on when it does.
LlmReturns == phase = "tokenize" ~> phase = "shell" /\ visible
=============================================================================
