---------------------------- MODULE MCInference ----------------------------
(* Small files, vocabularies and prompts for Inference. *)
EXTENDS Inference

a == 97
b == 98
Pair(k, v) == [key |-> k, value |-> v]
Dims(layers, context, heads, kv) ==
    <<Pair("block_count", layers), Pair("context_length", context),
      Pair("embedding_length", 4), Pair("feed_forward_length", 3),
      Pair("head_count", heads)>>
    \o (IF kv = 0 THEN <<>> ELSE <<Pair("head_count_kv", kv)>>)

\* SentencePiece, with a token that is a byte's name; the end is token 3.
Marked == <<Mark, <<a>>, ByteName(b), <<Mark[1], Mark[2]>> >>
\* Byte-pair, with a string that two tokens share and a prefix of another.
Paired == << <<a>>, <<a, b>>, <<a>>, <<196, 160>> >>

Ending == <<Pair("eos_token_id", 3)>>

McFiles ==
    { [pairs |-> Dims(2, 4, 2, 1) \o <<Pair("tokens", Marked)>> \o Ending,
       q_norm |-> 0, k_norm |-> 0],
      \* norms of their own, no beginning-of-text token, too long a context
      [pairs |-> <<Pair("add_bos_token", 0), Pair("other", 0)>>
                 \o Dims(1, 64, 2, 0) \o <<Pair("tokens", Paired)>> \o Ending,
       q_norm |-> 8, k_norm |-> 2],
      \* heads narrower than the embedding
      [pairs |-> <<Pair("tokens", Paired)>> \o Ending \o Dims(1, 4, 1, 1),
       q_norm |-> 2, k_norm |-> 2],
      \* more scores than tokens, more tokens counted than listed
      [pairs |-> <<Pair("scores", 4), Pair("tokens", Paired)>> \o Dims(1, 4, 2, 1)
                 \o <<Pair("scores", 5)>>,
       q_norm |-> 0, k_norm |-> 0],
      [pairs |-> Dims(1, 4, 2, 1)
                 \o <<Pair("tokens", Paired), Pair("vocab_size", 5)>>,
       q_norm |-> 0, k_norm |-> 0],
      \* a context shorter than the prompt
      [pairs |-> Dims(2, 2, 2, 1) \o <<Pair("tokens", Paired)>> \o Ending,
       q_norm |-> 0, k_norm |-> 0] }

\* exp may be negative
McWeights == {-4, 1, 9}

McPrompts == { <<a>>, <<Space, a>>, <<a, b, a>>, <<b, a>> }
McFailures == { {}, {"table"}, {"q"}, {"logits"}, {"vocab"} }
=============================================================================
