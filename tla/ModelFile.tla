----------------------------- MODULE ModelFile ------------------------------
(***************************************************************************)
(* gguf_init of gguf.c: the walk over the model file's key/value pairs,    *)
(* the dimensions it derives, the limit it puts on the context, and the    *)
(* buffers it allocates for transformer_forward.  Sizes count floats.      *)
(*                                                                         *)
(* A file is the sequence of its pairs (a key gguf_init does not know      *)
(* stands for all of those) and the lengths of layer 0's attn_q_norm and   *)
(* attn_k_norm, 0 where it has no such tensor.  Bytes, tensor data and     *)
(* types are left out; malloc returns NULL for a length of zero.           *)
(***************************************************************************)
EXTENDS Integers, Sequences, FiniteSets

CONSTANTS Files,        \* files the machine may have been given
          NoFile,       \* no model, or one with other magic bytes
          MaxCache,     \* both caches together may take 2 GB
          MinContext,   \* 256
          FailureSets   \* bound: sets of mallocs that return NULL together

Buffers == {"x", "x_norm", "q", "k", "v", "scores", "attn_out", "gate", "up",
            "ffn", "logits", "k_cache", "v_cache"}
Tested == {"x", "logits", "k_cache", "v_cache"}
Null == -1

Defaults == [block_count |-> 0, context_length |-> 0, embedding_length |-> 0,
             feed_forward_length |-> 0, head_count |-> 0, head_count_kv |-> 0,
             vocab_size |-> 0, bos_token_id |-> 1, eos_token_id |-> 2,
             unk_token_id |-> 0, add_bos_token |-> -1]

\* "other" is any key gguf_init does not know; the value of "scores" is the
\* number of them.
Pairs == [key : {"tokens"}, value : Seq(Seq(0 .. 255))]
         \cup [key : DOMAIN Defaults \cup {"scores", "other"}, value : Int]

ASSUME ModelAssumption ==
    /\ MaxCache \in Nat \ {0} /\ MinContext \in Nat \ {0}
    /\ \A f \in Files : f.pairs \in Seq(Pairs)
    /\ FailureSets \subseteq SUBSET (Buffers \cup {"vocab", "table"})

VARIABLES
    stage,    \* of gguf_init: "pairs", "table", "loaded", "failed"; "undone"
              \* once it reads or writes past the vocabulary
    file, pairs,                 \* the file, and its pairs not yet read
    failing,                     \* the mallocs that return NULL
    params,                      \* the static variables the pairs are read into
    head_dim, head_dim_q, size,  \* derived, and the buffers' lengths
    vocab                        \* the tokens' strings; <<>> for NULL

modelVars == <<stage, file, pairs, failing, params, head_dim, head_dim_q, size,
               vocab>>

ModelInit ==
    /\ file \in Files \cup {NoFile} /\ failing \in FailureSets
    /\ stage = IF file = NoFile THEN "failed" ELSE "pairs"
    /\ pairs = IF file = NoFile THEN <<>> ELSE file.pairs
    /\ params = Defaults /\ vocab = <<>>
    /\ head_dim = 0 /\ head_dim_q = 0 /\ size = [b \in Buffers |-> Null]

\* parse_value: the last pair of a key counts; vocab_size is set by a key of
\* its own and by the list of tokens, even without memory for their strings.
\* Each score is written beside a string, whether or not there is one.
ReadPair ==
    /\ stage = "pairs" /\ pairs # <<>>
    /\ LET key == Head(pairs).key
           value == Head(pairs).value
       IN  /\ params' = IF key = "tokens"
                        THEN [params EXCEPT !.vocab_size = Len(value)]
                        ELSE IF key \in DOMAIN params
                             THEN [params EXCEPT ![key] = value]
                             ELSE params
           /\ vocab' = IF key # "tokens" THEN vocab
                       ELSE IF "vocab" \in failing THEN <<>> ELSE value
           /\ stage' = IF key = "scores" /\ vocab # <<>> /\ value > Len(vocab)
                       THEN "undone" ELSE stage
    /\ pairs' = Tail(pairs)
    /\ UNCHANGED <<file, failing, head_dim, head_dim_q, size>>

-----------------------------------------------------------------------------
(* What follows the pairs. *)

KvHeads == IF params.head_count_kv = 0 THEN params.head_count
           ELSE params.head_count_kv

\* The length of a norm tensor is a head's, unless it exceeds the embedding's.
HeadDim(norm, heads) ==
    IF norm = 0 THEN params.embedding_length \div params.head_count
    ELSE IF norm > params.embedding_length THEN norm \div heads
    ELSE norm

PowerBelow(n) ==
    LET powers == {p \in 1 .. n : \E k \in 0 .. 30 : p = 2^k} \cup {1}
    IN  CHOOSE p \in powers : \A o \in powers : o <= p

\* context_length, given the length of a row of one cache in one layer.
Context(kv) ==
    LET row == 2 * params.block_count * kv
        most == PowerBelow(MaxCache \div row)
    IN  IF row * params.context_length <= MaxCache
        THEN params.context_length
        ELSE IF most < MinContext THEN MinContext ELSE most

\* The lengths asked for; hq and hd are the head dimensions, c the context.
Wanted(b, hq, hd, c) ==
    LET kv == KvHeads * hd
    IN  CASE b \in {"x", "x_norm"} -> params.embedding_length
          [] b = "q" -> params.head_count * hq
          [] b \in {"k", "v"} -> kv
          [] b = "scores" -> c
          [] b = "attn_out" -> params.head_count * hd
          [] b \in {"gate", "up", "ffn"} -> params.feed_forward_length
          [] b = "logits" -> params.vocab_size
          [] b \in {"k_cache", "v_cache"} -> params.block_count * c * kv

AllocateBuffers ==
    LET hq == HeadDim(file.q_norm, params.head_count)
        hd == HeadDim(file.k_norm, KvHeads)
        c == Context(KvHeads * hd)
        missing == {b \in Buffers : b \in failing \/ Wanted(b, hq, hd, c) = 0}
    IN  /\ stage = "pairs" /\ pairs = <<>>
        /\ head_dim_q' = hq /\ head_dim' = hd
        /\ params' = [params EXCEPT !.head_count_kv = KvHeads,
                                    !.context_length = c]
        /\ size' = [b \in Buffers |-> IF b \in missing THEN Null
                                      ELSE Wanted(b, hq, hd, c)]
        /\ stage' = IF missing \cap Tested = {} THEN "table" ELSE "failed"
        /\ UNCHANGED <<file, pairs, failing, vocab>>
=============================================================================
