----------------------------- MODULE Tokenizer ------------------------------
(***************************************************************************)
(* The vocabulary of gguf.c: build_vocab_hash_table, find_token_by_str     *)
(* over the table or without it, preprocess_text and tokenize.             *)
(*                                                                         *)
(* Strings are sequences of bytes; a token's number is its place in vocab  *)
(* less one.                                                               *)
(***************************************************************************)
EXTENDS ModelFile

CONSTANTS HashSize,     \* HASH_SIZE, a power of two
          MaxMatch,     \* the longest string tokenize looks up: 64
          MaxText       \* the bytes of preprocessed: 1024

ASSUME TokenizerAssumption ==
    /\ HashSize \in Nat \ {0} /\ MaxMatch \in Nat \ {0}
    /\ MaxText \in Nat \ (0 .. 3)

VARIABLES
    table,             \* hash_entries by bucket, or <<>> for NULL
    is_sentencepiece,
    preprocessed, at,  \* the text, and how far tokenize has come in it
    tokens             \* what it has found

tokenVars == <<table, is_sentencepiece, preprocessed, at, tokens>>

Space == 32
Mark == <<226, 150, 129>>       \* U+2581, which stands for a space
Ids == 0 .. params.vocab_size - 1
String(t) == vocab[t + 1]

-----------------------------------------------------------------------------
(* The table. *)

Hash(s) == LET h[k \in 0 .. Len(s)] ==
                 IF k = 0 THEN 5381 % HashSize
                 ELSE (h[k - 1] * 33 + s[k]) % HashSize
           IN  h[Len(s)]

\* The tokens of a bucket, the one entered last in front.
Chain(h) == LET c[t \in (-1) .. params.vocab_size - 1] ==
                  IF t = -1 THEN <<>>
                  ELSE IF Hash(String(t)) = h THEN <<t>> \o c[t - 1]
                  ELSE c[t - 1]
            IN  c[params.vocab_size - 1]

HasMark == \E t \in Ids : \E k \in 0 .. Len(String(t)) - 3 :
               SubSeq(String(t), k + 1, k + 3) = Mark

\* Without memory for the table, what it would have detected stays as it was.
\* With it, vocab_size strings are read, even where there are not as many.
BuildTable ==
    /\ stage = "table"
    /\ IF "table" \in failing
       THEN stage' = "loaded" /\ UNCHANGED <<table, is_sentencepiece, params>>
       ELSE IF params.vocab_size > Len(vocab)
       THEN stage' = "undone" /\ UNCHANGED <<table, is_sentencepiece, params>>
       ELSE /\ stage' = "loaded"
            /\ table' = [h \in 0 .. HashSize - 1 |-> Chain(h)]
            /\ is_sentencepiece' = HasMark
            /\ params' = [params EXCEPT !.add_bos_token =
                            IF @ # (-1) THEN @ ELSE IF HasMark THEN 1 ELSE 0]
    /\ UNCHANGED <<file, pairs, failing, head_dim, head_dim_q, size, vocab,
                   preprocessed, at, tokens>>

\* find_token_by_str: along the bucket, or from the front of the vocabulary.
Candidates(s) == IF table = <<>> THEN [k \in 1 .. params.vocab_size |-> k - 1]
                 ELSE table[Hash(s)]

Find(s) == LET c == Candidates(s)
               hits == {k \in DOMAIN c : String(c[k]) = s}
           IN  IF hits = {} THEN -1
               ELSE c[CHOOSE k \in hits : \A o \in hits : k <= o]

-----------------------------------------------------------------------------
(* preprocess_text. *)

CodePoint(b) == IF b <= 32 THEN 256 + b
                ELSE IF b \in 127 .. 160 THEN 289 + (b - 127)
                ELSE IF b = 173 THEN 323
                ELSE b

Encoded(u) == IF u <= 127 THEN <<u>> ELSE <<192 + (u \div 64), 128 + (u % 64)>>

Prepared(b) == IF ~ is_sentencepiece THEN Encoded(CodePoint(b))
               ELSE IF b = Space THEN Mark
               ELSE <<b>>

\* What is left of a prompt that does not fit is cut off.
Preprocess(prompt) ==
    LET start == IF is_sentencepiece /\ prompt[1] # Space THEN Mark
                 ELSE <<>>
        limit == MaxText - (IF is_sentencepiece THEN 4 ELSE 3)
        f[k \in 0 .. Len(prompt)] ==
            IF k = 0 THEN start
            ELSE IF Len(f[k - 1]) < limit THEN f[k - 1] \o Prepared(prompt[k])
            ELSE f[k - 1]
    IN  f[Len(prompt)]

-----------------------------------------------------------------------------
(* tokenize. *)

StartTokens == IF params.add_bos_token # 0 THEN <<params.bos_token_id>>
               ELSE <<>>

\* <0xXX>, a token for a single byte.
Digit(d) == IF d < 10 THEN 48 + d ELSE 55 + d
ByteName(b) == <<60, 48, 120, Digit(b \div 16), Digit(b % 16), 62>>

Piece(l) == SubSeq(preprocessed, at + 1, at + l)
Matches == {l \in 1 .. Len(preprocessed) - at :
               l <= MaxMatch /\ Find(Piece(l)) # (-1)}

\* (mutant) the shortest match wins, but the longest is consumed.
NextTokenShort ==
    LET longest == CHOOSE l \in Matches : \A o \in Matches : o <= l
        shortest == CHOOSE l \in Matches : \A o \in Matches : l <= o
    IN  IF Matches # {}
        THEN [id |-> Find(Piece(shortest)), len |-> longest]
        ELSE [id |-> params.unk_token_id, len |-> 1]

\* The longest match, or one byte by name, or as unknown.
NextToken ==
    LET longest == CHOOSE l \in Matches : \A o \in Matches : o <= l
        named == Find(ByteName(preprocessed[at + 1]))
    IN  IF Matches # {}
        THEN [id |-> Find(Piece(longest)), len |-> longest]
        ELSE [id |-> IF is_sentencepiece /\ named # (-1) THEN named
                     ELSE params.unk_token_id,
              len |-> 1]

TokenizeStep ==
    /\ at < Len(preprocessed)
    /\ tokens' = Append(tokens, NextToken.id)
    /\ at' = at + NextToken.len
    /\ UNCHANGED <<table, is_sentencepiece, preprocessed>>

-----------------------------------------------------------------------------
(* Properties. *)

\* Whether the vocabulary has s: the definition the table stands for.
Has(s) == \E t \in Ids : String(t) = s
Rest(o) == SubSeq(preprocessed, o + 1, Len(preprocessed))
IsPrefixOf(s, u) == Len(s) <= Len(u) /\ SubSeq(u, 1, Len(s)) = s

\* The lengths of text token t may stand for at offset o: its own string, a
\* byte it names, or a byte no token begins with.
Widths(t, o) ==
    (IF IsPrefixOf(String(t), Rest(o)) THEN {Len(String(t))} ELSE {})
    \cup (IF /\ Rest(o) # <<>> /\ \A u \in Ids : ~ IsPrefixOf(String(u), Rest(o))
             /\ IF is_sentencepiece /\ Has(ByteName(Head(Rest(o))))
                THEN t \in Ids /\ String(t) = ByteName(Head(Rest(o)))
                ELSE t = params.unk_token_id
          THEN {1} ELSE {})

\* How far the tokens after the first can have come, reading them in order.
Reach == LET skip == Len(StartTokens)
             r[k \in 0 .. Len(tokens) - skip] ==
                 IF k = 0 THEN {0}
                 ELSE UNION {{o + w : w \in Widths(tokens[k + skip], o)} :
                                o \in r[k - 1]}
         IN  r[Len(tokens) - skip]

\* The tokens spell the text consumed, with or without the table: nothing is
\* skipped or repeated, and only a byte no token begins with is given up.
TokensSpellPrompt == preprocessed # <<>> => at \in Reach
=============================================================================
