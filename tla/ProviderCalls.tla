--------------------------- MODULE ProviderCalls ----------------------------
(***************************************************************************)
(* Calls of the model provider: one completion, plain or structured        *)
(* (llm/client.py), or the embeddings of a list of texts, split into       *)
(* batches (retrieval/embeddings.py).  Every request is retried on         *)
(* transient errors; every answer is validated before any of it is used.   *)
(* The async variants take the same steps.                                 *)
(***************************************************************************)
EXTENDS Integers, SequencesExt

CONSTANTS MaxRetries,     \* llm_max_retries
          BatchSize,      \* EmbeddingConfig.batch_size
          MaxBatchChars,  \* EmbeddingConfig.max_batch_chars
          Inputs,         \* lists of texts to embed, each text by its length
          Dimensions      \* the sizes of vector a provider may answer with

ASSUME ProviderAssumption ==
    /\ MaxRetries \in Nat /\ {BatchSize, MaxBatchChars} \subseteq Nat \ {0}
    /\ \A input \in Inputs : input \in Seq(Nat)

VARIABLES operation, \* text, structured or embedding
          texts,     \* the texts to embed
          batches,   \* the batches that are left, as sequences of indices of texts
          attempt,   \* attempt of the current request, from 0
          delay,     \* seconds slept before this attempt
          vectors,   \* the embeddings so far
          requests,  \* ghost: the requests sent, each with what it asked for
          billed,    \* model.usage events: requests the provider answered
          phase      \* requesting, sleeping, done, or failed

providerVars == <<operation, texts, batches, attempt, delay, vectors, requests, billed, phase>>

\* Mutant: a text joins the batch if what is there leaves room at all.
BatchesLoose(input) ==
    LET Add(acc, i) ==
          IF acc.batch # <<>> /\ (Len(acc.batch) >= BatchSize \/ acc.chars > MaxBatchChars)
            THEN [full |-> Append(acc.full, acc.batch), batch |-> <<i>>, chars |-> input[i]]
            ELSE [acc EXCEPT !.batch = Append(@, i), !.chars = @ + input[i]]
        split == FoldLeft(Add, [full |-> <<>>, batch |-> <<>>, chars |-> 0],
                          [i \in 1..Len(input) |-> i])
    IN IF split.batch = <<>> THEN split.full ELSE Append(split.full, split.batch)
\* _batches: at most BatchSize texts and MaxBatchChars characters, except that a text
\* which is too long alone has a batch of its own.
Batches(input) ==
    LET Add(acc, i) ==
          IF acc.batch # <<>> /\ (Len(acc.batch) >= BatchSize \/ acc.chars + input[i] > MaxBatchChars)
            THEN [full |-> Append(acc.full, acc.batch), batch |-> <<i>>, chars |-> input[i]]
            ELSE [acc EXCEPT !.batch = Append(@, i), !.chars = @ + input[i]]
        split == FoldLeft(Add, [full |-> <<>>, batch |-> <<>>, chars |-> 0],
                          [i \in 1..Len(input) |-> i])
    IN IF split.batch = <<>> THEN split.full ELSE Append(split.full, split.batch)

\* _validate_texts: an empty text is refused before anything is sent.
Valid(input) == \A i \in 1..Len(input) : input[i] > 0

ProviderInit ==
    /\ operation \in {"text", "structured", "embedding"}
    /\ IF operation = "embedding"
         THEN /\ texts \in Inputs
              /\ batches = IF Valid(texts) THEN Batches(texts) ELSE <<>>
              /\ phase = IF ~Valid(texts) THEN "failed"
                        ELSE IF texts = <<>> THEN "done" ELSE "requesting"
         ELSE texts = <<>> /\ batches = <<<<>>>> /\ phase = "requesting"
    /\ attempt = 0 /\ delay = 0
    /\ vectors = <<>> /\ requests = <<>> /\ billed = 0

\* model.attempt, and the request.
Sent == requests' = Append(requests, Head(batches))
-----------------------------------------------------------------------------
(* What a provider may answer to a batch of embeddings. *)

\* An item has the index it claims and a vector; what a provider puts under an index is
\* the vector of the text at that index of the request.
\* -1 stands for an index that is negative or no integer.
Items(batch) == [index : -1..Len(batch), dim : Dimensions \cup {"invalid"}]
Answers(batch) == UNION {[1..n -> Items(batch)] : n \in 0..(Len(batch) + 1)}

\* _normalize_response: every index of the batch exactly once, every vector valid, all of
\* one dimension.
Acceptable(answer, batch) ==
    /\ \A i \in DOMAIN answer : answer[i].index \in 0..(Len(batch) - 1) /\ answer[i].dim # "invalid"
    /\ \A i, k \in DOMAIN answer : answer[i].index = answer[k].index => i = k
    /\ {answer[i].index : i \in DOMAIN answer} = 0..(Len(batch) - 1)
    /\ \A i, k \in DOMAIN answer : answer[i].dim = answer[k].dim

Vector(batch, item) == [of |-> batch[item.index + 1], dim |-> item.dim]

\* Mutant: the vectors in the order in which they arrived.
OrderedAsSent(answer, batch) == [i \in 1..Len(batch) |-> Vector(batch, answer[i])]
\* The vectors in the order of the batch, whatever the order of the answer.
Ordered(answer, batch) ==
    [i \in 1..Len(batch) |->
        Vector(batch, answer[CHOOSE k \in DOMAIN answer : answer[k].index = i - 1])]

\* _ensure_consistent_dimensions over all batches, when there are no more of them.
Consistent(all) == \A i, k \in 1..Len(all) : all[i].dim = all[k].dim
-----------------------------------------------------------------------------
(* One attempt. *)

AnswerEmbedding ==
    /\ phase = "requesting" /\ operation = "embedding"
    /\ Sent /\ billed' = billed + 1
    /\ \E answer \in Answers(Head(batches)) :
         IF Acceptable(answer, Head(batches))
           THEN /\ vectors' = vectors \o Ordered(answer, Head(batches))
                /\ batches' = Tail(batches)
                /\ phase' = IF batches' # <<>> THEN "requesting"
                           ELSE IF Consistent(vectors') THEN "done" ELSE "failed"
           ELSE phase' = "failed" /\ UNCHANGED <<vectors, batches>>
    /\ attempt' = 0 /\ delay' = 0
    /\ UNCHANGED <<operation, texts>>

\* A completion is used if it has a choice with content, or a parsed object.
AnswerCompletion ==
    /\ phase = "requesting" /\ operation # "embedding"
    /\ Sent /\ billed' = billed + 1
    /\ phase' \in {"done", "failed"}
    /\ UNCHANGED <<operation, texts, batches, attempt, delay, vectors>>

\* Mutant: the attempts are counted from one in the test and from zero in the loop.
TransientOffByOne ==
    /\ phase = "requesting"
    /\ Sent
    /\ phase' = IF attempt > MaxRetries THEN "failed" ELSE "sleeping"
    /\ UNCHANGED <<operation, texts, batches, attempt, delay, vectors, billed>>
\* A connection error, a timeout, a rate limit or a server error.
Transient ==
    /\ phase = "requesting"
    /\ Sent
    /\ phase' = IF attempt >= MaxRetries THEN "failed" ELSE "sleeping"
    /\ UNCHANGED <<operation, texts, batches, attempt, delay, vectors, billed>>

\* Any other error of the API or of the SDK.
Fatal ==
    /\ phase = "requesting"
    /\ Sent
    /\ phase' = "failed"
    /\ UNCHANGED <<operation, texts, batches, attempt, delay, vectors, billed>>

\* _retry_delay: doubling from one second, at most eight.
Sleep ==
    /\ phase = "sleeping"
    /\ delay' = IF 2^attempt > 8 THEN 8 ELSE 2^attempt
    /\ attempt' = attempt + 1
    /\ phase' = "requesting"
    /\ UNCHANGED <<operation, texts, batches, vectors, requests, billed>>

ProviderNext == AnswerEmbedding \/ AnswerCompletion \/ Transient \/ Fatal \/ Sleep
ProviderSpec == ProviderInit /\ [][ProviderNext]_providerVars
-----------------------------------------------------------------------------
(* Properties. *)

\* No request exceeds what the provider takes, except for a single text that does so by
\* itself, and none is sent for a text that a finished request already answered.
RequestsBounded ==
    \A i \in 1..Len(requests) :
        /\ Len(requests[i]) <= BatchSize
        /\ Len(requests[i]) > 1 =>
             FoldLeft(LAMBDA sum, t : sum + texts[t], 0, requests[i]) <= MaxBatchChars
        /\ \A k \in 1..(i - 1) : requests[k] = requests[i] \/
              (\A m \in ToSet(requests[k]), n \in ToSet(requests[i]) : m < n)

\* A finished call returns exactly one vector for every text, in the order of the texts
\* and of one size, however the texts were split, the requests repeated and the answers
\* ordered; a retry repeats its request in full, no request is sent more than
\* MaxRetries + 1 times, and none is larger than the provider takes.
EmbeddingsAligned ==
    /\ phase = "done" /\ operation = "embedding" =>
         /\ [i \in 1..Len(vectors) |-> vectors[i].of] = [i \in 1..Len(texts) |-> i]
         /\ Consistent(vectors)
    /\ \A i \in 1..Len(requests) :
         Cardinality({k \in 1..Len(requests) : requests[k] = requests[i]}) <= MaxRetries + 1
    /\ RequestsBounded
=============================================================================
