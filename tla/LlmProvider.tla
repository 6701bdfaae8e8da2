---------------------------- MODULE LlmProvider ----------------------------
(***************************************************************************)
(* internal/llm: what the two providers make of the one reply their one    *)
(* HTTP request gets.  A text is a sequence of pieces.                     *)
(***************************************************************************)
EXTENDS Naturals, Sequences, SequencesExt

Providers == {"anthropic", "openai"}

\* What becomes of the request: no reply, a reply that breaks off, another
\* status than 200, a body that is no JSON, or an answer in parts.
Fates == {"lost", "cut", "refused", "garbled", "answered"}

Fails   == [ok |-> FALSE, text |-> << >>]
Says(t) == [ok |-> TRUE, text |-> t]

\* Mutant: only the first of the content blocks is read.
AnthropicFirst(parts) ==
  IF parts # << >> /\ parts[1].type = "text" THEN Says(parts[1].text) ELSE Fails

\* Content blocks: the text ones, put together; it may be that there are none.
Anthropic(parts) ==
  Says(FlattenSeq([i \in DOMAIN parts |->
                     IF parts[i].type = "text" THEN parts[i].text ELSE << >>]))

\* Choices: the first one.
OpenAI(parts) == IF parts = << >> THEN Fails ELSE Says(parts[1].text)

Generate(provider, reply) ==
  IF reply.fate # "answered" THEN Fails
  ELSE IF provider = "anthropic" THEN Anthropic(reply.parts) ELSE OpenAI(reply.parts)

=============================================================================
