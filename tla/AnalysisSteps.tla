---------------------------- MODULE AnalysisSteps ----------------------------
(***************************************************************************)
(* The data of a composition analysis (apps/content_generation/openai):    *)
(* how the composition of a product is cut into steps, what one step asks  *)
(* OpenAI for, what the answer costs.  Operators only; module AnalysisFlow *)
(* runs them.                                                              *)
(*                                                                         *)
(* A name of the composition is a pair <<word, separator>>: the separator  *)
(* is a space or an underscore between its parts, all that the key of the  *)
(* JSON schema loses.  A text counts one token for each name in it.        *)
(***************************************************************************)
EXTENDS Integers, Sequences, SequencesExt

CONSTANTS
  StepSize,       \* MAX_ELEMENTS_IN_STEP (10 in the code)
  Dangerous,      \* words OpenAI calls dangerous
  Banned          \* words OpenAI reports as banned somewhere

ASSUME StepSizeAssumption == StepSize \in Nat \ {0}

Word(name) == name[1]

-----------------------------------------------------------------------------
(* The plan: element steps of StepSize names, then one for the conclusion  *)

ElementSteps(composition) == (Len(composition) + StepSize - 1) \div StepSize
TotalSteps(composition) == ElementSteps(composition) + 1

\* Mutant of TaskStep: the slice of a step stops one name short.
TaskStepShort(composition, n) ==
  LET start == (n - 1) * StepSize
  IN  IF n < TotalSteps(composition)
      THEN [number |-> n, last |-> FALSE, offset |-> start + 1,
            elements |-> SubSeq(composition, start + 1,
                                IF start + StepSize <= Len(composition)
                                THEN start + StepSize - 1 ELSE Len(composition))]
      ELSE [number |-> n, last |-> TRUE, offset |-> Len(composition) + 1, elements |-> <<>>]

\* detailed_analysis_composition: step n of the plan.
TaskStep(composition, n) ==
  LET start == (n - 1) * StepSize
  IN  IF n < TotalSteps(composition)
      THEN [number |-> n, last |-> FALSE, offset |-> start + 1,
            elements |-> SubSeq(composition, start + 1,
                                IF start + StepSize <= Len(composition)
                                THEN start + StepSize ELSE Len(composition))]
      ELSE [number |-> n, last |-> TRUE, offset |-> Len(composition) + 1, elements |-> <<>>]

-----------------------------------------------------------------------------
(* The request of a step                                                   *)

\* One key for each word of the step, in the order of its first occurrence:
\* the keys of a Python dict.
ElementKeys(elements) ==
  LET first(i) == \A j \in 1 .. i - 1 : Word(elements[j]) # Word(elements[i])
      add(keys, i) == IF first(i) THEN Append(keys, Word(elements[i])) ELSE keys
  IN  FoldLeftDomain(LAMBDA keys, i : add(keys, i), <<>>, elements)

\* create_js_detailed_analysis_each_element_of_composition: under strict
\* every property is required.
JsonScheme(product, step) ==
  [origin |-> product.article, elements |-> ElementKeys(step.elements), result |-> step.last]

SpecialistOf(type) ==
  CASE type \in {"shampoo", "balm", "hair mask", "scalp lotion"} -> "trichologist"
    [] type \in {"face cream", "serum", "cleansing gel", "tonic"} -> "cosmetologist"
    [] type \in {"foot cream", "heel ointment"} -> "podologist"
    [] type \in {"toothpaste", "mouthwash"} -> "dentist"
    [] type \in {"body gel", "body lotion"} -> "dermatologist"
    [] OTHER -> "DEFAULT"

\* format_composition_elements
Numbered(elements, start) == [i \in DOMAIN elements |-> <<start + i - 1, elements[i]>>]

\* PromptProcessingData and PromptConstructor: the conclusion gets the whole
\* composition, an element step the numbered names of the step.
Prompts(product, step) ==
  [system |-> SpecialistOf(product.type),
   article |-> product.article,
   names |-> IF step.last THEN Numbered(product.composition, 1)
             ELSE Numbered(step.elements, step.offset),
   conclude |-> step.last]

\* formation_context: a message of the system and one of the user.
Context(prompts) == <<[role |-> "system", text |-> <<prompts.system>>],
                      [role |-> "user", text |-> prompts.names]>>

HEADER_TOKENS_COUNT == 4
ADD_INDENTATION == 1
ADD_TOKENS_FOR_STOCK == 5

\* main_count_tokens
CountTokens(context, scheme) ==
  LET text == FoldLeft(LAMBDA n, message : n + Len(message.text), 0, context)
      json == Len(scheme.elements) + 1
  IN  text + json + (Len(context) + ADD_INDENTATION) * HEADER_TOKENS_COUNT
        + ADD_TOKENS_FOR_STOCK

\* create_request_details, with the count that get_access_key adds.
RequestDetails(product, n) ==
  LET step    == TaskStep(product.composition, n)
      scheme  == JsonScheme(product, step)
      prompts == Prompts(product, step)
  IN  [target |-> "text", scheme |-> scheme, prompts |-> prompts,
       tokens |-> CountTokens(Context(prompts), scheme)]

-----------------------------------------------------------------------------
(* The answer of OpenAI                                                    *)

\* What OpenAI says of one element: strict structured output fills every
\* field of the schema, in the order of the schema.
ElementAnswer(word) ==
  [title |-> word, danger |-> word \in Dangerous,
   stop |-> IF word \in Banned THEN "banned" ELSE "not banned"]

Message(scheme, text) ==
  [origin |-> scheme.origin,
   elements |-> [i \in DOMAIN scheme.elements |-> ElementAnswer(scheme.elements[i])],
   result |-> IF scheme.result THEN <<text>> ELSE <<>>]

\* Prices of gpt-4o-mini, in units of 10^-8 USD, and a rate of the rouble.
PRICE_ONE_TOKEN_PROMPT_USD == 15
PRICE_ONE_TOKEN_RESPONSE_USD == 60
USD_TO_RUB == 90

\* calculates_cost of the usage OpenAI reports.
CostOf(prompt, completion) ==
  LET part(tokens, usd) == [tokens |-> tokens, USD |-> usd, RUB |-> usd * USD_TO_RUB]
      usdPrompt == prompt * PRICE_ONE_TOKEN_PROMPT_USD
      usdCompletion == completion * PRICE_ONE_TOKEN_RESPONSE_USD
  IN  [prompt |-> part(prompt, usdPrompt),
       completion |-> part(completion, usdCompletion),
       total |-> part(prompt + completion, usdPrompt + usdCompletion)]

\* _generate_if_success: the message and its price.
Answer(product, n, text) ==
  LET request == RequestDetails(product, n)
      message == Message(request.scheme, text)
  IN  [message |-> message, cost |-> CostOf(request.tokens, Len(message.elements) + 1)]
=============================================================================
