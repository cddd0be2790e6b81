------------------------------ MODULE Runners ------------------------------
(***************************************************************************)
(* The speculative runners that build_runner of mlxturbo/runner.py may     *)
(* choose when a model is loaded: SpecRunner (SpecEngine), FlashSpecRunner *)
(* (FlashSpecEngine), LookupSpecRunner (LookupSpec) or                     *)
(* Gemma4AssistantRunner (GemmaAssistant). The choice is made once; the    *)
(* server then makes the same calls of each, on the same kind of session,  *)
(* and is promised the same of each: PlainDecode.                          *)
(***************************************************************************)
EXTENDS Integers, Sequences, Vocabulary

CONSTANTS
  Eos, Support(_), Budgets,          \* see PlainDecode and the engines
  SpecPrompts, FlashPrompts, LookupPrompts, GemmaPrompts,
  PrefillStep, Retention,
  DraftCap, LookupLen, SpecTail,                            \* of SpecEngine
  Depth, Group, FlashTail, PrimeWindow, ContextLen, Knobs,  \* of FlashSpecEngine
  MaxDraft, MinMatch, BlockSize,     \* of LookupSpec, of GemmaAssistant
  Windows                            \* the sliding windows of their models

VARIABLES
  runner,   \* the runner that was built
  knobs,    \* what it was built with: the switches of flash, or max_size
  mode,     \* what a call asks of it: use_mtp, or greedy
  sess, st, prompt, budget, out, gen   \* see the engines

vars == <<runner, knobs, mode, sess, st, prompt, budget, out, gen>>

S == INSTANCE SpecEngine WITH
       Prompts <- SpecPrompts, CheckpointTail <- SpecTail, useMtp <- mode
F == INSTANCE FlashSpecEngine WITH
       Prompts <- FlashPrompts, Step <- PrefillStep, TailSize <- FlashTail, greedy <- mode
L == INSTANCE LookupSpec WITH Prompts <- LookupPrompts, window <- knobs
G == INSTANCE GemmaAssistant WITH Prompts <- GemmaPrompts, window <- knobs

ASSUME SpecAssumption ==
  S!VocabularyAssumption /\ S!PromptsAssumption /\ S!SizesAssumption
ASSUME FlashAssumption ==
  F!PromptsAssumption /\ F!SizesAssumption /\ F!KnobsAssumption
ASSUME LookupAssumption == L!PromptsAssumption /\ L!SizesAssumption
ASSUME GemmaAssumption == G!PromptsAssumption /\ G!SizesAssumption
ASSUME WindowsAssumption == Windows \subseteq Nat \ {0, 1}

Init ==
  \/ runner = "spec" /\ knobs = 0 /\ S!Init
  \/ runner = "flash" /\ mode = TRUE /\ F!Init
  \/ runner = "lookup" /\ mode = TRUE /\ knobs \in Windows /\ L!Init
  \/ runner = "gemma" /\ mode = TRUE /\ knobs \in Windows /\ G!Init

Generic == runner = "spec" /\ S!Next /\ UNCHANGED <<runner, knobs>>
Flash == runner = "flash" /\ F!Next /\ UNCHANGED runner
Lookup == runner = "lookup" /\ L!Next /\ UNCHANGED <<runner, mode>>
Gemma == runner = "gemma" /\ G!Next /\ UNCHANGED <<runner, mode>>

Next == Generic \/ Flash \/ Lookup \/ Gemma

Spec == Init /\ [][Next]_vars

(***************************************************************************)
(* Properties                                                              *)
(***************************************************************************)
(* Whichever runner serves, every cache of a session and of a call stands  *)
(* for exactly the tokens it is said to stand for: after rejected drafts,  *)
(* answers cut short, reuse, rewinds and calls that failed.                *)
CachesFollow ==
  CASE runner = "spec"   -> S!CachesFollow
    [] runner = "flash"  -> F!CachesFollow
    [] runner = "lookup" -> L!LookupFollows
    [] runner = "gemma"  -> G!GemmaFollows

(* A prompt is prefilled in the chunks of the plain prefill, whatever is   *)
(* run layer by layer (spec_flash.py:2268-2269).                           *)
GridKept == runner = "flash" => F!GridKept

(* The suffix automaton knows the longest repeat of the history, where it  *)
(* occurred, and the one any next token would make (sam.py:73-80, 160-172).*)
MatchesGenuine == runner = "lookup" => L!MatchesGenuine

Plain == INSTANCE PlainDecode

(* Speculation is lossless: whatever is drafted, guessed ahead, reused,    *)
(* restored or rolled back, the answer is one that decoding token by token *)
(* could give (spec.py:1132-1164, spec_flash.py:1963-1967), within         *)
(* max_tokens and with nothing after its end.                              *)
Lossless == Plain!Spec
=============================================================================
