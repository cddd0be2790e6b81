--------------------------- MODULE GemmaAssistant ---------------------------
(***************************************************************************)
(* Gemma4AssistantRunner.generate of mlxturbo/gemma4_mtp.py: an assistant  *)
(* model drafts a block, the target verifies it, one call after another on *)
(* the session of a conversation. The target's sliding layers cannot be    *)
(* trimmed once they are full, so the runner cuts them itself, and the     *)
(* session is published as it was at the end of the prompt.                *)
(***************************************************************************)
EXTENDS WindowedSession

CONSTANTS
  Token, Eos, Support(_),   \* see PlainDecode
  Prompts, Budgets,         \* the prompts that arrive, and their max_tokens
  PrefillStep,              \* PREFILL_STEP_SIZE
  BlockSize                 \* block_size

VocabularyAssumption == Eos \subseteq Token
PromptsAssumption == Prompts \subseteq Seq(Token) \ {<<>>} /\ Budgets \subseteq Nat
SizesAssumption == {PrefillStep, BlockSize} \subseteq Nat \ {0}

VARIABLES
  window,   \* max_size of the sliding layers
  sess,     \* the FallbackSession
  st,       \* where the call in progress is
  prompt,   \* prompt_ids
  budget,   \* max_tokens
  out,      \* tokens
  gen       \* the locals of the call

vars == <<window, sess, st, prompt, budget, out, gen>>

(* A call: its cache, whether it came from the session, the hidden state   *)
(* of the token to feed next, and the boundary to restore.                 *)
Fresh == [c |-> NoCache, shared |-> FALSE, h |-> Unknown, boundary |-> NoCache]

Init ==
  /\ sess = Invalid
  /\ st = "idle"
  /\ prompt = <<>> /\ budget = 0 /\ out = <<>>
  /\ gen = Fresh

Draw(h) == IF h = Unknown THEN Token ELSE Support(h)

(* The selector rewinds the session to a shorter prefix. *)
Rewind ==
  /\ st = "idle"
  /\ sess.has /\ CanTrim(sess.c, window)
  /\ \E n \in 1..Len(sess.processed) : sess' = Rewound(sess, n, window)
  /\ UNCHANGED <<window, st, prompt, budget, out, gen>>

(* A call for no token takes the session over and gives nothing back. *)
Begin ==
  /\ st = "idle"
  /\ prompt' \in Prompts
  /\ budget' \in Budgets
  /\ out' = <<>>
  /\ IF budget' = 0 THEN UNCHANGED <<st, gen>>
     ELSE /\ st' = "prefill"
          /\ gen' = [Fresh EXCEPT !.c = CacheTaken(sess, prompt'),
                                  !.shared = Extends(sess, prompt')]
  /\ sess' = SessionTaken(sess, prompt')
  /\ UNCHANGED window

Left == Len(prompt) - Len(gen.c.kv)

Absorb(n) == Fed(gen.c, SubSeq(prompt, Len(gen.c.kv) + 1, Len(gen.c.kv) + n), window)

(* _prefill: chunks of all but the last token. *)
PrefillChunk ==
  /\ st = "prefill"
  /\ Left > 1
  /\ gen' = [gen EXCEPT !.c = Absorb(AtMost(PrefillStep, Left - 1))]
  /\ UNCHANGED <<window, sess, st, prompt, budget, out>>

(* A mutant: what trims by itself is not copied. *)
BoundaryTrims(c) == IF CanTrim(c, window) THEN NoCache ELSE c

(* _snapshot_prompt_boundary: the ring is copied, whether it trims still   *)
(* or not, and the length of the full layers noted.                        *)
Boundary(c) == c

(* The last token alone, and the first answer drawn from it. *)
FirstToken ==
  /\ st = "prefill"
  /\ Left = 1
  /\ LET c == Absorb(1)
         h == HiddenOver(gen.c, <<Last(prompt)>>, window)[1]
     IN  /\ gen' = [gen EXCEPT !.c = c, !.h = h, !.boundary = Boundary(c)]
         /\ \E y \in Draw(h) : out' = <<y>>
  /\ st' = "decode"
  /\ UNCHANGED <<window, sess, prompt, budget>>

More == Len(out) < budget /\ Last(out) \notin Eos

DraftCount == AtMost(BlockSize - 1, budget - Len(out) - 1)

(* How many drafts agree with the target, and what it says after them.     *)
Answers(draft, h) ==
  UNION {{[accepted |-> a, bonus |-> y] :
            y \in Draw(h[a + 1]) \ (IF a < Len(draft) THEN {draft[a + 1]} ELSE {})} :
         a \in {b \in 0..Len(draft) : \A i \in 1..b : draft[i] \in Draw(h[i])}}

(* A mutant: a full ring is left to mlx_lm, which does not trim it. *)
RolledBackByTrim(c, n) == Trimmed(c, n, window)

(* _rollback: the ring is put in order and cut by hand, then to its size.  *)
RolledBack(c, n) ==
  IF n = 0 THEN c
  ELSE [kv |-> Drop(c.kv, n), ring |-> Final(Drop(c.ring, n), window)]

(* The answer stops at max_tokens, or at the first end-of-sequence token.  *)
Emitted(tokens) ==
  LET room == First(tokens, AtMost(Len(tokens), budget - Len(out)))
      ends == {i \in DOMAIN room : room[i] \in Eos}
  IN  IF ends = {} THEN room
      ELSE First(room, CHOOSE i \in ends : \A j \in ends : i <= j)

(* A round: the assistant drafts a block, the target verifies it in one    *)
(* forward, what it did not say is rolled back.                            *)
Round ==
  /\ st = "decode"
  /\ More
  /\ \E draft \in [1..DraftCount -> Token] :
       LET fed == <<Last(out)>> \o draft
           h == HiddenOver(gen.c, fed, window)
       IN  \E ans \in Answers(draft, h) :
             /\ out' = out \o Emitted(First(draft, ans.accepted) \o <<ans.bonus>>)
             /\ gen' = [gen EXCEPT !.c = RolledBack(Fed(@, fed, window), Len(draft) - ans.accepted),
                                   !.h = h[ans.accepted + 1]]
  /\ UNCHANGED <<window, sess, st, prompt, budget>>

(* _restore_prompt_boundary: the full layers trim, the ring is put back. *)
AtBoundary ==
  [kv |-> First(gen.c.kv, Len(gen.boundary.kv)), ring |-> gen.boundary.ring]

(* The session keeps the prompt, none of the answer. *)
Publish ==
  /\ st = "decode"
  /\ ~More
  /\ sess' = Published(AtBoundary, prompt)
  /\ st' = "idle"
  /\ gen' = Fresh
  /\ UNCHANGED <<window, prompt, budget, out>>

(* on_tokens raises, as it does to cancel, or a model does. *)
Fail ==
  /\ st # "idle"
  /\ sess' = AfterFailure(sess, gen.shared, gen.c)
  /\ st' = "idle"
  /\ gen' = Fresh
  /\ UNCHANGED <<window, prompt, budget, out>>

Next == Rewind \/ Begin \/ PrefillChunk \/ FirstToken \/ Round \/ Publish \/ Fail

(***************************************************************************)
(* Properties                                                              *)
(***************************************************************************)
(* The cache of a session, full or sliding, stands for its prompt; that of *)
(* a call for what was said but the last token, and so does the hidden     *)
(* state the assistant goes on from.                                       *)
GemmaFollows ==
  /\ sess.has => StandFor(sess.c, sess.processed, window)
  /\ st = "decode" /\ More =>
       LET said == prompt \o First(out, Len(out) - 1)
       IN  StandFor(gen.c, said, window) /\ gen.h = said
=============================================================================
