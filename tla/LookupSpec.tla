----------------------------- MODULE LookupSpec -----------------------------
(***************************************************************************)
(* LookupSpecRunner._lookup_generate of mlxturbo/lookup_spec.py: greedy    *)
(* decoding whose drafts are read from the history by a suffix automaton,  *)
(* one call after another on the session of a conversation.                *)
(***************************************************************************)
EXTENDS WindowedSession, SuffixAutomaton

CONSTANTS
  Eos, Support(_),   \* see PlainDecode
  Prompts, Budgets,  \* the prompts that arrive, and their max_tokens
  PrefillStep,       \* PREFILL_STEP_SIZE
  MaxDraft,          \* max_draft
  MinMatch           \* min_match

VocabularyAssumption == Eos \subseteq Token
PromptsAssumption == Prompts \subseteq Seq(Token) \ {<<>>} /\ Budgets \subseteq Nat
SizesAssumption == {PrefillStep, MaxDraft, MinMatch} \subseteq Nat \ {0}

VARIABLES
  window,   \* max_size of the sliding layers
  sess,     \* the FallbackSession
  st,       \* where the call in progress is
  prompt,   \* prompt_ids
  budget,   \* max_tokens
  out,      \* tokens
  gen       \* the locals of the call

vars == <<window, sess, st, prompt, budget, out, gen>>

(* A call: its cache, whether it came from the session, the length it      *)
(* stands for (cache_processed), the token to feed next, the automaton.    *)
Fresh == [c |-> NoCache, shared |-> FALSE, done |-> 0, next |-> <<>>, sam |-> Empty]

Init ==
  /\ sess = Invalid
  /\ st = "idle"
  /\ prompt = <<>> /\ budget = 0 /\ out = <<>>
  /\ gen = Fresh

(* The draws of a greedy model from a context. *)
Draw(h) == IF h = Unknown THEN Token ELSE Support(h)

(* The selector rewinds the session to a shorter prefix. *)
Rewind ==
  /\ st = "idle"
  /\ sess.has /\ CanTrim(sess.c, window)
  /\ \E n \in 1..Len(sess.processed) : sess' = Rewound(sess, n, window)
  /\ UNCHANGED <<window, st, prompt, budget, out, gen>>

Begin ==
  /\ st = "idle"
  /\ prompt' \in Prompts
  /\ budget' \in Budgets
  /\ out' = <<>>
  /\ st' = "prefill"
  /\ gen' = [Fresh EXCEPT !.c = CacheTaken(sess, prompt'), !.shared = Extends(sess, prompt'),
                          !.sam = ExtendedBy(Empty, prompt')]
  /\ sess' = SessionTaken(sess, prompt')
  /\ UNCHANGED window

Left == Len(prompt) - Len(gen.c.kv)

(* _prefill: chunks, up to the last token of the prompt. *)
PrefillChunk ==
  /\ st = "prefill"
  /\ Left > 1
  /\ LET n == AtMost(PrefillStep, Left - 1)
     IN  gen' = [gen EXCEPT !.c = Fed(@, SubSeq(prompt, Len(@.kv) + 1, Len(@.kv) + n), window)]
  /\ UNCHANGED <<window, sess, st, prompt, budget, out>>

PrefillDone ==
  /\ st = "prefill"
  /\ Left = 1
  /\ gen' = [gen EXCEPT !.next = <<Last(prompt)>>, !.done = Len(prompt) - 1]
  /\ st' = "decode"
  /\ UNCHANGED <<window, sess, prompt, budget, out>>

More == Len(out) < budget /\ (out # <<>> => Last(out) \notin Eos)

(* A mutant: a ring that this round fills may be written to the end. *)
SafeDraftCapFull(c, n) == AtMost(n, window - Len(c.kv) - 1)

(* _safe_draft_cap: after the pending token and the drafts the ring must   *)
(* not be full, or nothing could be taken back.                            *)
SafeDraftCap(c, n) == AtMost(n, window - Len(c.kv) - 2)

Proposal == Draft(gen.sam, SafeDraftCap(gen.c, AtMost(MaxDraft, budget - Len(out) - 1)), MinMatch)

(* How many drafts agree with the model, and what it says after them.      *)
Answers(draft, h) ==
  UNION {{[accepted |-> a, bonus |-> y] :
            y \in Draw(h[a + 1]) \ (IF a < Len(draft) THEN {draft[a + 1]} ELSE {})} :
         a \in {b \in 0..Len(draft) : \A i \in 1..b : draft[i] \in Draw(h[i])}}

(* The answer stops at max_tokens, or at the first end-of-sequence token.  *)
Emitted(tokens) ==
  LET room == First(tokens, AtMost(Len(tokens), budget - Len(out)))
      ends == {i \in DOMAIN room : room[i] \in Eos}
  IN  IF ends = {} THEN room
      ELSE First(room, CHOOSE i \in ends : \A j \in ends : i <= j)

(* A mutant: drafts that were accepted behind an end-of-sequence token     *)
(* stay in the cache.                                                      *)
SurplusKept(accepted, emitted) == 0

Surplus(accepted, emitted) == IF emitted < accepted THEN accepted - emitted ELSE 0

(* A round: one forward of the pending token and the draft, the refused    *)
(* part trimmed, the rest emitted, what lies behind the end trimmed too.   *)
Round ==
  /\ st = "decode"
  /\ More
  /\ LET fed == gen.next \o Proposal
         h == HiddenOver(gen.c, fed, window)
         after == Fed(gen.c, fed, window)
     IN  \E ans \in Answers(Proposal, h) :
           LET tokens == Emitted(First(Proposal, ans.accepted) \o <<ans.bonus>>)
               surplus == Surplus(ans.accepted, Len(tokens))
               agreed == Trimmed(after, Len(Proposal) - ans.accepted, window)
           IN  /\ out' = out \o tokens
               /\ gen' = [gen EXCEPT !.c = Trimmed(agreed, surplus, window),
                                     !.done = @ + 1 + ans.accepted - surplus,
                                     !.next = <<ans.bonus>>,
                                     !.sam = ExtendedBy(@, tokens)]
  /\ UNCHANGED <<window, sess, st, prompt, budget>>

(* The session is published up to the last token the cache has absorbed.   *)
Publish ==
  /\ st = "decode"
  /\ ~More
  /\ sess' = Published(gen.c, First(prompt \o out, gen.done))
  /\ st' = "idle"
  /\ gen' = Fresh
  /\ UNCHANGED <<window, prompt, budget, out>>

(* on_tokens raises, as it does to cancel, or the model does. *)
Fail ==
  /\ st # "idle"
  /\ sess' = AfterFailure(sess, gen.shared, gen.c)
  /\ st' = "idle"
  /\ gen' = Fresh
  /\ UNCHANGED <<window, prompt, budget, out>>

Next == Rewind \/ Begin \/ PrefillChunk \/ PrefillDone \/ Round \/ Publish \/ Fail

(***************************************************************************)
(* Properties                                                              *)
(***************************************************************************)
(* The cache stands for what the call says it does, in a session and       *)
(* between rounds, when it is one token short of what was said.            *)
LookupFollows ==
  /\ sess.has => StandFor(sess.c, sess.processed, window)
  /\ st = "decode" => /\ gen.done <= Len(prompt \o out)
                      /\ StandFor(gen.c, First(prompt \o out, gen.done), window)
  /\ st = "decode" /\ More => gen.done = Len(prompt \o out) - 1

(* The longest suffix the automaton reports, now or after any next token,  *)
(* is the longest there is, and it did occur where it says.                *)
MatchesGenuine ==
  st # "idle" =>
    /\ gen.sam.seq = prompt \o out
    /\ Genuine(LongestMatch(gen.sam), gen.sam.seq)
    /\ \A t \in Token : Genuine(Peek(gen.sam, t), Append(gen.sam.seq, t))
=============================================================================
