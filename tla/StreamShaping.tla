---------------------------- MODULE StreamShaping ----------------------------
(***************************************************************************)
(* How mlxturbo/server.py turns the tokens of a generation into events:     *)
(* ThinkingRouter looks for the markers with a window of look-ahead and      *)
(* splits the stream into channels, SegmentAssembler gathers tool calls, and *)
(* the callbacks of _build_streaming_pipeline put the events into the queue. *)
(*                                                                         *)
(* A token stands for its text; the detokenizers, which are external, are    *)
(* taken to give it out when it is added.                                   *)
(***************************************************************************)
EXTENDS ResponseChannels, FiniteSets

CONSTANTS
  Tokens,       \* what a model may say
  Eos,          \* eos_ids
  Budgets,      \* the thinking budgets of requests
  Stops,        \* the stop strings of the request
  MaxTokens,    \* max_tokens
  MaxChunk      \* bound: tokens handed over by one on_tokens call

ASSUME TokenAssumption ==
  /\ Eos \subseteq Tokens /\ Newlines \subseteq Tokens
  /\ Budgets \subseteq Nat \cup {Unlimited}
  /\ Stops \subseteq Seq(Tokens) \ {<<>>}
  /\ MaxTokens \in Nat /\ MaxChunk \in Nat \ {0}

VARIABLES
  req,      \* budget, tools and opened: what the router is built for
  router,   \* the ThinkingRouter
  tool,     \* SegmentAssembler._tool_buf
  q,        \* what was put into the queue
  fed,      \* the tokens handed over so far
  ended     \* how the generation ended

vars == <<req, router, tool, q, fed, ended>>

Enabled == req.budget # 0
First(s, n) == SubSeq(s, 1, n)

Init ==
  /\ req \in [budget : Budgets, tools : BOOLEAN, opened : BOOLEAN]
  /\ router = [phase |-> IF ~Enabled THEN "content"
                         ELSE IF req.opened THEN "thinking" ELSE "detect",
               buf |-> <<>>, toolBuf |-> <<>>, count |-> 0, exceeded |-> FALSE,
               strip |-> FALSE, out |-> <<>>]
  /\ tool = <<>>
  /\ q = <<>>
  /\ fed = <<>>
  /\ ended = "no"

(***************************************************************************)
(* ThinkingRouter.  Its operations take and return the router; out is what   *)
(* the call returns.                                                        *)
(***************************************************************************)
Say(r, channel, payload) ==
  [r EXCEPT !.out = Append(@, [channel |-> channel, payload |-> payload])]

(* _clean_content_segment and the append after it. *)
Content(r, seg) ==
  LET text == IF r.strip THEN From(seg, Framing(seg) + 1) ELSE seg
  IN  IF text = <<>> THEN r ELSE Say([r EXCEPT !.strip = FALSE], "content", text)

(* A mutant: the token that reaches the budget is let through. *)
ThoughtPast(r, seg) ==
  LET fits == req.budget = Unlimited \/ r.count + Len(seg) <= req.budget + 1
      text == IF fits THEN seg ELSE First(seg, req.budget - r.count)
      said == [r EXCEPT !.count = @ + Len(text), !.exceeded = ~fits]
  IN  IF text = <<>> THEN said ELSE Say(said, "reasoning", text)

(* _feed_thinking_token, for each token of seg until the budget is reached. *)
Thought(r, seg) ==
  LET fits == req.budget = Unlimited \/ r.count + Len(seg) <= req.budget
      text == IF fits THEN seg ELSE First(seg, req.budget - r.count)
      said == [r EXCEPT !.count = @ + Len(text), !.exceeded = ~fits]
  IN  IF text = <<>> THEN said ELSE Say(said, "reasoning", text)

(* A window as long as the marker is kept; what it pushes out is settled. *)
Settled(b, marker) == First(b, IF Len(b) > Len(marker) THEN Len(b) - Len(marker) ELSE 0)
Window(b, marker) == From(b, Len(Settled(b, marker)) + 1)

FeedContent(r, t) ==
  IF ~req.tools THEN Content(r, <<t>>)
  ELSE LET b    == Append(r.toolBuf, t)
           said == Content(r, Settled(b, ToolStart))
       IN  IF Window(b, ToolStart) # ToolStart
             THEN [said EXCEPT !.toolBuf = Window(b, ToolStart)]
             ELSE Say([said EXCEPT !.phase = "tool", !.toolBuf = <<>>, !.strip = FALSE],
                      "tool_start", <<>>)

FeedTool(r, t) ==
  LET b    == Append(r.toolBuf, t)
      text == Settled(b, ToolEnd)
      said == IF text = <<>> THEN r ELSE Say(r, "tool", text)
  IN  IF Window(b, ToolEnd) # ToolEnd THEN [said EXCEPT !.toolBuf = Window(b, ToolEnd)]
      ELSE Say([said EXCEPT !.phase = "content", !.toolBuf = <<>>], "tool_end", TRUE)

(* The end of a window that may be the beginning of thinking. *)
FeedDetect(r, t) ==
  LET b == Append(r.buf, t)
  IN  CASE Len(b) < Len(ThinkStart) -> [r EXCEPT !.buf = b]
        [] b = ThinkStart -> [r EXCEPT !.phase = "thinking", !.buf = <<>>]
        [] OTHER -> FoldLeft(FeedContent, [r EXCEPT !.phase = "content", !.buf = <<>>], b)

FeedThinking(r, t) ==
  LET b    == Append(r.buf, t)
      said == Thought(r, Settled(b, ThinkEnd))
  IN  IF said.exceeded \/ Window(b, ThinkEnd) # ThinkEnd
        THEN [said EXCEPT !.buf = Window(b, ThinkEnd)]
        ELSE [said EXCEPT !.phase = "content", !.buf = <<>>, !.strip = TRUE]

FeedToken(r, t) ==
  IF t \in Eos \/ r.exceeded THEN r
  ELSE CASE r.phase = "detect"   -> FeedDetect(r, t)
         [] r.phase = "thinking" -> FeedThinking(r, t)
         [] r.phase = "content"  -> FeedContent(r, t)
         [] r.phase = "tool"     -> FeedTool(r, t)

Feed(toks) == FoldLeft(FeedToken, [router EXCEPT !.out = <<>>], toks)

(* What was still held for a look-ahead is settled where it stands. *)
Settle(r) ==
  CASE r.phase = "detect"   -> FoldLeft(FeedContent, [r EXCEPT !.buf = <<>>], r.buf)
    [] r.phase = "thinking" -> Thought([r EXCEPT !.buf = <<>>], r.buf)
    [] r.phase = "content"  -> r
    [] r.phase = "tool"     ->
         LET held == [r EXCEPT !.toolBuf = <<>>]
         IN  Say(IF r.toolBuf = <<>> THEN held ELSE Say(held, "tool", r.toolBuf),
                 "tool_end", FALSE)

(* A mutant: a window of content is dropped at the end. *)
FinalizeShort ==
  IF router.exceeded THEN [router EXCEPT !.out = <<>>]
  ELSE Settle([router EXCEPT !.out = <<>>])

Finalize ==
  IF router.exceeded THEN [router EXCEPT !.out = <<>>]
  ELSE LET r == Settle([router EXCEPT !.out = <<>>])
       IN  Content([r EXCEPT !.toolBuf = <<>>], r.toolBuf)

(***************************************************************************)
(* SegmentAssembler, and the queue                                         *)
(***************************************************************************)
Event(kind, text) == IF text = <<>> THEN <<>> ELSE <<[kind |-> kind, of |-> text]>>

(* push(): a state is the open tool block and the events so far. *)
Push(a, part) ==
  LET p == part.payload
  IN  CASE part.channel = "reasoning"  -> [a EXCEPT !.events = @ \o Event("reasoning", p)]
        [] part.channel = "content"    -> [a EXCEPT !.events = @ \o Event("content", p)]
        [] part.channel = "tool_start" -> [a EXCEPT !.tool = <<>>]
        [] part.channel = "tool"       -> [a EXCEPT !.tool = @ \o p]
        [] part.channel = "tool_end"   ->
             [tool |-> <<>>,
              events |-> a.events \o
                IF p /\ Parsable(a.tool) THEN <<[kind |-> "tool_call", of |-> a.tool]>>
                ELSE Event("content", ToolStart \o a.tool \o IF p THEN ToolEnd ELSE <<>>)]

Assembled(parts) == FoldLeft(Push, [tool |-> tool, events |-> <<>>], parts)

Signal(kind) == [kind |-> kind, of |-> <<>>]
Signalled == \E i \in DOMAIN q : q[i].kind = "budget_exceeded"

(* on_tokens *)
OnTokens(toks) ==
  /\ ended = "no"
  /\ Len(fed) + Len(toks) <= MaxTokens
  /\ fed' = fed \o toks
  /\ LET r == Feed(toks)  a == Assembled(r.out)
     IN  /\ router' = r
         /\ tool' = a.tool
         /\ q' = q \o a.events \o
                 IF r.exceeded /\ ~Signalled THEN <<Signal("budget_exceeded")>> ELSE <<>>
  /\ UNCHANGED <<req, ended>>

(* on_done("done"): what is held is flushed before the terminal event. *)
OnDone ==
  /\ ended = "no"
  /\ ended' = "done"
  /\ LET r == Finalize  a == Assembled(r.out)
     IN  /\ router' = r
         /\ tool' = a.tool
         /\ q' = q \o a.events \o <<Signal("done")>>
  /\ UNCHANGED <<req, fed>>

(* on_done("cancelled") and on_done("error"): nothing is flushed. *)
OnStop ==
  /\ ended = "no"
  /\ ended' \in {"cancelled", "error"}
  /\ q' = Append(q, Signal(ended'))
  /\ UNCHANGED <<req, router, tool, fed>>

Chunks == UNION {[1..n -> Tokens] : n \in 1..MaxChunk}

Next == (\E toks \in Chunks : OnTokens(toks)) \/ OnDone \/ OnStop

Spec == Init /\ [][Next]_vars

(***************************************************************************)
(* The handler, which forwards the events of the queue to the client        *)
(***************************************************************************)
(* _find_stop: where the first stop string in a text begins, or 0. *)
FirstStop(text) ==
  LET at == {k \in DOMAIN text : \E s \in Stops : IsPrefix(s, From(text, k))}
  IN  IF at = {} THEN 0 ELSE Min(at)

(* A mutant: a stop string is looked for in the new text alone. *)
StopAtNew(acc, new) ==
  LET k == FirstStop(new) IN IF k = 0 THEN 0 ELSE k + Len(acc)

(* It may have begun in what was sent before. *)
StopAt(acc, new) == FirstStop(acc \o new)

(* A mutant: only text is held back after a stop string. *)
MutedTextOnly(h, e) == h.stopped /\ e.kind = "content"

Muted(h, e) == h.stopped

(* What precedes the stop string is sent, and nothing after it. *)
ForwardContent(h, text) ==
  LET k    == StopAt(h.acc, text)
      keep == IF k = 0 THEN Len(text) ELSE k - 1 - Len(h.acc)
  IN  [acc |-> h.acc \o text, stopped |-> k # 0,
       sent |-> h.sent \o Event("content", First(text, keep))]

Forward(h, e) ==
  IF Muted(h, e) THEN h
  ELSE CASE e.kind = "content" -> ForwardContent(h, e.of)
         [] e.kind \in {"reasoning", "tool_call"} -> [h EXCEPT !.sent = Append(@, e)]
         [] OTHER -> h

Forwarded == FoldLeft(Forward, [acc |-> <<>>, stopped |-> FALSE, sent |-> <<>>], q).sent

(* A mutant: the room for a piece is not reduced by what was kept before it. *)
RoomWhole(h, cut) == cut

(* _truncate_content_events: the answer that is sent in one piece is cut     *)
(* before the stop string.                                                  *)
Room(h, cut) == cut - h.acc

Keep(h, e, cut) ==
  IF e.kind # "content" THEN [h EXCEPT !.out = Append(@, e)]
  ELSE LET text == First(e.of, Min({Len(e.of), Room(h, cut)}))
       IN  [out |-> h.out \o Event("content", text), acc |-> h.acc + Len(text),
            open |-> text = e.of]

Truncated(events, cut) ==
  FoldLeft(LAMBDA h, e : IF h.open THEN Keep(h, e, cut) ELSE h, [out |-> <<>>, acc |-> 0, open |-> TRUE],
           events).out

(***************************************************************************)
(* Properties                                                              *)
(***************************************************************************)
Sent == SelectSeq(q, LAMBDA e : e.kind \in {"reasoning", "content", "tool_call"})

(* The text of events, token by token; a tool call is one piece. *)
InPieces(events) ==
  FlattenSeq([i \in DOMAIN events |->
    IF events[i].kind = "tool_call" THEN <<events[i]>>
    ELSE Text(events[i].kind, events[i].of)])

Pieces == InPieces(Sent)

Said == SelectSeq(fed, LAMBDA t : t \notin Eos)
Promised == Response(Said, Enabled, req.opened, req.budget, req.tools)

(* However the tokens arrive and wherever the markers fall: what the client  *)
(* has been sent is always a beginning of the response it is owed, and when  *)
(* the generation is done it is that response. No token of a marker leaks    *)
(* into a text, none of a text is lost, doubled or put into another channel, *)
(* and no more is thought than the budget allows. A stream whose reasoning   *)
(* is cut short while tokens still come is told so, and only such a one.    *)
Routed ==
  /\ req.budget # Unlimited => router.count <= req.budget
  /\ Signalled => router.exceeded
  /\ ended = "no" /\ router.exceeded => Signalled
  /\ IsPrefix(Pieces, Promised)
  /\ ended = "done" => Pieces = Promised

ContentOf(pieces) ==
  LET said == SelectSeq(pieces, LAMBDA p : p.kind = "content")
  IN  [i \in DOMAIN said |-> said[i].of[1]]

(* However a stop string is cut into deltas, and whatever is said between    *)
(* them: the client gets the response as far as its text has no stop string. *)
(* It gets no stop string whole and nothing behind one, be it text,          *)
(* reasoning or a tool call, and it misses nothing before one. The answer in *)
(* one piece ends right before it, if it has no tool call and its budget     *)
(* was kept.                                                               *)
StopsKept ==
  LET shown == InPieces(Forwarded)
      text  == ContentOf(Pieces)
      k     == FirstStop(text)
  IN  /\ IsPrefix(shown, Pieces)
      /\ FirstStop(ContentOf(shown)) = 0
      /\ IF k = 0 THEN shown = Pieces ELSE Len(ContentOf(shown)) >= k - 1
      /\ (ended = "done" /\ k # 0 /\ ~router.exceeded
          /\ \A i \in DOMAIN Sent : Sent[i].kind # "tool_call") =>
           LET whole == InPieces(Truncated(Sent, k - 1))
           IN  IsPrefix(whole, shown) /\ ContentOf(whole) = First(text, k - 1)
==============================================================================
