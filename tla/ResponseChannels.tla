-------------------------- MODULE ResponseChannels ---------------------------
(***************************************************************************)
(* What the client of mlxturbo/server.py is promised of a response: how a   *)
(* whole answer is divided into reasoning, content and tool calls.  A       *)
(* definition over the finished sequence of tokens, with no look-ahead, no  *)
(* phases and no buffers, to hold the streaming ThinkingRouter against.     *)
(***************************************************************************)
EXTENDS Integers, Sequences, SequencesExt

CONSTANTS
  ThinkStart, ThinkEnd,   \* the markers, as sequences of tokens
  ToolStart, ToolEnd,
  Newlines,               \* the tokens that are only line ends
  Unlimited               \* no thinking budget

ASSUME MarkerAssumption ==
  /\ \A m \in {ThinkStart, ThinkEnd, ToolStart, ToolEnd} : Len(m) > 0
  /\ \A m \in {ThinkStart, ToolStart} : Head(m) \notin Newlines

From(s, i) == SubSeq(s, i, Len(s))

(* Where marker m first begins in s at or after i, or 0. *)
Found(m, s, i) ==
  LET at == {k \in i..(Len(s) - Len(m) + 1) : SubSeq(s, k, k + Len(m) - 1) = m}
  IN  IF at = {} THEN 0 ELSE CHOOSE k \in at : \A l \in at : k <= l

Parsable(raw) == raw # <<>>

Text(kind, s) == [i \in DOMAIN s |-> [kind |-> kind, of |-> <<s[i]>>]]

(* Line ends at the beginning of an answer that follows a thinking block. *)
Framing(s) ==
  CHOOSE n \in 0..Len(s) :
    /\ \A i \in 1..n : s[i] \in Newlines
    /\ n < Len(s) => s[n + 1] \notin Newlines

(* Content with its tool calls.  A block that was not closed, or that does  *)
(* not parse, stays text, markers and all.                                  *)
Answer(s, tools) ==
  LET rest[i \in 1..(Len(s) + 1)] ==
        LET start == Found(ToolStart, s, i)
            open  == start + Len(ToolStart)
            end   == Found(ToolEnd, s, open)
            raw   == SubSeq(s, open, end - 1)
        IN  IF ~tools \/ start = 0 THEN Text("content", From(s, i))
            ELSE Text("content", SubSeq(s, i, start - 1)) \o
                 IF end = 0 THEN Text("content", From(s, start))
                 ELSE (IF Parsable(raw) THEN <<[kind |-> "tool_call", of |-> raw]>>
                       ELSE Text("content", SubSeq(s, start, end + Len(ToolEnd) - 1)))
                      \o rest[end + Len(ToolEnd)]
  IN  rest[1]

(* A response of tokens s: opened says that the prompt left a thinking       *)
(* block open.  Reasoning beyond the budget is cut, and what follows it.    *)
Response(s, thinks, opened, budget, tools) ==
  IF ~thinks \/ ~(opened \/ IsPrefix(ThinkStart, s)) THEN Answer(s, tools)
  ELSE LET body   == IF opened THEN s ELSE From(s, Len(ThinkStart) + 1)
           end    == Found(ThinkEnd, body, 1)
           reason == IF end = 0 THEN body ELSE SubSeq(body, 1, end - 1)
           after  == IF end = 0 THEN <<>> ELSE From(body, end + Len(ThinkEnd))
       IN  IF budget # Unlimited /\ Len(reason) > budget
             THEN Text("reasoning", SubSeq(reason, 1, budget))
             ELSE Text("reasoning", reason) \o
                  Answer(From(after, Framing(after) + 1), tools)
==============================================================================
