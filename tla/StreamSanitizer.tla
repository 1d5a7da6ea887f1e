-------------------------- MODULE StreamSanitizer --------------------------
(***************************************************************************)
(* What a turn streams and commits of the text its model writes            *)
(* (agents/leakFilter.ts, and the text loop of runAgentTurn).  The text of *)
(* a step arrives in chunks cut anywhere; the sanitizer holds it back to   *)
(* the end of a segment, drops segments that speak of the machinery, and   *)
(* goes silent when the first substantial line of the turn comes back.     *)
(*                                                                         *)
(* Text is a sequence of units: words, whitespace, the ends of a segment   *)
(* and the two halves of a forbidden phrase, between which a chunk may be  *)
(* cut.  A phrase that is one word is such a pair as well.                 *)
(***************************************************************************)
EXTENDS Naturals, SequencesExt

CONSTANTS
  AnchorMinLen,      \* ANCHOR_MIN_LEN
  MaxSegmentBuffer,  \* MAX_SEGMENT_BUFFER
  MaxAssistantChars, \* MAX_ASSISTANT_CHARS of chat.service.ts
  MaxChunk,          \* units of a chunk: a bound
  MaxText,           \* units of a turn: a bound
  MaxSteps           \* model calls of a turn: a bound

ASSUME SizesAssumption ==
  /\ {AnchorMinLen, MaxSegmentBuffer, MaxAssistantChars, MaxChunk} \subseteq Nat \ {0}
  /\ {MaxText, MaxSteps} \subseteq Nat

Ends  == {".", "newline"}
White == {"blank", "newline"}
Unit  == {"word", "another", "tool", "blank"} \cup Ends

VARIABLES
  stage,    \* "streaming", "answered" (the stream of the step has ended), "over"
            \* or "failed" (the stream threw)
  raw,      \* history: what the model wrote, step by step
  cuts,     \* history: <<step, position>> of raw where a full buffer was flushed
  text,     \* assistantText of each step, which is also what was streamed
  buffer,   \* StreamSanitizer.buffer
  anchor,   \* StreamSanitizer.anchor; <<>> is null
  stopped   \* StreamSanitizer.stoppedFlag

sanitizerVars == <<stage, raw, cuts, text, buffer, anchor, stopped>>

Step == Len(raw)
Written == FoldLeft(LAMBDA n, s : n + Len(s), 0, raw)

(* Type invariant; a step never streams much more than MAX_ASSISTANT_CHARS.  *)
SanitizerTypeOK ==
  /\ stage \in {"streaming", "answered", "over", "failed"}
  /\ raw \in Seq(Seq(Unit)) /\ text \in Seq(Seq(Unit)) /\ Len(text) = Len(raw)
  /\ cuts \subseteq Nat \X Nat
  /\ buffer \in Seq(Unit \ Ends) /\ Len(buffer) < MaxSegmentBuffer
  /\ anchor \in Seq(Unit)
  /\ stopped \in BOOLEAN
  /\ \A k \in DOMAIN text :
       Len(text[k]) < MaxAssistantChars + MaxSegmentBuffer + MaxChunk

SanitizerInit ==
  /\ stage = "streaming"
  /\ raw = << <<>> >>
  /\ cuts = {}
  /\ text = << <<>> >>
  /\ buffer = <<>>
  /\ anchor = <<>>
  /\ stopped = FALSE

Trim(s) ==
  LET ink == {i \in DOMAIN s : s[i] \notin White}
  IN  IF ink = {} THEN <<>> ELSE SubSeq(s, Min(ink), Max(ink))

IsLeak(segment) ==
  \E i \in 1 .. Len(segment) - 1 : segment[i] = "another" /\ segment[i + 1] = "tool"

\* What stripMachineryLeak leaves of one segment: all or nothing.
StripMachineryLeak(segment) == IF IsLeak(segment) THEN <<>> ELSE segment

\* The state of a push: the sanitizer's fields and the text it may emit so far.
\* Mutant: the repeated line is still emitted.
ConsumeAll(s, segment) ==
  LET cleaned == StripMachineryLeak(segment)
      norm    == Trim(cleaned)
  IN  [s EXCEPT !.buffer = <<>>, !.out = @ \o cleaned,
                !.anchor = IF @ = <<>> /\ Len(norm) >= AnchorMinLen THEN norm ELSE @,
                !.stopped = Len(norm) >= AnchorMinLen /\ norm = s.anchor]

Consume(s, segment) ==
  LET cleaned == StripMachineryLeak(segment)
      norm    == Trim(cleaned)
      long    == Len(norm) >= AnchorMinLen
  IN  IF long /\ norm = s.anchor
      THEN [s EXCEPT !.buffer = <<>>, !.stopped = TRUE]
      ELSE [s EXCEPT !.buffer = <<>>, !.out = @ \o cleaned,
                     !.anchor = IF long /\ @ = <<>> THEN norm ELSE @]

\* Mutant: nothing is held back.
FeedAtOnce(s, u) == IF s.stopped THEN s ELSE Consume(s, Append(s.buffer, u))

\* One turn of push's loop, unit by unit: a segment is consumed when its end comes,
\* and what comes behind a restart is dropped.
Feed(s, u) ==
  IF s.stopped THEN s
  ELSE LET held == Append(s.buffer, u)
       IN  IF u \in Ends THEN Consume(s, held) ELSE [s EXCEPT !.buffer = held]

Sanitizer == [buffer |-> buffer, anchor |-> anchor, stopped |-> stopped, out |-> <<>>]

\* Mutant: one unit too many is held.
MoreThanFull(held) == Len(held) > MaxSegmentBuffer

Full(held) == Len(held) >= MaxSegmentBuffer

(* The fields of the sanitizer behind each unit of a chunk.                *)
FedBy(chunk) ==
  LET s[n \in 0 .. Len(chunk)] == IF n = 0 THEN Sanitizer ELSE Feed(s[n - 1], chunk[n])
  IN  s

Fed(chunk) == FedBy(chunk)[Len(chunk)]

PushChunk(chunk) ==
  LET fed == Fed(chunk)
  IN  IF Full(fed.buffer) THEN Consume(fed, fed.buffer) ELSE fed

\* Mutant: the last line of a step is left to the next.
NoEndStep == Sanitizer

EndStep ==
  IF stopped \/ buffer = <<>> THEN [Sanitizer EXCEPT !.buffer = <<>>]
  ELSE Consume(Sanitizer, buffer)

\* emitText: the check is made before the text is added, and once it fails it fails
\* for the rest of the step.
EmitText(out) ==
  text' = IF Len(text[Step]) < MaxAssistantChars
          THEN [text EXCEPT ![Step] = @ \o out]
          ELSE text

Becomes(s) ==
  /\ buffer' = s.buffer /\ anchor' = s.anchor /\ stopped' = s.stopped
  /\ EmitText(s.out)

\* A chunk of the model's text.  The stream is drained to its end in any case.
Chunk ==
  /\ stage = "streaming"
  /\ \E n \in 1 .. MaxChunk : \E chunk \in [1 .. n -> Unit] :
       /\ Written + n =< MaxText
       /\ raw' = [raw EXCEPT ![Step] = @ \o chunk]
       /\ Becomes(PushChunk(chunk))
       /\ cuts' = IF Full(Fed(chunk).buffer) THEN cuts \cup {<<Step, Len(raw'[Step])>>}
                                              ELSE cuts
  /\ UNCHANGED stage

\* The text stream throws: what was held back is lost with the turn.
StreamFails ==
  /\ stage = "streaming"
  /\ stage' = "failed"
  /\ UNCHANGED <<raw, cuts, text, buffer, anchor, stopped>>

StreamEnds ==
  /\ stage = "streaming"
  /\ stage' = "answered"
  /\ Becomes(EndStep)
  /\ UNCHANGED <<raw, cuts>>

\* The step has no tool calls, or they are thrown away because the model restarted
\* its answer, or reading them failed.
TurnOver ==
  /\ stage = "answered"
  /\ stage' = "over"
  /\ UNCHANGED <<raw, cuts, text, buffer, anchor, stopped>>

\* The step called tools; the sanitizer lives on for the next model call.
NextStep ==
  /\ stage = "answered" /\ ~stopped
  /\ Step < MaxSteps
  /\ stage' = "streaming"
  /\ raw' = Append(raw, <<>>)
  /\ text' = Append(text, <<>>)
  /\ UNCHANGED <<cuts, buffer, anchor, stopped>>

SanitizerNext == Chunk \/ StreamFails \/ StreamEnds \/ TurnOver \/ NextStep

SanitizerSpec == SanitizerInit /\ [][SanitizerNext]_sanitizerVars

-----------------------------------------------------------------------------
(* The sanitized text by definition, from what the model wrote.  A segment is  *)
(* named by its step and the position of its end; S is the set of them.        *)

StreamOpen(k) == k = Step /\ stage \in {"streaming", "failed"}

EndsOf(k) ==
  {p \in DOMAIN raw[k] : \/ raw[k][p] \in Ends
                         \/ <<k, p>> \in cuts
                         \/ p = Len(raw[k]) /\ ~StreamOpen(k)}

Segments == UNION {{k} \X EndsOf(k) : k \in DOMAIN raw}

Before(a, b) == a[1] < b[1] \/ (a[1] = b[1] /\ a[2] < b[2])

\* The last end of a segment of step k before position p.
EndBefore(S, k, p) == Max({0} \cup {e \in 1 .. p - 1 : <<k, e>> \in S})

Words(w, S, seg) == SubSeq(w[seg[1]], EndBefore(S, seg[1], seg[2]) + 1, seg[2])

Substantial(w, S, seg) ==
  ~IsLeak(Words(w, S, seg)) /\ Len(Trim(Words(w, S, seg))) >= AnchorMinLen

FirstSubstantial(w, S, a) ==
  /\ a \in S /\ Substantial(w, S, a)
  /\ ~\E b \in S : Before(b, a) /\ Substantial(w, S, b)

\* The first substantial segment of the turn has come back as seg.
Restart(w, S, seg) ==
  /\ Substantial(w, S, seg)
  /\ \E a \in S : /\ FirstSubstantial(w, S, a) /\ Before(a, seg)
                  /\ Trim(Words(w, S, a)) = Trim(Words(w, S, seg))

Survives(w, S, seg) ==
  /\ ~IsLeak(Words(w, S, seg))
  /\ ~\E r \in S : Restart(w, S, r) /\ (r = seg \/ Before(r, seg))

\* What is left of step k up to each position.
Surviving(w, S, k) ==
  LET out[p \in 0 .. Len(w[k])] ==
        IF p = 0 THEN <<>>
        ELSE IF <<k, p>> \in S /\ Survives(w, S, <<k, p>>)
        THEN out[p - 1] \o Words(w, S, <<k, p>>)
        ELSE out[p - 1]
  IN  out

Expected(w, S, k) == Surviving(w, S, k)[Len(w[k])]

(* However a reply is cut into chunks, what is streamed of a step is exactly   *)
(* its segments without the leaks and up to a restart, or, past                *)
(* MAX_ASSISTANT_CHARS, a beginning of that; in particular a clean reply comes *)
(* through unaltered, and its last line is not held back (push, endStep,       *)
(* consume and emitText).                                                      *)
ChunksDoNotMatter ==
  \A k \in DOMAIN text :
    /\ IsPrefix(text[k], Expected(raw, Segments, k))
    /\ Len(text[k]) < MaxAssistantChars => text[k] = Expected(raw, Segments, k)

(* No forbidden phrase reaches the user or Core's context, though its halves   *)
(* come in different chunks or beside dropped segments: the only way out is a  *)
(* step whose buffer had to be flushed without an end of a segment             *)
(* (stripMachineryLeak behind push).                                           *)
NoLeakStreamed ==
  \A k \in DOMAIN text : IsLeak(text[k]) => \E cut \in cuts : cut[1] = k

=============================================================================
