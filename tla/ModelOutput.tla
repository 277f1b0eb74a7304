----------------------------- MODULE ModelOutput -----------------------------
(***************************************************************************)
(* What becomes of a model's answer: the JSON artifact that ParseJSON finds  *)
(* in it (persona/base/executor.go).                                         *)
(*                                                                          *)
(* An answer is a sequence of pieces: braces and brackets; "k", a key and    *)
(* its colon; "s" and "v", a string and another value; "S", a string with a  *)
(* fenced block of something that is not JSON in it; "u", a string that the  *)
(* end of the answer cuts; "p", prose without braces or quotes; and the two  *)
(* fences.  Commas and white space are left out.                             *)
(***************************************************************************)
EXTENDS Integers, SequencesExt

OpenBrace == "{"
CloseBrace == "}"
Open == {OpenBrace, "["}
Close == {CloseBrace, "]"}
CloserOf(t) == IF t = OpenBrace THEN CloseBrace ELSE "]"
Fence == {"fence", "jsonfence"}
HoldsFence == Fence \cup {"S"}
Pieces == Open \cup Close \cup Fence \cup {"k", "s", "v", "S", "u", "p"}

From(s, i) == SubSeq(s, i, Len(s))
\* The part of s before its last fence, which may be inside of a string.
UpToLastFence(s) ==
  LET at == {i \in DOMAIN s : s[i] \in HoldsFence}
  IN IF at = {} THEN s
     ELSE LET i == CHOOSE i \in at : \A j \in at : j <= i
          IN SubSeq(s, 1, i - 1) \o (IF s[i] = "S" THEN <<"u">> ELSE <<>>)

-----------------------------------------------------------------------------
(* encoding/json, for a target that is a struct.                             *)

Accept(a, t) ==
  IF a.bad \/ a.done \/ a.cut THEN [a EXCEPT !.bad = TRUE]
  ELSE IF t \in Open
       THEN [a EXCEPT !.stack = Append(@, CloserOf(t)), !.key = FALSE,
                      !.bad = a.stack # <<>> /\ Last(a.stack) = CloseBrace /\ ~a.key]
       ELSE IF a.stack = <<>> THEN [a EXCEPT !.bad = TRUE]
       ELSE IF t \in Close
            THEN [a EXCEPT !.stack = Front(@), !.done = Len(a.stack) = 1,
                           !.bad = t # Last(a.stack) \/ a.key]
       ELSE IF t = "k" THEN [a EXCEPT !.key = TRUE, !.bad = Last(a.stack) = "]" \/ a.key]
       ELSE IF t \in {"s", "S", "v"}
            THEN [a EXCEPT !.key = FALSE, !.bad = Last(a.stack) = CloseBrace /\ ~a.key]
       ELSE [a EXCEPT !.cut = t = "u", !.bad = t # "u"]

Scan(s) ==
  FoldLeft(Accept, [stack |-> <<>>, key |-> FALSE, done |-> FALSE, cut |-> FALSE, bad |-> FALSE], s)

\* "ok", "end" (unexpected end of JSON input) or another error.
Unmarshal(s) ==
  LET a == Scan(s)
  IN IF a.bad THEN "invalid"
     ELSE IF ~a.done THEN "end"
     ELSE IF s[1] = OpenBrace THEN "ok" ELSE "invalid"

-----------------------------------------------------------------------------
stripMarkdownFences(s) ==
  IF s # <<>> /\ s[1] \in Fence THEN UpToLastFence(Tail(s)) ELSE s

\* The position of the brace that closes the one at i, or 0; brackets do not
\* count, and nothing closes once a string is cut.
findMatchingClose(s, i) ==
  LET depth[j \in (i - 1)..Len(s)] ==
        IF j < i THEN 0
        ELSE depth[j - 1] + (IF s[j] = OpenBrace THEN 1 ELSE IF s[j] = CloseBrace THEN -1 ELSE 0)
      closes == {j \in i..Len(s) : depth[j] = 0 /\ "u" \notin ToSet(SubSeq(s, i, j))}
  IN IF closes = {} THEN 0 ELSE CHOOSE j \in closes : \A k \in closes : j <= k

\* Mutant of AfterObject: the scan looks into the object it has found.
NextPiece(i, close) == i + 1
AfterObject(i, close) == close + 1

\* The last complete object of s that is not part of another, or <<>>.
lastJSONObject(s) ==
  LET last[i \in 1..(Len(s) + 1)] ==
        IF i > Len(s) THEN <<>>
        ELSE LET close == IF s[i] = OpenBrace THEN findMatchingClose(s, i) ELSE 0
                 rest == last[IF close = 0 THEN i + 1 ELSE AfterObject(i, close)]
             IN IF close # 0 /\ rest = <<>> THEN SubSeq(s, i, close) ELSE rest
  IN last[1]

\* What follows the first fence, when that is JSON.
AfterFence(s) ==
  LET at == {i \in DOMAIN s : s[i] \in HoldsFence}
      first == CHOOSE i \in at : \A j \in at : i <= j
  IN IF at = {} THEN <<>>
     ELSE IF s[first] = "S" THEN <<>>
     ELSE LET body == UpToLastFence(From(s, first + 1))
          IN IF body # <<>> /\ body[1] \in Open THEN body ELSE <<>>

\* Where an object or an array seems to start.
Payload(s) ==
  {i \in DOMAIN s : \/ s[i] = "["
                    \/ s[i] = OpenBrace /\ (i = Len(s) \/ s[i + 1] \in {"k", "s", "S", "u", CloseBrace})}

extractJSON(s) ==
  IF s # <<>> /\ s[1] \in Fence THEN UpToLastFence(Tail(s))
  ELSE IF AfterFence(s) # <<>> THEN AfterFence(s)
  ELSE IF Payload(s) = {} THEN s
  ELSE From(s, CHOOSE i \in Payload(s) : \A j \in Payload(s) : i <= j)

\* Cut back to the end of a value and closed; what a cut string swallows
\* stays swallowed.
repairTruncatedJSON(s) ==
  LET ends == {i \in DOMAIN s : s[i] \notin Open}
      kept == IF ends = {} THEN s
              ELSE SubSeq(s, 1, CHOOSE i \in ends : \A j \in ends : j <= i)
  IN kept \o Reverse(Scan(s).stack)

\* [err, value]: the value is what the target was filled from.
ParseJSON(raw) ==
  LET text == stripMarkdownFences(raw)
      last == lastJSONObject(text)
      cleaned == extractJSON(text)
      repaired == repairTruncatedJSON(cleaned)
  IN IF Unmarshal(last) = "ok" THEN [err |-> "none", value |-> last]
     ELSE IF Unmarshal(cleaned) = "ok" THEN [err |-> "none", value |-> cleaned]
     ELSE IF Unmarshal(cleaned) = "invalid" THEN [err |-> "parse", value |-> <<>>]
     ELSE IF Unmarshal(repaired) = "ok" THEN [err |-> "none", value |-> repaired]
     ELSE [err |-> "truncated", value |-> <<>>]

\* isPreambleResponse, of an answer that is not empty.
isPreamble(s) ==
  extractJSON(s) = <<>> \/ extractJSON(s)[1] \notin Open
=============================================================================
