-------------------------- MODULE NormalizeResponse --------------------------
(* normalize_llm_response: what every completion goes through, whichever      *)
(* provider it comes from, before a caller parses it or a customer reads it.  *)
(* A character is known by what the scanner makes of it: an opening or        *)
(* closing brace or bracket, a double quote, a backslash, any other. The      *)
(* scanner, _find_balanced_json_span, runs one character per step and is      *)
(* compared with a grammar of balanced text.                                  *)
EXTENDS Integers, Sequences

CONSTANT MaxLen   \* bound: characters of a completion inside its wrappers

ASSUME LengthBound == MaxLen \in Nat

Classes == {"open", "close", "quote", "backslash", "other"}

\* Wrappers that enclose the whole completion, the outermost first.
Wrappings == {<< >>, <<"fence">>, <<"tag">>, <<"fence", "tag">>, <<"tag", "fence">>}

VARIABLES
  text,      \* the completion inside its wrappers
  wrapping,  \* the wrappers it came in
  layers,    \* the wrappers still around it
  stage,
  index,     \* i, the character the scanner is at
  start, depth, in_string, escape,
  out        \* what is returned

normalizeVars == <<text, wrapping, layers, stage, index, start, depth, in_string, escape, out>>

scanner == <<start, depth, in_string, escape>>

Texts == UNION {[1 .. n -> Classes] : n \in 0 .. MaxLen}

\* The part of text that is returned, what is left around it, and whether and
\* how it was rewritten as an object.
Output == [first : 1 .. MaxLen + 1, last : 0 .. MaxLen, layers : Wrappings,
           json : {"not_json", "other_json", "object", "unwrapped_object"},
           action : {"as_is", "call_tool", "final"}]
Nothing == [first |-> 1, last |-> 0, layers |-> << >>, json |-> "not_json", action |-> "as_is"]

NormalizeInit ==
  /\ text \in Texts
  /\ wrapping \in Wrappings
  /\ layers = wrapping
  /\ stage = "strip"
  /\ index = 0 /\ start = 0 /\ depth = 0 /\ in_string = FALSE /\ escape = FALSE
  /\ out = Nothing

WithoutOuter(ls, wrapper) == IF ls # << >> /\ Head(ls) = wrapper THEN Tail(ls) ELSE ls

\* A fence first, then a tag pair: a fence inside a tag pair stays.
Strip ==
  /\ stage = "strip"
  /\ layers' = WithoutOuter(WithoutOuter(layers, "fence"), "tag")
  /\ stage' = "find_start"
  /\ UNCHANGED <<text, wrapping, index, scanner, out>>

Openers == {k \in DOMAIN text : text[k] = "open"}

FirstOpener_Last == CHOOSE k \in Openers : \A l \in Openers : l <= k
FirstOpener == CHOOSE k \in Openers : \A l \in Openers : k <= l

FindStart ==
  /\ stage = "find_start"
  /\ Openers # {}
  /\ start' = FirstOpener
  /\ index' = FirstOpener
  /\ stage' = "scan"
  /\ UNCHANGED <<text, wrapping, layers, depth, in_string, escape, out>>

\* The piece of text the rest of the function works on.
Take(first, last, ls) == out' = [Nothing EXCEPT !.first = first, !.last = last, !.layers = ls]

TakeAll == Take(1, Len(text), layers)

NoOpener ==
  /\ stage = "find_start"
  /\ Openers = {}
  /\ TakeAll
  /\ stage' = "parse"
  /\ UNCHANGED <<text, wrapping, layers, index, scanner>>

Sees(c) == stage = "scan" /\ index <= Len(text) /\ text[index] = c

InString ==
  /\ stage = "scan" /\ index <= Len(text) /\ in_string
  /\ IF escape THEN escape' = FALSE /\ UNCHANGED in_string
     ELSE /\ escape' = (text[index] = "backslash")
          /\ in_string' = (text[index] # "quote")
  /\ index' = index + 1
  /\ UNCHANGED <<text, wrapping, layers, stage, start, depth, out>>

\* Outside a string a backslash is a character like any other.
Outside ==
  /\ ~in_string
  /\ Sees("other") \/ Sees("backslash")
  /\ index' = index + 1
  /\ UNCHANGED <<text, wrapping, layers, stage, scanner, out>>

OpenString_Ignored ==
  /\ ~in_string /\ Sees("quote")
  /\ index' = index + 1
  /\ UNCHANGED <<text, wrapping, layers, stage, scanner, out>>
OpenString ==
  /\ ~in_string /\ Sees("quote")
  /\ in_string' = TRUE
  /\ index' = index + 1
  /\ UNCHANGED <<text, wrapping, layers, stage, start, depth, escape, out>>

Open ==
  /\ ~in_string /\ Sees("open")
  /\ depth' = depth + 1
  /\ index' = index + 1
  /\ UNCHANGED <<text, wrapping, layers, stage, start, in_string, escape, out>>

Outermost(d) == d = 0

\* Braces and brackets are counted together, so either closes the other.
Close ==
  /\ ~in_string /\ Sees("close")
  /\ depth' = depth - 1
  /\ index' = index + 1
  /\ IF Outermost(depth') THEN Take(start, index, << >>) /\ stage' = "parse"
     ELSE UNCHANGED <<out, stage>>
  /\ UNCHANGED <<text, wrapping, layers, start, in_string, escape>>

\* The text ends before the first opener is closed: it is kept whole.
Unclosed ==
  /\ stage = "scan" /\ index > Len(text)
  /\ TakeAll
  /\ stage' = "parse"
  /\ UNCHANGED <<text, wrapping, layers, index, scanner>>

-----------------------------------------------------------------------------
Found == start > 0 /\ depth = 0

\* json.loads fails: the piece is returned as it is.
NotJson ==
  /\ stage = "parse"
  /\ stage' = "done"
  /\ UNCHANGED <<text, wrapping, layers, index, scanner, out>>

\* A scalar, or an array of anything but one object.
OtherJson ==
  /\ stage = "parse"
  /\ out.layers = << >>
  /\ start = 0 \/ Found
  /\ out' = [out EXCEPT !.json = "other_json"]
  /\ stage' = "done"
  /\ UNCHANGED <<text, wrapping, layers, index, scanner>>

InferredAction(keys) ==
  IF "action" \in keys THEN "as_is"
  ELSE IF {"tool", "arguments"} \subseteq keys THEN "call_tool"
  ELSE IF "answer" \in keys THEN "final" ELSE "as_is"

\* An object, or an array of one object, with some of the keys that matter.
ObjectJson(keys, form) ==
  /\ stage = "parse"
  /\ Found
  /\ form \in {"object", "unwrapped_object"}
  /\ out' = [out EXCEPT !.json = form, !.action = InferredAction(keys)]
  /\ stage' = "done"
  /\ UNCHANGED <<text, wrapping, layers, index, scanner>>

Normalize ==
  \/ Strip \/ FindStart \/ NoOpener
  \/ InString \/ Outside \/ OpenString \/ Open \/ Close \/ Unclosed
  \/ NotJson \/ OtherJson
  \/ \E keys \in SUBSET {"action", "tool", "arguments", "answer"} :
       \E form \in {"object", "unwrapped_object"} : ObjectJson(keys, form)

Returned == stage = "done" /\ UNCHANGED normalizeVars

NormalizeNext == Normalize \/ Returned

NormalizeSpec == NormalizeInit /\ [][NormalizeNext]_normalizeVars

-----------------------------------------------------------------------------
(* The grammar the scanner is compared with, of the places of a text: by the  *)
(* number of characters, the places from which these may stand somewhere.     *)
Places(t, n) == 1 .. Len(t) - n + 1

\* What may stand between the quotes of a string.
Quoted(t) ==
  LET quoted[n \in 0 .. Len(t)] ==
        {k \in Places(t, n) :
           \/ n = 0
           \/ /\ n > 0 /\ t[k] \notin {"quote", "backslash"}
              /\ k + 1 \in quoted[n - 1]
           \/ /\ n > 1 /\ t[k] = "backslash"
              /\ k + 2 \in quoted[n - 2]}
  IN quoted

\* What may stand between an opener and its closer: plain characters, strings
\* and balanced spans, one after another.
Inside(t) ==
  LET inside[n \in 0 .. Len(t)] ==
        {k \in Places(t, n) :
           \/ n = 0
           \/ /\ n > 0 /\ t[k] \in {"other", "backslash"}
              /\ k + 1 \in inside[n - 1]
           \/ \E m \in 0 .. n - 2 :
                /\ t[k] = "quote" /\ k + 1 \in Quoted(t)[m] /\ t[k + m + 1] = "quote"
                /\ k + m + 2 \in inside[n - m - 2]
           \/ \E m \in 0 .. n - 2 :
                /\ t[k] = "open" /\ k + 1 \in inside[m] /\ t[k + m + 1] = "close"
                /\ k + m + 2 \in inside[n - m - 2]}
  IN inside

BalancedSpan(t, k, l) ==
  /\ k < l /\ t[k] = "open" /\ t[l] = "close"
  /\ k + 1 \in Inside(t)[l - k - 1]

\* What the scanner extracts is balanced text as the grammar has it, from the
\* first opener on: a brace inside a quoted string is no brace, an escaped quote
\* ends no string.
SpanIsBalanced ==
  (stage = "parse" /\ Found) =>
    /\ \A k \in Openers : out.first <= k
    /\ BalancedSpan(text, out.first, out.last)

\* When it extracts nothing, nothing that begins at the first opener is balanced.
NoSpanMissed ==
  (stage = "parse" /\ Openers # {} /\ ~Found) =>
    \A k, l \in DOMAIN text : BalancedSpan(text, k, l) => \E j \in Openers : j < k
=============================================================================
