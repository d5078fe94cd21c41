------------------------------- MODULE Chunking -------------------------------
(***************************************************************************)
(* chunk_text, which every ingestion and every upload call runs on the     *)
(* event loop, without an await: it packs paragraphs into chunks of at     *)
(* most MaxCharacters characters, each of which repeats up to Overlap      *)
(* characters of the one before.                                           *)
(*                                                                         *)
(* Abstractions.  A text is given with its paragraphs stripped and joined  *)
(* by two line breaks, as chunk_text joins them again; `current' and every *)
(* chunk are then intervals of that text.  A character is a letter, a      *)
(* space, a line feed or another whitespace character (a blank), such as a *)
(* tab or the carriage return of a CRLF.  Only the last two chunks are     *)
(* remembered; their hashes are left out.                                  *)
(***************************************************************************)
EXTENDS Integers, Sequences

CONSTANTS
    Texts,          \* the texts that may be given
    MaxCharacters,  \* max_characters, 1200 by default
    Overlap         \* overlap, 150 by default

Character == {"letter", "space", "newline", "blank"}

Letter(t, p) == p \in DOMAIN t /\ t[p] = "letter"

Newline(t, p) == p \in DOMAIN t /\ t[p] = "newline"

\* What is left of a text once it has been split at its blank lines, each part
\* stripped, and the parts joined by "\n\n": whitespace is inside only, and
\* two line feeds with only whitespace between them join two paragraphs: there
\* is nothing between them and a letter on either side.
Normal(t) ==
    /\ t # <<>> => Letter(t, 1) /\ Letter(t, Len(t))
    /\ \A p, q \in DOMAIN t :
        p < q /\ Newline(t, p) /\ Newline(t, q) /\ (\A r \in p .. q : ~Letter(t, r)) =>
            q = p + 1 /\ Letter(t, p - 1) /\ Letter(t, q + 1)

\* Other parameters raise ValueError.
ASSUME ChunkingAssumption ==
    /\ MaxCharacters \in Nat \ {0}
    /\ Overlap \in 0 .. MaxCharacters - 1
    /\ \A t \in Texts : t \in Seq(Character) /\ Normal(t)

VARIABLES
    text,
    at,             \* "paragraph", "while", "cut" or "done"
    first, taken,   \* current is text[first .. taken]; empty before the first paragraph
    split,          \* split_at
    chunk,          \* the interval appended last; None before
    before          \* the one appended before it

vars == <<text, at, first, taken, split, chunk, before>>

Interval == Nat \X Nat

None == <<1, 0>>

\* The loop variables keep their types, within the text.
TypeOK ==
    /\ text \in Seq(Character) /\ Normal(text)
    /\ at \in {"paragraph", "while", "cut", "done"}
    /\ first \in Nat \ {0}
    /\ taken \in 0 .. Len(text)
    /\ split \in 0 .. MaxCharacters
    /\ chunk \in Interval
    /\ before \in Interval

Init ==
    /\ text \in Texts
    /\ at = "paragraph"
    /\ first = 1
    /\ taken = 0
    /\ split = 0
    /\ chunk = None
    /\ before = None

Length == taken + 1 - first

Emit(from, to) ==
    /\ chunk' = <<from, to>>
    /\ before' = chunk

\* p is the first letter from q on: what lstrip leaves.
Strips(q, p) == Letter(text, p) /\ q <= p /\ \A r \in q .. p - 1 : ~Letter(text, r)

\* p is the last letter up to q: what rstrip leaves.
StripsBack(q, p) == Letter(text, p) /\ p <= q /\ \A r \in p + 1 .. q : ~Letter(text, r)

\* A paragraph ends where "\n\n" follows, or the text ends; a single line feed
\* and a run of blanks are part of it.
EndsParagraph(p) == p = Len(text) \/ (Newline(text, p + 1) /\ Newline(text, p + 2))

ParagraphFrom(start, end) ==
    /\ end \in start .. Len(text)
    /\ EndsParagraph(end)
    /\ \A p \in start .. end - 1 : ~EndsParagraph(p)

Larger(m, n) == IF m < n THEN n ELSE m

\* The last `overlap' characters of current, or all of it, or none.
Suffix == Larger(first, taken + 1 - Overlap)

-----------------------------------------------------------------------------

\* for paragraph in paragraphs: it joins current, or current becomes a chunk
\* and the paragraph joins its last characters.
TakeParagraph ==
    /\ at = "paragraph"
    /\ taken < Len(text)
    /\ \E end \in 1 .. Len(text) :
        /\ ParagraphFrom(IF taken = 0 THEN 1 ELSE taken + 3, end)
        /\ taken' = end
        /\ \/ /\ Length > 0 /\ end + 1 - first > MaxCharacters
              /\ Emit(first, taken)
              /\ \E p \in DOMAIN text : Strips(Suffix, p) /\ first' = p
           \/ /\ ~(Length > 0 /\ end + 1 - first > MaxCharacters)
              /\ UNCHANGED <<first, chunk, before>>
    /\ at' = "while"
    /\ UNCHANGED <<text, split>>

\* Index n of current, from 0, is a space.
SpaceAt(n) == first + n <= taken /\ text[first + n] = "space"

\* Mutant: rfind(" ", 0, max_characters + 2).
SplitsPastLimit(n) ==
    LET spaces == {m \in 1 .. MaxCharacters + 1 : SpaceAt(m)} IN
    \/ n \in spaces /\ \A m \in spaces : m <= n
    \/ spaces = {} /\ n = MaxCharacters

\* Mutant: find instead of rfind.
SplitsAtFirstSpace(n) ==
    LET spaces == {m \in 1 .. MaxCharacters : SpaceAt(m)} IN
    \/ n \in spaces /\ \A m \in spaces : m >= n
    \/ spaces = {} /\ n = MaxCharacters

\* split_at: the last space rfind sees, unless it is the first character or
\* there is none.
SplitsAt(n) ==
    LET spaces == {m \in 1 .. MaxCharacters : SpaceAt(m)} IN
    \/ n \in spaces /\ \A m \in spaces : m <= n
    \/ spaces = {} /\ n = MaxCharacters

\* The piece before split_at, stripped, becomes a chunk.
Split ==
    /\ at = "while"
    /\ Length > MaxCharacters
    /\ \E n, p \in DOMAIN text :
        /\ SplitsAt(n)
        /\ StripsBack(first + n - 1, p)
        /\ Emit(first, p)
        /\ split' = n
    /\ at' = "cut"
    /\ UNCHANGED <<text, first, taken>>

\* Mutant: the character at split_at is always taken for a space.
CutPastSpace ==
    /\ at = "cut"
    /\ \E p \in DOMAIN text :
        /\ Strips(first + split + 1, p)
        /\ first' = p
    /\ at' = "while"
    /\ UNCHANGED <<text, taken, split, chunk, before>>

\* current = current[max(0, split_at - overlap):].strip()
Cut ==
    /\ at = "cut"
    /\ \E p \in DOMAIN text :
        /\ Strips(Larger(first, first + split - Overlap), p)
        /\ first' = p
    /\ at' = "while"
    /\ UNCHANGED <<text, taken, split, chunk, before>>

EndWhile ==
    /\ at = "while"
    /\ Length <= MaxCharacters
    /\ at' = "paragraph"
    /\ UNCHANGED <<text, first, taken, split, chunk, before>>

\* The last chunk, unless there is no text, and the return.
Finish ==
    /\ at = "paragraph"
    /\ taken = Len(text)
    /\ \/ Length > 0 /\ Emit(first, taken)
       \/ Length = 0 /\ UNCHANGED <<chunk, before>>
    /\ at' = "done"
    /\ UNCHANGED <<text, first, taken, split>>

Next == TakeParagraph \/ Split \/ Cut \/ EndWhile \/ Finish

Spec == Init /\ [][Next]_vars

\* It is one synchronous call.
FairSpec == Spec /\ WF_vars(Next)

-----------------------------------------------------------------------------
(* Safety.                                                                 *)

\* The schema stores and the model embeds a chunk as it is: no chunk is empty
\* or longer than max_characters, whichever branch appended it.
ChunksFit ==
    chunk # None =>
        /\ Letter(text, chunk[1])
        /\ Letter(text, chunk[2])
        /\ chunk[2] - chunk[1] \in 0 .. MaxCharacters - 1

\* No text is lost and no more than the overlap is repeated: each chunk starts
\* where the last one started or later, at most Overlap characters before its
\* end, and only whitespace is left out between them and after the last.
ChunksContiguous ==
    /\ before[1] <= chunk[1]
    /\ before[2] + 1 - chunk[1] <= Overlap
    /\ \A p \in before[2] + 1 .. chunk[1] - 1 : ~Letter(text, p)
    /\ at = "done" => chunk[2] = Len(text)

-----------------------------------------------------------------------------
(* The inductive invariant behind both.                                    *)

\* current starts with a letter and ends a paragraph, once there is one.
CurrentIsText ==
    /\ taken = 0 => first = 1 /\ at \in {"paragraph", "done"} /\ chunk[2] = 0
    /\ taken > 0 => first <= taken /\ Letter(text, first) /\ Letter(text, taken)
    /\ at = "paragraph" => Length <= MaxCharacters
    /\ at = "cut" => Length > split

\* current continues the last chunk: between its piece and the cut at split_at,
\* of which nothing but whitespace was stripped.
CurrentContinues ==
    /\ chunk[1] <= first
    /\ at \in {"paragraph", "while"} =>
        /\ chunk[2] + 1 - first <= Overlap
        /\ \A p \in chunk[2] + 1 .. first - 1 : ~Letter(text, p)
    /\ at = "cut" =>
        /\ chunk[2] + 1 - first <= split
        /\ \A p \in chunk[2] + 1 .. first + split - 1 : ~Letter(text, p)

ChunkingInv ==
    /\ TypeOK
    /\ CurrentIsText
    /\ CurrentContinues
    /\ ChunksFit
    /\ ChunksContiguous

-----------------------------------------------------------------------------
(* Liveness.                                                               *)

\* No run of MaxCharacters - Overlap characters without a space, counting the
\* line feeds between paragraphs.
ShortWords ==
    \A p \in DOMAIN text :
        p + MaxCharacters - Overlap - 1 \in DOMAIN text =>
            \E q \in p .. p + MaxCharacters - Overlap - 1 : text[q] = "space"

\* chunk_text returns when the words of the text are short.
EndsOnShortWords == ShortWords ~> at = "done"

-----------------------------------------------------------------------------
(* What the documentation says and the code does not do.                   *)

\* chunking.py:18, "Create deterministic paragraph-aware chunks for
\* reproducible ingestion": chunk_text returns the chunks of any text.
ChunkingEnds == <>(at = "done")
=============================================================================
