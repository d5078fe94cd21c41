---------------------------- MODULE ChunkingProofs ----------------------------
(***************************************************************************)
(* Proofs that chunk_text keeps its limits, for every text, every maximum  *)
(* and every overlap.                                                      *)
(***************************************************************************)
EXTENDS Chunking, TLAPS

\* A paragraph ends with a letter: the text has been stripped, and a blank line
\* has letters around it.
LEMMA ParagraphEndsWithLetter ==
    ASSUME TypeOK, NEW p \in 1 .. Len(text), EndsParagraph(p)
    PROVE  Letter(text, p)
<1>1. CASE p = Len(text)
    BY <1>1 DEF TypeOK, Normal
<1>2. CASE Newline(text, p + 1) /\ Newline(text, p + 2)
    <2>1. \A r \in p + 1 .. p + 2 : ~Letter(text, r)
        BY <1>2 DEF Newline, Letter
    <2> QED BY <1>2, <2>1 DEF TypeOK, Normal, Newline
<1> QED BY <1>1, <1>2 DEF EndsParagraph

\* Stripping from the left stops at or before the first letter there is.
LEMMA StripsToLetter ==
    ASSUME TypeOK, NEW q \in Int, NEW p \in DOMAIN text, Strips(q, p),
           NEW l \in DOMAIN text, Letter(text, l), q <= l
    PROVE  p <= l
BY DEF TypeOK, Strips

\* Stripping from the right stops at or after the last letter there is.
LEMMA StripsBackToLetter ==
    ASSUME TypeOK, NEW q \in Int, NEW p \in DOMAIN text, StripsBack(q, p),
           NEW l \in DOMAIN text, Letter(text, l), l <= q
    PROVE  l <= p
BY DEF TypeOK, StripsBack

-----------------------------------------------------------------------------

\* chunk_text starts with no text and no chunks.
LEMMA InitEstablishes == Init => ChunkingInv
BY ChunkingAssumption
DEF Init, ChunkingInv, TypeOK, CurrentIsText, CurrentContinues, ChunksFit,
    ChunksContiguous, None, Interval, Letter, Length

LEMMA FlushKeeps ==
    ASSUME ChunkingInv, TakeParagraph, Length > 0, Emit(first, taken),
           NEW p \in DOMAIN text, Strips(Suffix, p), first' = p,
           taken' \in DOMAIN text, taken < taken', Letter(text, taken')
    PROVE  ChunkingInv'
<1> USE ChunkingAssumption DEF ChunkingInv, TypeOK, Emit
<1>1. taken > 0 /\ first <= taken
    BY DEF CurrentIsText, Length
<1>2. text' = text /\ at = "paragraph" /\ at' = "while" /\ split' = split
    BY DEF TakeParagraph
<1>3. Suffix \in first .. taken + 1 /\ taken + 1 - Suffix <= Overlap
    BY <1>1 DEF Suffix, Larger
<1>4. p \in Suffix .. taken' /\ Letter(text, p)
    BY <1>3, StripsToLetter DEF Strips
<1>5. \A r \in taken + 1 .. p - 1 : ~Letter(text, r)
    BY <1>3 DEF Strips
<1>6. TypeOK'
    BY <1>2, <1>3, <1>4 DEF Interval
<1>7. CurrentIsText'
    BY <1>1, <1>2, <1>3, <1>4 DEF CurrentIsText
<1>8. CurrentContinues'
    BY <1>2, <1>3, <1>4, <1>5 DEF CurrentContinues
<1>9. ChunksFit'
    BY <1>1, <1>2 DEF ChunksFit, CurrentIsText, Length
<1>10. ChunksContiguous'
    BY <1>1, <1>2 DEF ChunksContiguous, CurrentContinues
<1> QED BY <1>6, <1>7, <1>8, <1>9, <1>10

LEMMA TakeParagraphKeeps ==
    ASSUME ChunkingInv, TakeParagraph
    PROVE  ChunkingInv'
<1> USE ChunkingAssumption DEF ChunkingInv
<1>1. /\ text' = text /\ split' = split /\ at = "paragraph" /\ at' = "while"
      /\ taken' \in DOMAIN text /\ taken < taken' /\ EndsParagraph(taken')
    BY DEF TakeParagraph, ParagraphFrom, TypeOK
<1>2. Letter(text, taken')
    BY <1>1, ParagraphEndsWithLetter DEF TypeOK
<1>3. CASE /\ Length > 0 /\ Emit(first, taken)
           /\ \E p \in DOMAIN text : Strips(Suffix, p) /\ first' = p
    BY <1>1, <1>2, <1>3, FlushKeeps
<1>4. CASE UNCHANGED <<first, chunk, before>>
    <2>1. TypeOK'
        BY <1>1, <1>4 DEF TypeOK
    <2>2. Letter(text, first) /\ first <= taken'
        BY <1>1 DEF CurrentIsText, TypeOK, Normal, Letter
    <2>3. CurrentIsText' /\ CurrentContinues'
        BY <1>1, <1>2, <1>4, <2>2 DEF CurrentIsText, CurrentContinues, TypeOK
    <2>4. ChunksFit' /\ ChunksContiguous'
        BY <1>1, <1>4 DEF ChunksFit, ChunksContiguous
    <2> QED BY <2>1, <2>3, <2>4
<1> QED BY <1>3, <1>4 DEF TakeParagraph

LEMMA SplitKeeps ==
    ASSUME ChunkingInv, Split
    PROVE  ChunkingInv'
<1> USE ChunkingAssumption DEF ChunkingInv, TypeOK
<1>1. PICK n \in DOMAIN text, p \in DOMAIN text :
        SplitsAt(n) /\ StripsBack(first + n - 1, p) /\ Emit(first, p) /\ split' = n
    BY DEF Split
<1>2. /\ at = "while" /\ at' = "cut" /\ Length > MaxCharacters
      /\ UNCHANGED <<text, first, taken>>
    BY DEF Split
<1>3. n \in 1 .. MaxCharacters
    BY <1>1 DEF SplitsAt
<1>4. taken > 0 /\ Letter(text, first) /\ first <= taken
    BY <1>2 DEF CurrentIsText
<1>5. /\ p \in first .. first + n - 1 /\ Letter(text, p)
      /\ \A r \in p + 1 .. first + n - 1 : ~Letter(text, r)
    <2>1. first \in DOMAIN text /\ first <= first + n - 1
        BY <1>3, <1>4
    <2> QED BY <1>1, <1>3, <1>4, <2>1, StripsBackToLetter DEF StripsBack
<1>6. chunk' = <<first, p>> /\ before' = chunk
    BY <1>1 DEF Emit
<1>7. TypeOK'
    BY <1>1, <1>2, <1>3, <1>5, <1>6 DEF Interval
<1>8. CurrentIsText'
    BY <1>1, <1>2, <1>3, <1>4 DEF CurrentIsText, Length
<1>9. CurrentContinues'
    BY <1>1, <1>2, <1>3, <1>5, <1>6 DEF CurrentContinues
<1>10. ChunksFit'
    BY <1>2, <1>3, <1>4, <1>5, <1>6 DEF ChunksFit
<1>11. ChunksContiguous'
    BY <1>2, <1>6 DEF ChunksContiguous, CurrentContinues
<1> QED BY <1>7, <1>8, <1>9, <1>10, <1>11

LEMMA CutKeeps ==
    ASSUME ChunkingInv, Cut
    PROVE  ChunkingInv'
<1> USE ChunkingAssumption DEF ChunkingInv, TypeOK
<1> DEFINE q == Larger(first, first + split - Overlap)
<1>1. PICK p \in DOMAIN text : Strips(q, p) /\ first' = p
    BY DEF Cut
<1>2. at = "cut" /\ at' = "while" /\ UNCHANGED <<text, taken, split, chunk, before>>
    BY DEF Cut
<1>3. taken > 0 /\ first <= taken /\ Letter(text, taken) /\ first + split <= taken
    BY <1>2 DEF CurrentIsText, Length
<1>4. q \in first .. first + split /\ first + split - Overlap <= q
    BY DEF Larger
<1>5. p \in q .. taken /\ Letter(text, p)
    BY <1>1, <1>3, <1>4, StripsToLetter DEF Strips
<1>6. \A r \in chunk[2] + 1 .. p - 1 : ~Letter(text, r)
    <2>1. \A r \in q .. p - 1 : ~Letter(text, r)
        BY <1>1 DEF Strips
    <2> QED BY <1>2, <1>4, <2>1 DEF CurrentContinues, Interval
<1>7. TypeOK'
    BY <1>1, <1>2, <1>4, <1>5
<1>8. CurrentIsText'
    BY <1>1, <1>2, <1>3, <1>5 DEF CurrentIsText
<1>9. CurrentContinues'
    BY <1>1, <1>2, <1>4, <1>5, <1>6 DEF CurrentContinues, Interval
<1>10. ChunksFit' /\ ChunksContiguous'
    BY <1>2 DEF ChunksFit, ChunksContiguous
<1> QED BY <1>7, <1>8, <1>9, <1>10

LEMMA EndWhileKeeps ==
    ASSUME ChunkingInv, EndWhile
    PROVE  ChunkingInv'
BY DEF ChunkingInv, EndWhile, TypeOK, CurrentIsText, CurrentContinues, ChunksFit,
       ChunksContiguous, Length

LEMMA FinishKeeps ==
    ASSUME ChunkingInv, Finish
    PROVE  ChunkingInv'
<1> USE ChunkingAssumption DEF ChunkingInv, TypeOK
<1>1. /\ at = "paragraph" /\ at' = "done" /\ taken = Len(text)
      /\ UNCHANGED <<text, first, taken, split>>
    BY DEF Finish
<1>2. CASE Length > 0 /\ Emit(first, taken)
    <2>1. taken > 0 /\ first <= taken /\ Letter(text, first) /\ Letter(text, taken)
        BY <1>2 DEF CurrentIsText, Length
    <2>2. chunk' = <<first, taken>> /\ before' = chunk
        BY <1>2 DEF Emit
    <2>3. TypeOK' /\ CurrentIsText' /\ CurrentContinues'
        BY <1>1, <2>1, <2>2 DEF Interval, CurrentIsText, CurrentContinues
    <2>4. ChunksFit' /\ ChunksContiguous'
        BY <1>1, <2>1, <2>2
        DEF ChunksFit, ChunksContiguous, CurrentIsText, CurrentContinues, Length
    <2> QED BY <2>3, <2>4
<1>3. CASE Length = 0 /\ UNCHANGED <<chunk, before>>
    <2>1. taken = 0
        BY <1>3 DEF CurrentIsText, Length
    <2> QED BY <1>1, <1>3, <2>1
        DEF CurrentIsText, CurrentContinues, ChunksFit, ChunksContiguous
<1> QED BY <1>2, <1>3 DEF Finish

-----------------------------------------------------------------------------

\* The inductive invariant of chunk_text: current starts and ends with a letter
\* and continues the last chunk (chunking.py:30-48).
THEOREM ChunkingInvariant == Spec => []ChunkingInv
<1>1. ChunkingInv /\ [Next]_vars => ChunkingInv'
    <2> SUFFICES ASSUME ChunkingInv, [Next]_vars
                 PROVE  ChunkingInv'
        OBVIOUS
    <2>1. CASE Next
        BY <2>1, TakeParagraphKeeps, SplitKeeps, CutKeeps, EndWhileKeeps, FinishKeeps
        DEF Next
    <2>2. CASE UNCHANGED vars
        BY <2>2 DEF vars, ChunkingInv, TypeOK, CurrentIsText, CurrentContinues,
                    ChunksFit, ChunksContiguous, Length
    <2> QED BY <2>1, <2>2
<1> QED BY <1>1, InitEstablishes, PTL DEF Spec

\* No chunk is empty or longer than max_characters, for any text, maximum and
\* overlap (chunking.py:33, :43 and :47).
THEOREM EveryChunkFits == Spec => []ChunksFit
BY ChunkingInvariant, PTL DEF ChunkingInv

\* No text is lost between chunks or after the last, and they never share more
\* than the overlap, for any text, maximum and overlap.
THEOREM NoTextLost == Spec => []ChunksContiguous
BY ChunkingInvariant, PTL DEF ChunkingInv
=============================================================================
