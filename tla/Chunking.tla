------------------------------ MODULE Chunking ------------------------------
(***************************************************************************)
(* The two ways the code cuts a text: chunk_text, for the evidence index,  *)
(* and chunk_message, for platforms that limit the length of a message.    *)
(***************************************************************************)
EXTENDS Integers, Sequences, SequencesExt

(* chunk_text: a text of n units (words, signs) as windows <<from, to>>.   *)
ChunkText(n, size, overlap) ==
  LET end(from) == IF from + size < n THEN from + size ELSE n
      windows[from \in Nat] ==
        IF end(from) = n THEN <<<<from + 1, n>>>>
        ELSE <<<<from + 1, end(from)>>>> \o windows[end(from) - overlap]
  IN IF n = 0 THEN <<>> ELSE windows[0]

(* chunk_message: a message is the sequence of its paragraphs, each a      *)
(* sequence of characters (code points); Blank is the empty line between   *)
(* two.                                                                    *)
Newline == 10
Blank == <<Newline, Newline>>

Joined(paragraphs) ==
  FoldLeft(LAMBDA text, p : text \o Blank \o p, Head(paragraphs), Tail(paragraphs))

(* A paragraph that exceeds the limit is cut hard. *)
HardSplit(paragraph, limit) ==
  [i \in 1..((Len(paragraph) + limit - 1) \div limit) |->
     SubSeq(paragraph, (i - 1) * limit + 1,
            IF i * limit < Len(paragraph) THEN i * limit ELSE Len(paragraph))]

ChunkMessage(paragraphs, limit) ==
  LET flush(acc) == IF acc.current = <<>> THEN acc.chunks ELSE Append(acc.chunks, acc.current)
      add(acc, paragraph) ==
        LET potential == IF acc.current = <<>> THEN paragraph
                         ELSE acc.current \o Blank \o paragraph
        IN IF Len(potential) <= limit THEN [acc EXCEPT !.current = potential]
           ELSE IF Len(paragraph) > limit
           THEN [chunks |-> flush(acc) \o HardSplit(paragraph, limit), current |-> <<>>]
           ELSE [chunks |-> flush(acc), current |-> paragraph]
  IN IF Len(Joined(paragraphs)) <= limit THEN <<Joined(paragraphs)>>
     ELSE flush(FoldLeft(add, [chunks |-> <<>>, current |-> <<>>], paragraphs))
=============================================================================
