---------------------------- MODULE LeafSegments ----------------------------
(***************************************************************************)
(* How the text of a leaf is cut into segments for the embedding model        *)
(* (_split_leaf_content_for_embedding, services/bookrag_tree.py).             *)
(*                                                                           *)
(* A text is the sequence of the token counts of its units, 0 for a run of    *)
(* white space; a unit of more than one token is a word.  A piece of text is  *)
(* a sequence of pairs: the place of a unit, and the tokens the piece has of  *)
(* it, which are fewer than the unit's only if the word was cut.              *)
(***************************************************************************)
EXTENDS Naturals, SequencesExt

CONSTANTS
  TokenLimit,    \* _BOOKRAG_EMBEDDING_TOKEN_LIMIT
  OverlapTokens  \* _BOOKRAG_EMBEDDING_OVERLAP_TOKENS

ASSUME LimitAssumption == TokenLimit \in Nat \ {0} /\ OverlapTokens \in 0 .. TokenLimit - 1

Units(text) == [i \in DOMAIN text |-> <<i, text[i]>>]
Plus(sum, unit) == sum + unit[2]
Tokens(piece) == FoldLeft(Plus, 0, piece)
Visible(piece) == {i \in DOMAIN piece : piece[i][2] > 0}
Stripped(piece) ==
  IF Visible(piece) = {} THEN <<>> ELSE SubSeq(piece, Min(Visible(piece)), Max(Visible(piece)))
Kept(segments, piece) ==
  IF Visible(piece) = {} THEN segments ELSE Append(segments, Stripped(piece))

\* What the next segment begins with: at least the last unit, whatever its size.
Carried(piece) ==
  LET tail(k) == SubSeq(piece, Len(piece) - k + 1, Len(piece))
      fits == {k \in 1 .. Len(piece) : k = 1 \/ Tokens(tail(k)) <= OverlapTokens}
  IN IF OverlapTokens = 0 \/ piece = <<>> THEN <<>> ELSE tail(Max(fits))

Chunks(unit) ==
  [k \in 1 .. (unit[2] + TokenLimit - 1) \div TokenLimit |->
     <<<<unit[1], Min({TokenLimit, unit[2] - (k - 1) * TokenLimit})>>>>]

\* One turn of the loop: segments are finished, open is current_units.
AddUnit(cut, unit) ==
  LET flushed == Kept(cut.segments, cut.open)
  IN IF unit[2] > TokenLimit
     THEN [segments |-> flushed \o Chunks(unit), open |-> <<>>]
     ELSE IF cut.open # <<>> /\ Tokens(cut.open) + unit[2] > TokenLimit
     THEN [segments |-> flushed, open |-> Append(Carried(cut.open), unit)]
     ELSE [cut EXCEPT !.open = Append(@, unit)]

Segments(text) ==
  LET cut == FoldLeft(AddUnit, [segments |-> <<>>, open |-> <<>>], Units(text))
  IN Kept(cut.segments, cut.open)

-----------------------------------------------------------------------------
(* What a reader of the segments relies on, for a text and its segments.     *)

\* What a segment repeats of the one before it: as both are stretches of the
\* text, as many of its first units as the two have in common.
Shared(p, q) == SubSeq(q, 1, Cardinality({u \in DOMAIN q : \E i \in DOMAIN p : p[i][1] = q[u][1]}))

\* No word is lost, cut words are whole again when put together, a segment is a
\* stretch of the text, and each ends behind the one before; only one over the
\* limit may be followed by a segment that repeats its end and adds nothing.
CoversText(text, pieces) ==
  /\ \A i \in DOMAIN text : text[i] > 0 =>
       LET holds == {k \in DOMAIN pieces : \E u \in DOMAIN pieces[k] : pieces[k][u][1] = i}
       IN \/ holds # {} /\ \A k \in holds : \E u \in DOMAIN pieces[k] : pieces[k][u] = <<i, text[i]>>
          \/ \E j, l \in DOMAIN pieces :
               /\ j <= l /\ holds = j .. l
               /\ \A k \in j .. l - 1 : pieces[k] = <<<<i, TokenLimit>>>>
               /\ pieces[l] = <<<<i, text[i] - (l - j) * TokenLimit>>>>
  /\ \A k \in DOMAIN pieces :
       /\ \A u \in DOMAIN pieces[k] : pieces[k][u][1] = Head(pieces[k])[1] + u - 1
       /\ k > 1 => \/ Last(pieces[k - 1])[1] < Last(pieces[k])[1]
                   \/ Len(pieces[k]) = 1 /\ text[Last(pieces[k])[1]] > TokenLimit
                   \/ Tokens(pieces[k - 1]) > TokenLimit

\* What is new in a segment is within the limit; what it repeats is within the
\* overlap, or is a single unit.  The whole may be over the limit.
LimitsText(pieces) ==
  \A k \in DOMAIN pieces \ {1} :
    LET again == Shared(pieces[k - 1], pieces[k])
    IN \/ Len(pieces[k]) = 1 /\ Tokens(pieces[k]) <= TokenLimit
       \/ /\ Tokens(pieces[k]) <= TokenLimit + Tokens(again)
          /\ Tokens(again) <= OverlapTokens \/ Cardinality(Visible(again)) = 1
=============================================================================
