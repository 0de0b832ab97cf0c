-------------------------- MODULE ArgParserProofs --------------------------
(***************************************************************************)
(* str2arg reads a command line of any length as a reader of one character *)
(* at a time does, and arguments of any number and length, empty ones too, *)
(* come back from arg2str and str2arg if and only if they are              *)
(* Representable.                                                          *)
(*                                                                         *)
(* The functions are folds.  FoldLeftTheorems says of each what one more   *)
(* element changes; what a fold computes is then proved by induction.      *)
(***************************************************************************)
EXTENDS ArgParser, SequenceTheorems, TLAPS

-----------------------------------------------------------------------------
(* The folds.                                                              *)

QuoteChar(items, c) == AddChar(Quote, items, c)
SpaceChar(items, c) == AddChar(Space, items, c)

QuoteFold == INSTANCE FoldLeftTheorems WITH op <- QuoteChar
SpaceFold == INSTANCE FoldLeftTheorems WITH op <- SpaceChar
PieceFold == INSTANCE FoldLeftTheorems WITH op <- AddPiece
SubFold   == INSTANCE FoldLeftTheorems WITH op <- AddSub
MergeFold == INSTANCE FoldLeftTheorems WITH op <- Merge
ReadFold  == INSTANCE FoldLeftTheorems WITH op <- ReadChar
ArgFold   == INSTANCE FoldLeftTheorems WITH op <- AddArg

Text == Seq(Chars)
Word == Text \ {<<>>}
Words == Seq(Word)
Lists == Seq(Text)
Start == [ret |-> <<>>, quoted |-> FALSE]
Closed == [args |-> <<>>, open |-> FALSE, quoted |-> FALSE]

\* The four kinds of characters are different.
LEMMA CharFacts ==
    /\ Space \in Chars /\ Quote \in Chars /\ Backslash \in Chars
    /\ Space # Quote /\ Backslash # Quote /\ Backslash # Space
  BY DEF Space, Quote, Backslash, Chars

\* The folds of ArgParser are those that FoldLeftTheorems is about.
LEMMA FoldsAre ==
    /\ \A s : /\ Items(s, Quote) = QuoteFold!Fold(<< <<>> >>, s)
              /\ Items(s, Space) = SpaceFold!Fold(<< <<>> >>, s)
              /\ Pieces(s) = SubFold!Fold(Start, Split(s, Quote)).ret
              /\ Str2Arg(s) = MergeFold!Fold(<<>>, Pieces(s))
              /\ Read(s) = ReadFold!Fold(Closed, s)
    /\ \A r, sub : AddSub(r, sub) =
           [ret    |-> PieceFold!Fold(r.ret, IF r.quoted THEN <<sub>> ELSE Split(sub, Space)),
            quoted |-> ~r.quoted]
    /\ \A as : Arg2Str(as) = IF as = <<>> THEN <<>>
                             ELSE ArgFold!Fold(Quoted(as[1]), Tail(as))
  <1> USE DEF FoldLeft, MapThenFoldSet, Max
  <1>1. \A s : Items(s, Quote) = QuoteFold!Fold(<< <<>> >>, s)
    BY DEF Items, QuoteChar, QuoteFold!Fold, QuoteFold!FoldLeft, QuoteFold!MapThenFoldSet,
           QuoteFold!Max
  <1>2. \A s : Items(s, Space) = SpaceFold!Fold(<< <<>> >>, s)
    BY DEF Items, SpaceChar, SpaceFold!Fold, SpaceFold!FoldLeft, SpaceFold!MapThenFoldSet,
           SpaceFold!Max
  <1>3. \A s : Pieces(s) = SubFold!Fold(Start, Split(s, Quote)).ret
    BY DEF Pieces, Start, SubFold!Fold, SubFold!FoldLeft, SubFold!MapThenFoldSet, SubFold!Max
  <1>4. \A s : Str2Arg(s) = MergeFold!Fold(<<>>, Pieces(s))
    BY DEF Str2Arg, MergeFold!Fold, MergeFold!FoldLeft, MergeFold!MapThenFoldSet, MergeFold!Max
  <1>5. \A s : Read(s) = ReadFold!Fold(Closed, s)
    BY DEF Read, Closed, ReadFold!Fold, ReadFold!FoldLeft, ReadFold!MapThenFoldSet, ReadFold!Max
  <1>6. \A r, sub : AddSub(r, sub) =
           [ret    |-> PieceFold!Fold(r.ret, IF r.quoted THEN <<sub>> ELSE Split(sub, Space)),
            quoted |-> ~r.quoted]
    BY DEF AddSub, PieceFold!Fold, PieceFold!FoldLeft, PieceFold!MapThenFoldSet, PieceFold!Max
  <1>7. \A as : Arg2Str(as) = IF as = <<>> THEN <<>>
                             ELSE ArgFold!Fold(Quoted(as[1]), Tail(as))
    BY DEF Arg2Str, ArgFold!Fold, ArgFold!FoldLeft, ArgFold!MapThenFoldSet, ArgFold!Max
  <1> HIDE DEF FoldLeft, MapThenFoldSet, Max
  <1> QED BY <1>1, <1>2, <1>3, <1>4, <1>5, <1>6, <1>7

\* The end of a sequence that has been appended to.
LEMMA EndOfAppend ==
    ASSUME NEW S
    PROVE  \A s \in Seq(S), e \in S :
               /\ Front(Append(s, e)) = s /\ Last(Append(s, e)) = e
               /\ Append(s, e) \in Seq(S) /\ Append(s, e) # <<>>
  BY AppendProperties, SubSeqFull, LenProperties DEF Front, Last

\* A sequence that is not empty is its front with its last element appended.
LEMMA FrontAndLast ==
    ASSUME NEW S
    PROVE  \A s \in Seq(S) : s # <<>> =>
               Front(s) \in Seq(S) /\ Last(s) \in S /\ s = Append(Front(s), Last(s))
  <1> TAKE s \in Seq(S)
  <1> HAVE s # <<>>
  <1>1. PICK r \in Seq(S), e \in S : s = Append(r, e)
    BY SequenceEmptyOrAppend
  <1>2. Front(s) = r /\ Last(s) = e
    BY <1>1, EndOfAppend
  <1> QED BY <1>1, <1>2

\* What split does with one more character.
LEMMA ItemsSteps ==
    /\ Items(<<>>, Quote) = << <<>> >> /\ Items(<<>>, Space) = << <<>> >>
    /\ \A s \in Text, c \in Chars :
           /\ Items(Append(s, c), Quote) = AddChar(Quote, Items(s, Quote), c)
           /\ Items(Append(s, c), Space) = AddChar(Space, Items(s, Space), c)
  <1>1. /\ Items(<<>>, Quote) = << <<>> >>
        /\ \A s \in Text, c \in Chars :
               Items(Append(s, c), Quote) = AddChar(Quote, Items(s, Quote), c)
    BY FoldsAre, QuoteFold!FoldOfEmpty, QuoteFold!FoldOfAppend DEF QuoteChar, Text
  <1>2. /\ Items(<<>>, Space) = << <<>> >>
        /\ \A s \in Text, c \in Chars :
               Items(Append(s, c), Space) = AddChar(Space, Items(s, Space), c)
    BY FoldsAre, SpaceFold!FoldOfEmpty, SpaceFold!FoldOfAppend DEF SpaceChar, Text
  <1> QED BY <1>1, <1>2

\* What one more item changes in the pieces.
LEMMA PieceSteps ==
    /\ \A base : PieceFold!Fold(base, <<>>) = base
    /\ \A base : \A s \in Seq(Text), e \in Text :
           PieceFold!Fold(base, Append(s, e)) = AddPiece(PieceFold!Fold(base, s), e)
  BY PieceFold!FoldOfEmpty, PieceFold!FoldOfAppend

\* A sequence of one item.
LEMMA OneItem ==
    ASSUME NEW S
    PROVE  \A e \in S : /\ <<e>> = Append(<<>>, e) /\ <<e>> \in Seq(S) /\ <<e>> # <<>>
                       /\ Front(<<e>>) = <<>> /\ Last(<<e>>) = e
  <1> TAKE e \in S
  <1>1. <<e>> = Append(<<>>, e)
    OBVIOUS
  <1>2. <<>> \in Seq(S)
    OBVIOUS
  <1> QED BY <1>1, <1>2, EndOfAppend

\* What the two lemmas say of characters and of items.
LEMMA TextFacts ==
    /\ <<>> \in Text
    /\ \A s \in Text, c \in Chars : Append(s, c) \in Text
    /\ \A items \in Seq(Text), item \in Text :
           /\ Front(Append(items, item)) = items /\ Last(Append(items, item)) = item
           /\ Append(items, item) \in Seq(Text) /\ Append(items, item) # <<>>
    /\ \A items \in Seq(Text) \ {<<>>} :
           /\ Front(items) \in Seq(Text) /\ Last(items) \in Text
           /\ items = Append(Front(items), Last(items))
  <1>1. <<>> \in Text /\ \A s \in Text, c \in Chars : Append(s, c) \in Text
    BY AppendProperties DEF Text
  <1> HIDE DEF Text
  <1>2. \A items \in Seq(Text), item \in Text :
           /\ Front(Append(items, item)) = items /\ Last(Append(items, item)) = item
           /\ Append(items, item) \in Seq(Text) /\ Append(items, item) # <<>>
    BY EndOfAppend
  <1>3. \A items \in Seq(Text) \ {<<>>} :
           /\ Front(items) \in Seq(Text) /\ Last(items) \in Text
           /\ items = Append(Front(items), Last(items))
    BY FrontAndLast
  <1> QED BY <1>1, <1>2, <1>3

-----------------------------------------------------------------------------
(* What split returns, and what is made of it.                             *)

\* split has an item under way, also at the start.
LEMMA ItemsType ==
    \A s \in Text : /\ Items(s, Quote) \in Seq(Text) \ {<<>>}
                    /\ Items(s, Space) \in Seq(Text) \ {<<>>}
  <1> DEFINE T == {s \in Text : /\ Items(s, Quote) \in Seq(Text) \ {<<>>}
                               /\ Items(s, Space) \in Seq(Text) \ {<<>>}}
  <1>1. <<>> \in T
    <2>1. <<>> \in Text
      BY DEF Text
    <2> QED BY <2>1, OneItem, ItemsSteps
  <1>2. \A s \in Text : s \in T => \A c \in Chars : Append(s, c) \in T
    <2> SUFFICES ASSUME NEW s \in T, NEW c \in Chars  PROVE Append(s, c) \in T
      OBVIOUS
    <2>1. ASSUME NEW items \in Seq(Text) \ {<<>>}, NEW delim
          PROVE  AddChar(delim, items, c) \in Seq(Text) \ {<<>>}
      BY TextFacts DEF AddChar
    <2> QED BY <2>1, TextFacts, ItemsSteps
  <1>3. Text \subseteq T
    <2> HIDE DEF T
    <2> QED BY <1>1, <1>2, ReadFold!SeqSetInduction DEF Text
  <1> QED BY <1>3

\* An empty item adds no piece.
LEMMA EmptyPiece == \A ret : AddPiece(ret, <<>>) = ret
  BY DEF AddPiece, NonEmpty

\* The pieces between the spaces are made of the items of split, also of the empty one
\* after the last space that getline does not give.
LEMMA SpacePieces ==
    \A ret : \A s \in Text : PieceFold!Fold(ret, Split(s, Space))
                               = PieceFold!Fold(ret, Items(s, Space))
  <1> TAKE ret
  <1> TAKE s \in Text
  <1> DEFINE items == Items(s, Space)
  <1>1. Front(items) \in Seq(Text) /\ Last(items) \in Text
        /\ items = Append(Front(items), Last(items))
    BY ItemsType, TextFacts
  <1>2. PieceFold!Fold(ret, items) = AddPiece(PieceFold!Fold(ret, Front(items)), Last(items))
    BY <1>1, PieceSteps
  <1> QED BY <1>2, EmptyPiece DEF Split

\* What a quoted and an unquoted sub add.
LEMMA SubPieces ==
    \A r : \A sub \in Text :
        AddSub(r, sub) = [ret    |-> IF r.quoted THEN AddPiece(r.ret, sub)
                                     ELSE PieceFold!Fold(r.ret, Items(sub, Space)),
                          quoted |-> ~r.quoted]
  <1> TAKE r
  <1> TAKE sub \in Text
  <1>1. PieceFold!Fold(r.ret, <<sub>>) = AddPiece(r.ret, sub)
    <2>1. <<sub>> = Append(<<>>, sub) /\ <<>> \in Seq(Text)
      OBVIOUS
    <2>2. PieceFold!Fold(r.ret, Append(<<>>, sub)) = AddPiece(PieceFold!Fold(r.ret, <<>>), sub)
      BY <2>1, PieceSteps
    <2> QED BY <2>1, <2>2, PieceSteps
  <1> QED BY <1>1, FoldsAre, SpacePieces

\* An empty sub adds no piece.
LEMMA EmptySub == \A r : AddSub(r, <<>>).ret = r.ret
  <1> TAKE r
  <1>1. <<>> \in Text /\ <<>> \in Seq(Text)
    BY DEF Text
  <1>2. PieceFold!Fold(r.ret, << <<>> >>) = r.ret
    <2>1. << <<>> >> = Append(<<>>, <<>>)
      OBVIOUS
    <2>2. PieceFold!Fold(r.ret, Append(<<>>, <<>>)) = AddPiece(PieceFold!Fold(r.ret, <<>>), <<>>)
      BY <1>1, PieceSteps
    <2> QED BY <2>1, <2>2, EmptyPiece, PieceSteps
  <1> QED BY <1>1, <1>2, SubPieces, EmptyPiece, ItemsSteps

-----------------------------------------------------------------------------
(* The pieces of a command line, and what one more character changes.      *)

SubState == [ret : Words, quoted : BOOLEAN]

\* What str2arg has at the last quote, and what is behind that quote; of the pieces,
\* those that no further character changes, and the one under way, which may be empty.
Before(s) == SubFold!Fold(Start, Front(Items(s, Quote)))
Sub(s) == Last(Items(s, Quote))
Whole(s) == IF Before(s).quoted THEN Before(s).ret
            ELSE PieceFold!Fold(Before(s).ret, Front(Items(Sub(s), Space)))
Current(s) == IF Before(s).quoted THEN Sub(s) ELSE Last(Items(Sub(s), Space))

\* A piece that is added is not empty.
LEMMA AddPieceType ==
    \A ret \in Words, item \in Text : AddPiece(ret, item) \in Words
  <1> TAKE ret \in Words, item \in Text
  <1>1. CASE item = <<>>
    BY <1>1, EmptyPiece
  <1>2. CASE item # <<>>
    <2>1. item \in Word
      BY <1>2 DEF Word
    <2>2. Append(ret, item) \in Words
      BY <2>1, AppendProperties DEF Words
    <2> QED BY <1>2, <2>2 DEF AddPiece, NonEmpty
  <1> QED BY <1>1, <1>2

\* Nor are the pieces of any items.
LEMMA PiecesType ==
    \A ret \in Words : \A s \in Seq(Text) : PieceFold!Fold(ret, s) \in Words
  <1> TAKE ret \in Words
  <1> DEFINE T == {s \in Seq(Text) : PieceFold!Fold(ret, s) \in Words}
  <1>1. <<>> \in T
    BY PieceSteps
  <1>2. \A s \in Seq(Text) : s \in T => \A e \in Text : Append(s, e) \in T
    BY PieceSteps, AddPieceType, AppendProperties
  <1>3. Seq(Text) \subseteq T
    <2> HIDE DEF T
    <2> QED BY <1>1, <1>2, ReadFold!SeqSetInduction
  <1> QED BY <1>3

\* A sub leaves the pieces that are not empty and turns the quoting.
LEMMA AddSubType ==
    \A r \in SubState, sub \in Text : AddSub(r, sub) \in SubState
  <1> TAKE r \in SubState, sub \in Text
  <1>1. r.ret \in Words /\ r.quoted \in BOOLEAN
    BY DEF SubState
  <1>2. AddPiece(r.ret, sub) \in Words
    BY <1>1, AddPieceType
  <1>3. PieceFold!Fold(r.ret, Items(sub, Space)) \in Words
    BY <1>1, PiecesType, ItemsType
  <1>4. /\ (IF r.quoted THEN AddPiece(r.ret, sub)
            ELSE PieceFold!Fold(r.ret, Items(sub, Space))) \in Words
        /\ (~r.quoted) \in BOOLEAN
    BY <1>1, <1>2, <1>3
  <1>5. [ret    |-> IF r.quoted THEN AddPiece(r.ret, sub)
                    ELSE PieceFold!Fold(r.ret, Items(sub, Space)),
         quoted |-> ~r.quoted] \in SubState
    BY <1>4 DEF SubState
  <1> QED BY <1>5, SubPieces

\* What one more sub changes.
LEMMA SubSteps ==
    /\ SubFold!Fold(Start, <<>>) = Start
    /\ \A s \in Seq(Text), e \in Text :
           SubFold!Fold(Start, Append(s, e)) = AddSub(SubFold!Fold(Start, s), e)
  BY SubFold!FoldOfEmpty, SubFold!FoldOfAppend

\* What any subs leave.
LEMMA SubsType == \A s \in Seq(Text) : SubFold!Fold(Start, s) \in SubState
  <1> DEFINE T == {s \in Seq(Text) : SubFold!Fold(Start, s) \in SubState}
  <1>1. <<>> \in T
    <2>1. Start \in SubState
      BY DEF Start, SubState, Words
    <2> QED BY <2>1, SubSteps
  <1>2. \A s \in Seq(Text) : s \in T => \A e \in Text : Append(s, e) \in T
    BY SubSteps, AddSubType, AppendProperties
  <1>3. Seq(Text) \subseteq T
    <2> HIDE DEF T
    <2> QED BY <1>1, <1>2, ReadFold!SeqSetInduction
  <1> QED BY <1>3

\* The pieces are the whole ones and the one under way, if it is not empty.
LEMMA PiecesAre ==
    \A s \in Text : /\ Before(s) \in SubState /\ Sub(s) \in Text
                    /\ Whole(s) \in Words /\ Current(s) \in Text
                    /\ Pieces(s) = AddPiece(Whole(s), Current(s))
                    /\ Pieces(s) = AddSub(Before(s), Sub(s)).ret
                    /\ Pieces(s) \in Words
  <1> TAKE s \in Text
  <1> DEFINE items == Items(s, Quote)
             inner == Items(Sub(s), Space)
  <1>1. Front(items) \in Seq(Text) /\ Sub(s) \in Text /\ items = Append(Front(items), Sub(s))
    BY ItemsType, TextFacts DEF Sub
  <1>2. SubFold!Fold(Start, items) = AddSub(Before(s), Sub(s))
    BY <1>1, SubSteps DEF Before
  <1>3. Pieces(s) = AddSub(Before(s), Sub(s)).ret
    <2>1. CASE Sub(s) = <<>>
      <3>1. Split(s, Quote) = Front(items)
        BY <2>1 DEF Split, Sub
      <3> QED BY <2>1, <3>1, FoldsAre, EmptySub DEF Before
    <2>2. CASE Sub(s) # <<>>
      <3>1. Split(s, Quote) = items
        BY <2>2 DEF Split, Sub
      <3> QED BY <1>2, <3>1, FoldsAre
    <2> QED BY <2>1, <2>2
  <1>4. Before(s) \in SubState /\ Before(s).ret \in Words
    BY <1>1, SubsType DEF Before, SubState
  <1>5. Front(inner) \in Seq(Text) /\ Last(inner) \in Text
        /\ inner = Append(Front(inner), Last(inner))
    BY <1>1, ItemsType, TextFacts
  <1>6. PieceFold!Fold(Before(s).ret, inner)
            = AddPiece(PieceFold!Fold(Before(s).ret, Front(inner)), Last(inner))
    BY <1>5, PieceSteps
  <1>7. Whole(s) \in Words /\ Current(s) \in Text
    BY <1>1, <1>4, <1>5, PiecesType DEF Whole, Current
  <1>8. Pieces(s) = AddPiece(Whole(s), Current(s))
    BY <1>1, <1>3, <1>6, SubPieces DEF Whole, Current
  <1> QED BY <1>1, <1>3, <1>4, <1>7, <1>8, AddPieceType

\* A quote ends the piece under way.
LEMMA QuoteStep ==
    \A s \in Text :
        LET t == Append(s, Quote)
        IN  /\ Before(t).quoted = ~Before(s).quoted
            /\ Current(t) = <<>> /\ Pieces(t) = Pieces(s)
  <1> TAKE s \in Text
  <1> DEFINE t == Append(s, Quote)
             items == Items(s, Quote)
  <1>1. /\ Front(items) \in Seq(Text) /\ Sub(s) \in Text /\ items \in Seq(Text)
        /\ items = Append(Front(items), Sub(s)) /\ <<>> \in Text /\ t \in Text
    BY ItemsType, TextFacts, CharFacts DEF Sub
  <1>2. Items(t, Quote) = Append(items, <<>>)
    BY ItemsSteps, CharFacts DEF AddChar
  <1>3. Before(t) = SubFold!Fold(Start, items) /\ Sub(t) = <<>>
    BY <1>1, <1>2, TextFacts DEF Before, Sub
  <1>4. Before(t) = AddSub(Before(s), Sub(s))
    BY <1>1, <1>3, SubSteps DEF Before
  <1>5. Pieces(t) = Pieces(s)
    BY <1>1, <1>3, <1>4, EmptySub, PiecesAre
  <1>6. Before(t).quoted = ~Before(s).quoted
    BY <1>1, <1>4, SubPieces
  <1>7. Current(t) = <<>>
    <2>1. Last(Items(<<>>, Space)) = <<>>
      BY <1>1, ItemsSteps, OneItem
    <2> QED BY <1>3, <2>1 DEF Current
  <1> QED BY <1>5, <1>6, <1>7

\* Any other character belongs to the same sub.
LEMMA SameSub ==
    \A s \in Text, c \in Chars : c # Quote =>
        Before(Append(s, c)) = Before(s) /\ Sub(Append(s, c)) = Append(Sub(s), c)
  <1> TAKE s \in Text, c \in Chars
  <1> HAVE c # Quote
  <1> DEFINE items == Items(s, Quote)
  <1>1. Front(items) \in Seq(Text) /\ Sub(s) \in Text
    BY ItemsType, TextFacts DEF Sub
  <1>2. Append(Sub(s), c) \in Text
    BY <1>1, TextFacts
  <1>3. Items(Append(s, c), Quote) = Append(Front(items), Append(Sub(s), c))
    <2>1. AddChar(Quote, items, c) = Append(Front(items), Append(Last(items), c))
      BY DEF AddChar
    <2> QED BY <2>1, ItemsSteps DEF Sub
  <1>4. /\ Front(Items(Append(s, c), Quote)) = Front(items)
        /\ Last(Items(Append(s, c), Quote)) = Append(Sub(s), c)
    BY <1>1, <1>2, <1>3, TextFacts
  <1> QED BY <1>4 DEF Before, Sub

\* So does a space, outside of quotes.
LEMMA SpaceStep ==
    \A s \in Text : ~Before(s).quoted =>
        LET t == Append(s, Space)
        IN  /\ Before(t).quoted = Before(s).quoted
            /\ Current(t) = <<>> /\ Pieces(t) = Pieces(s)
  <1> TAKE s \in Text
  <1> HAVE ~Before(s).quoted
  <1> DEFINE t == Append(s, Space)
             inner == Items(Sub(s), Space)
  <1>1. Before(t) = Before(s) /\ Sub(t) = Append(Sub(s), Space)
    BY SameSub, CharFacts
  <1>2. Sub(s) \in Text /\ <<>> \in Text /\ inner \in Seq(Text) /\ t \in Text
    BY PiecesAre, ItemsType, TextFacts, CharFacts
  <1>3. Items(Sub(t), Space) = Append(inner, <<>>)
    BY <1>1, <1>2, ItemsSteps, CharFacts DEF AddChar
  <1>4. Whole(t) = PieceFold!Fold(Before(s).ret, inner) /\ Current(t) = <<>>
    BY <1>1, <1>2, <1>3, TextFacts DEF Whole, Current
  <1>5. Pieces(s) = PieceFold!Fold(Before(s).ret, inner)
    BY <1>2, PiecesAre, SubPieces
  <1> QED BY <1>1, <1>2, <1>4, <1>5, PiecesAre, EmptyPiece

\* Anything else goes on with the piece under way.
LEMMA LetterStep ==
    \A s \in Text, c \in Chars : c # Quote /\ (c = Space => Before(s).quoted) =>
        LET t == Append(s, c)
        IN  /\ Before(t).quoted = Before(s).quoted
            /\ Whole(t) = Whole(s) /\ Current(t) = Append(Current(s), c)
  <1> TAKE s \in Text, c \in Chars
  <1> HAVE c # Quote /\ (c = Space => Before(s).quoted)
  <1> DEFINE t == Append(s, c)
             inner == Items(Sub(s), Space)
  <1>1. Before(t) = Before(s) /\ Sub(t) = Append(Sub(s), c)
    BY SameSub
  <1>2. CASE Before(s).quoted
    BY <1>1, <1>2 DEF Whole, Current
  <1>3. CASE ~Before(s).quoted
    <2>1. Sub(s) \in Text /\ Front(inner) \in Seq(Text) /\ Last(inner) \in Text
      BY PiecesAre, ItemsType, TextFacts
    <2>2. Append(Last(inner), c) \in Text
      BY <2>1, TextFacts
    <2>3. Items(Sub(t), Space) = Append(Front(inner), Append(Last(inner), c))
      BY <1>1, <1>3, <2>1, ItemsSteps DEF AddChar
    <2>4. /\ Front(Items(Sub(t), Space)) = Front(inner)
          /\ Last(Items(Sub(t), Space)) = Append(Last(inner), c)
      BY <2>1, <2>2, <2>3, TextFacts
    <2> QED BY <1>1, <1>3, <2>4 DEF Whole, Current
  <1> QED BY <1>2, <1>3

-----------------------------------------------------------------------------
(* Merging, and the reader.                                                *)

ReaderState == {r \in [args : Words, open : BOOLEAN, quoted : BOOLEAN] :
                    r.open => r.args # <<>>}
Merged(ps) == MergeFold!Fold(<<>>, ps)

\* The ends of words, and of sequences of words.
LEMMA WordFacts ==
    /\ <<>> \in Words
    /\ \A w \in Word : w \in Text /\ w # <<>> /\ Front(w) \in Text
    /\ \A w \in Text, c \in Chars : Append(w, c) \in Word
    /\ \A c \in Chars : <<c>> \in Word /\ <<c>> = Append(<<>>, c)
    /\ \A ws \in Words, w \in Word :
           /\ Front(Append(ws, w)) = ws /\ Last(Append(ws, w)) = w
           /\ Append(ws, w) \in Words /\ Append(ws, w) # <<>>
    /\ \A ws \in Words : ws # <<>> => Front(ws) \in Words /\ Last(ws) \in Word
  <1>1. \A w \in Word : w \in Text /\ w # <<>> /\ Front(w) \in Text
    BY FrontAndLast DEF Word, Text
  <1>2. \A w \in Text, c \in Chars : Append(w, c) \in Word
    BY EndOfAppend DEF Word, Text
  <1>3. \A c \in Chars : <<c>> \in Word /\ <<c>> = Append(<<>>, c)
    BY OneItem DEF Word, Text
  <1> HIDE DEF Word
  <1>4. <<>> \in Words
    BY DEF Words
  <1>5. \A ws \in Words, w \in Word :
           /\ Front(Append(ws, w)) = ws /\ Last(Append(ws, w)) = w
           /\ Append(ws, w) \in Words /\ Append(ws, w) # <<>>
    BY EndOfAppend DEF Words
  <1>6. \A ws \in Words : ws # <<>> => Front(ws) \in Words /\ Last(ws) \in Word
    BY FrontAndLast DEF Words
  <1> QED BY <1>1, <1>2, <1>3, <1>4, <1>5, <1>6

\* Two elements are one and one.
LEMMA PairIsConcat ==
    ASSUME NEW S
    PROVE  \A a, b \in S : <<a>> \o <<b>> = <<a, b>>
  <1> TAKE a, b \in S
  <1>1. PICK s : s = <<a>> \o <<b>>
    OBVIOUS
  <1>2. PICK t : t = <<a, b>>
    OBVIOUS
  <1>3. <<a>> \in Seq(S) /\ <<b>> \in Seq(S) /\ t \in Seq(S) /\ Len(t) = 2 /\ t[1] = a /\ t[2] = b
    BY <1>2
  <1>4. s \in Seq(S) /\ Len(s) = 2 /\ s[1] = a /\ s[2] = b
    BY <1>1, <1>3, ConcatProperties
  <1>5. \A i \in 1..Len(s) : s[i] = t[i]
    BY <1>3, <1>4
  <1>6. s = t
    BY <1>3, <1>4, <1>5, SeqEqual
  <1> QED BY <1>1, <1>2, <1>6

\* The word that a merge makes, and what it is with one more character.
LEMMA Glue ==
    \A v \in Text, now \in Word, c \in Chars :
        /\ v \o <<Space>> \o now \in Word
        /\ Append(v \o <<Space>> \o now, c) = v \o <<Space>> \o Append(now, c)
        /\ v \o <<Space>> \o <<c>> = v \o <<Space, c>>
  <1> TAKE v \in Text, now \in Word, c \in Chars
  <1>1. v \in Seq(Chars) /\ now \in Seq(Chars) /\ now # <<>> /\ Space \in Chars
        /\ <<Space>> \in Seq(Chars) /\ <<c>> \in Seq(Chars)
    BY CharFacts DEF Word, Text
  <1>2. v \o <<Space>> \in Seq(Chars) /\ v \o <<Space>> \o now \in Seq(Chars)
    BY <1>1, ConcatProperties
  <1>3. v \o <<Space>> \o now # <<>>
    BY <1>1, <1>2, ConcatEqualIffEmpty
  <1>4. Append(v \o <<Space>> \o now, c) = (v \o <<Space>> \o now) \o <<c>>
    BY <1>2, AppendIsConcat
  <1>5. Append(now, c) = now \o <<c>>
    BY <1>1, AppendIsConcat
  <1>6. (v \o <<Space>> \o now) \o <<c>> = v \o <<Space>> \o (now \o <<c>>)
    BY <1>1, <1>2, ConcatAssociative
  <1>7. v \o <<Space>> \o <<c>> = v \o (<<Space>> \o <<c>>)
    BY <1>1, ConcatAssociative
  <1>8. <<Space>> \o <<c>> = <<Space, c>>
    BY <1>1, PairIsConcat
  <1> QED BY <1>2, <1>3, <1>4, <1>5, <1>6, <1>7, <1>8 DEF Word, Text

\* What a merge returns.
LEMMA MergeType ==
    \A out \in Words, now \in Word : Merge(out, now) \in Words /\ Merge(out, now) # <<>>
  BY WordFacts, Glue, CharFacts DEF Merge

\* A piece that grows lets the last argument grow.
LEMMA MergeGrows ==
    \A out \in Words, now \in Word, c \in Chars :
        Merge(out, Append(now, c))
            = Append(Front(Merge(out, now)), Append(Last(Merge(out, now)), c))
  <1> TAKE out \in Words, now \in Word, c \in Chars
  <1>1. CASE out # <<>> /\ EndsInBackslash(Last(out))
    <2> DEFINE v == Front(Last(out))
    <2>1. Front(out) \in Words /\ v \in Text
      BY <1>1, WordFacts
    <2>2. v \o <<Space>> \o now \in Word
          /\ Append(v \o <<Space>> \o now, c) = v \o <<Space>> \o Append(now, c)
      BY <2>1, Glue
    <2>3. Merge(out, now) = Append(Front(out), v \o <<Space>> \o now)
          /\ Merge(out, Append(now, c)) = Append(Front(out), v \o <<Space>> \o Append(now, c))
      BY <1>1 DEF Merge
    <2>4. Front(Merge(out, now)) = Front(out) /\ Last(Merge(out, now)) = v \o <<Space>> \o now
      <3>1. PICK f \in Words, w \in Word : f = Front(out) /\ w = v \o <<Space>> \o now
        BY <2>1, <2>2
      <3>2. Front(Append(f, w)) = f /\ Last(Append(f, w)) = w
        BY WordFacts
      <3> QED BY <2>3, <3>1, <3>2
    <2> QED BY <2>2, <2>3, <2>4
  <1>2. CASE ~(out # <<>> /\ EndsInBackslash(Last(out)))
    BY <1>2, WordFacts DEF Merge
  <1> QED BY <1>1, <1>2

\* What one more piece changes in the arguments.
LEMMA MergeSteps ==
    /\ Merged(<<>>) = <<>>
    /\ \A ps \in Words, now \in Word : Merged(Append(ps, now)) = Merge(Merged(ps), now)
  BY MergeFold!FoldOfEmpty, MergeFold!FoldOfAppend DEF Merged, Words

\* The arguments that any pieces make.
LEMMA MergedType == \A ps \in Words : Merged(ps) \in Words
  <1> DEFINE T == {ps \in Words : Merged(ps) \in Words}
  <1>1. <<>> \in T
    BY MergeSteps, WordFacts
  <1>2. \A ps \in Words : ps \in T => \A w \in Word : Append(ps, w) \in T
    BY MergeSteps, MergeType, WordFacts
  <1>3. Words \subseteq T
    <2> HIDE DEF T
    <2> QED BY <1>1, <1>2, ReadFold!SeqSetInduction DEF Words
  <1> QED BY <1>3

\* What one more character changes for the reader.
LEMMA ReadSteps ==
    /\ Read(<<>>) = Closed
    /\ \A s \in Text, c \in Chars : Read(Append(s, c)) = ReadChar(Read(s), c)
  BY FoldsAre, ReadFold!FoldOfEmpty, ReadFold!FoldOfAppend DEF Text

\* What the reader does with each kind of character.
LEMMA ReadCharSteps ==
    \A r \in ReaderState, c \in Chars :
        /\ ReadChar(r, c) \in ReaderState
        /\ c = Quote => ReadChar(r, c) = [args |-> r.args, open |-> FALSE, quoted |-> ~r.quoted]
        /\ c = Space /\ ~r.quoted =>
               ReadChar(r, c) = [args |-> r.args, open |-> FALSE, quoted |-> r.quoted]
        /\ c # Quote /\ (c = Space => r.quoted) =>
               /\ ReadChar(r, c).open /\ ReadChar(r, c).quoted = r.quoted
               /\ ~r.open => ReadChar(r, c).args = Merge(r.args, <<c>>)
               /\ r.open => ReadChar(r, c).args
                               = Append(Front(r.args), Append(Last(r.args), c))
  <1> TAKE r \in ReaderState, c \in Chars
  <1>1. r \in [args : Words, open : BOOLEAN, quoted : BOOLEAN] /\ (r.open => r.args # <<>>)
    BY DEF ReaderState
  <1>2. /\ r.args \in Words /\ r.open \in BOOLEAN /\ r.quoted \in BOOLEAN
        /\ r = [args |-> r.args, open |-> r.open, quoted |-> r.quoted]
    BY <1>1
  <1> DEFINE on == IF r.open THEN Append(Front(r.args), Append(Last(r.args), c))
                   ELSE Merge(r.args, <<c>>)
  <1>3. on \in Words /\ on # <<>>
    <2>1. CASE r.open
      BY <1>1, <1>2, <2>1, WordFacts
    <2>2. CASE ~r.open
      BY <1>2, <2>2, WordFacts, MergeType
    <2> QED BY <2>1, <2>2
  <1>4. CASE c = Quote
    <2>1. ReadChar(r, c) = [args |-> r.args, open |-> FALSE, quoted |-> ~r.quoted]
      BY <1>2, <1>4 DEF ReadChar
    <2>2. (~r.quoted) \in BOOLEAN
      OBVIOUS
    <2>3. ReadChar(r, c) \in ReaderState
      BY <1>2, <2>1, <2>2 DEF ReaderState
    <2> QED BY <1>4, <2>1, <2>3, CharFacts
  <1>5. CASE c = Space /\ ~r.quoted
    <2>1. ReadChar(r, c) = [args |-> r.args, open |-> FALSE, quoted |-> r.quoted]
      BY <1>2, <1>5, CharFacts DEF ReadChar
    <2>2. ReadChar(r, c) \in ReaderState
      BY <1>2, <2>1 DEF ReaderState
    <2> QED BY <1>5, <2>1, <2>2, CharFacts
  <1>6. CASE c # Quote /\ (c = Space => r.quoted)
    <2>1. Merge(r.args, <<c>>) =
              IF r.args # <<>> /\ EndsInBackslash(Last(r.args))
              THEN Append(Front(r.args), Front(Last(r.args)) \o <<Space, c>>)
              ELSE Append(r.args, <<c>>)
      BY <1>2, WordFacts, Glue DEF Merge
    <2>2. ReadChar(r, c) = [args |-> on, open |-> TRUE, quoted |-> r.quoted]
      BY <1>2, <1>6, <2>1 DEF ReadChar
    <2>3. ReadChar(r, c) \in ReaderState
      BY <1>2, <1>3, <2>2 DEF ReaderState
    <2> QED BY <1>6, <2>2, <2>3
  <1> QED BY <1>4, <1>5, <1>6

\* The reader and str2arg are at the same point of the same arguments.
LEMMA ReadsAlike ==
    \A s \in Text : /\ Read(s) \in ReaderState
                    /\ Read(s).quoted = Before(s).quoted
                    /\ Read(s).open <=> Current(s) # <<>>
                    /\ Read(s).args = Merged(Pieces(s))
  <1> DEFINE Alike(s) == /\ Read(s) \in ReaderState
                         /\ Read(s).quoted = Before(s).quoted
                         /\ Read(s).open <=> Current(s) # <<>>
                         /\ Read(s).args = Merged(Pieces(s))
             T == {s \in Text : Alike(s)}
  <1>1. <<>> \in T
    <2>1. Items(<<>>, Quote) = << <<>> >> /\ Items(<<>>, Space) = << <<>> >>
      BY ItemsSteps
    <2>2. Sub(<<>>) = <<>> /\ Front(Items(<<>>, Quote)) = <<>> /\ Last(Items(<<>>, Space)) = <<>>
          /\ Front(Items(<<>>, Space)) = <<>>
      BY <2>1, TextFacts, OneItem DEF Sub
    <2>3. Before(<<>>) = Start
      BY <2>2, SubSteps DEF Before
    <2>4. Current(<<>>) = <<>> /\ Whole(<<>>) = <<>>
      BY <2>2, <2>3, PieceSteps DEF Current, Whole, Start
    <2>5. Pieces(<<>>) = <<>>
      BY <2>4, PiecesAre, TextFacts, EmptyPiece
    <2>6. Closed \in ReaderState
      BY WordFacts DEF Closed, ReaderState
    <2>7. Read(<<>>).args = Merged(Pieces(<<>>)) /\ Read(<<>>).quoted = Before(<<>>).quoted
          /\ ~Read(<<>>).open
      <3>1. Read(<<>>) = Closed /\ Merged(<<>>) = <<>>
        BY ReadSteps, MergeSteps
      <3>2. Closed.args = <<>> /\ Closed.quoted = FALSE /\ Closed.open = FALSE
        BY DEF Closed
      <3>3. Start.quoted = FALSE
        BY DEF Start
      <3> HIDE DEF Alike
      <3> QED BY <2>3, <2>5, <3>1, <3>2, <3>3
    <2> QED BY <2>4, <2>6, <2>7, ReadSteps, TextFacts
  <1>2. ASSUME NEW s \in Text, s \in T, NEW c \in Chars  PROVE Append(s, c) \in T
    <2> DEFINE t == Append(s, c)
               r == Read(s)
    <2> USE <1>2
    <2>1. Alike(s) /\ t \in Text /\ Read(t) = ReadChar(r, c) /\ Read(t) \in ReaderState
      <3>1. Alike(s)
        OBVIOUS
      <3>2. t \in Text
        BY TextFacts
      <3>3. Read(t) = ReadChar(r, c)
        BY ReadSteps
      <3> QED BY <3>1, <3>2, <3>3, ReadCharSteps
    <2> SUFFICES Alike(t)
      BY <2>1
    <2>2. CASE c = Quote
      <3>1. /\ Before(t).quoted = ~Before(s).quoted
            /\ Current(t) = <<>> /\ Pieces(t) = Pieces(s)
        BY <2>2, QuoteStep
      <3>2. Read(t) = [args |-> r.args, open |-> FALSE, quoted |-> ~r.quoted]
        BY <2>1, <2>2, ReadCharSteps
      <3> QED BY <2>1, <3>1, <3>2
    <2>3. CASE c = Space /\ ~r.quoted
      <3>1. /\ Before(t).quoted = Before(s).quoted
            /\ Current(t) = <<>> /\ Pieces(t) = Pieces(s)
        BY <2>1, <2>3, SpaceStep
      <3>2. Read(t) = [args |-> r.args, open |-> FALSE, quoted |-> r.quoted]
        BY <2>1, <2>3, ReadCharSteps
      <3> QED BY <2>1, <3>1, <3>2
    <2>4. CASE c # Quote /\ (c = Space => r.quoted)
      <3>1. /\ Before(t).quoted = Before(s).quoted
            /\ Whole(t) = Whole(s) /\ Current(t) = Append(Current(s), c)
        BY <2>1, <2>4, LetterStep
      <3>2. /\ Whole(s) \in Words /\ Current(s) \in Text
            /\ Pieces(s) = AddPiece(Whole(s), Current(s))
            /\ Pieces(t) = AddPiece(Whole(t), Current(t))
        BY <2>1, PiecesAre
      <3>3. Append(Current(s), c) \in Word /\ Append(Current(s), c) # <<>>
        BY <3>2, WordFacts
      <3>4. Merged(Pieces(t)) = Merge(Merged(Whole(s)), Append(Current(s), c))
        BY <3>1, <3>2, <3>3, MergeSteps DEF AddPiece, NonEmpty
      <3>5. CASE Current(s) = <<>>
        <4>1. Pieces(s) = Whole(s) /\ Append(Current(s), c) = <<c>>
          BY <3>2, <3>5, EmptyPiece, WordFacts
        <4>2. Read(t).args = Merge(r.args, <<c>>)
          BY <2>1, <2>4, <3>5, ReadCharSteps
        <4>3. Read(t).args = Merged(Pieces(t))
          BY <2>1, <3>4, <4>1, <4>2
        <4> QED BY <2>1, <2>4, <3>1, <3>3, <4>3, ReadCharSteps
      <3>6. CASE Current(s) # <<>>
        <4>1. Current(s) \in Word /\ Pieces(s) = Append(Whole(s), Current(s))
          BY <3>2, <3>6 DEF AddPiece, NonEmpty, Word
        <4>2. Merged(Pieces(s)) = Merge(Merged(Whole(s)), Current(s))
          BY <3>2, <4>1, MergeSteps
        <4>3. Read(t).args = Append(Front(r.args), Append(Last(r.args), c))
          BY <2>1, <2>4, <3>6, ReadCharSteps
        <4>4. Merge(Merged(Whole(s)), Append(Current(s), c))
                  = Append(Front(r.args), Append(Last(r.args), c))
          BY <2>1, <3>2, <4>1, <4>2, MergedType, MergeGrows
        <4>5. Read(t).args = Merged(Pieces(t))
          BY <3>4, <4>3, <4>4
        <4> QED BY <2>1, <2>4, <3>1, <3>3, <4>5, ReadCharSteps
      <3> QED BY <3>5, <3>6
    <2> QED BY <2>2, <2>3, <2>4
  <1>3. Text \subseteq T
    <2> HIDE DEF T
    <2> QED BY <1>1, <1>2, ReadFold!SeqSetInduction DEF Text
  <1> QED BY <1>3

\* str2arg splits at quotes, then at spaces, and then merges; on a command line of any
\* length it comes to the arguments that the reader makes in one pass.
THEOREM LineRead ==
    \A s \in Text : Str2Arg(s) = OnePass(s) /\ Str2Arg(s) \in Words
  <1> TAKE s \in Text
  <1>1. Str2Arg(s) = Merged(Pieces(s))
    BY FoldsAre DEF Merged
  <1> QED BY <1>1, ReadsAlike DEF OnePass, ReaderState

-----------------------------------------------------------------------------
(* Arguments, and the command line that arg2str makes of them.             *)

\* What one more character changes in what a text contains.
LEMMA ContainsSteps ==
    \A d : /\ ~Contains(<<>>, d)
          /\ \A w \in Text, c \in Chars : Contains(Append(w, c), d) <=> Contains(w, d) \/ c = d
  <1> TAKE d
  <1>1. ~Contains(<<>>, d)
    BY DEF Contains
  <1>2. ASSUME NEW w \in Text, NEW c \in Chars
        PROVE  Contains(Append(w, c), d) <=> Contains(w, d) \/ c = d
    <2>1. /\ Len(w) \in Nat /\ Len(Append(w, c)) = Len(w) + 1
          /\ \A i \in 1..Len(w) : Append(w, c)[i] = w[i]
          /\ Append(w, c)[Len(w) + 1] = c
      BY AppendProperties, LenProperties DEF Text
    <2> QED BY <2>1 DEF Contains
  <1> QED BY <1>1, <1>2

\* A text that goes on.
LEMMA TextConcat ==
    /\ \A u, w \in Text : u \o w \in Text
    /\ \A u \in Text : u \o <<>> = u
    /\ \A u, w \in Text, c \in Chars : u \o Append(w, c) = Append(u \o w, c)
    /\ \A u \in Text, c \in Chars : <<c>> \in Text /\ u \o <<c>> = Append(u, c)
    /\ \A u, v, w \in Text : (u \o v) \o w = u \o (v \o w)
  <1>1. \A u, w \in Seq(Chars) : u \o w \in Seq(Chars)
    BY ConcatProperties
  <1>2. \A u \in Seq(Chars) : u \o <<>> = u
    BY ConcatEmptySeq
  <1>3. \A u \in Seq(Chars), c \in Chars : <<c>> \in Seq(Chars) /\ u \o <<c>> = Append(u, c)
    BY AppendIsConcat
  <1>4. \A u, v, w \in Seq(Chars) : (u \o v) \o w = u \o (v \o w)
    BY ConcatAssociative
  <1>5. \A u, w \in Seq(Chars), c \in Chars : u \o Append(w, c) = Append(u \o w, c)
    BY <1>1, <1>3, <1>4
  <1> QED BY <1>1, <1>2, <1>3, <1>4, <1>5 DEF Text

\* What the reader makes of a word behind a closed argument: in quotes, or without
\* a space in it, the word is merged with what was read before.
WordReadAt(u, w) ==
    ~Contains(w, Quote) /\ (Contains(w, Space) => Read(u).quoted) =>
        /\ Read(u \o w).quoted = Read(u).quoted
        /\ Read(u \o w).open <=> w # <<>>
        /\ Read(u \o w).args = IF w = <<>> THEN Read(u).args ELSE Merge(Read(u).args, w)

\* Every word is read so.
LEMMA WordRead ==
    \A u \in Text : ~Read(u).open => \A w \in Text : WordReadAt(u, w)
  <1> TAKE u \in Text
  <1> HAVE ~Read(u).open
  <1> DEFINE T == {w \in Text : WordReadAt(u, w)}
  <1>1. <<>> \in T
    BY TextFacts, TextConcat DEF WordReadAt
  <1>2. ASSUME NEW w \in Text, w \in T, NEW c \in Chars  PROVE WordReadAt(u, Append(w, c))
    <2> DEFINE r == Read(u \o w)
               t == Append(w, c)
               x == Read(u).args
    <2> SUFFICES ASSUME ~Contains(t, Quote), Contains(t, Space) => Read(u).quoted
                 PROVE  /\ Read(u \o t).quoted = Read(u).quoted
                        /\ Read(u \o t).open <=> t # <<>>
                        /\ Read(u \o t).args = IF t = <<>> THEN x ELSE Merge(x, t)
      BY DEF WordReadAt
    <2>1. /\ ~Contains(w, Quote) /\ (Contains(w, Space) => Read(u).quoted)
          /\ c # Quote /\ (c = Space => Read(u).quoted)
      BY ContainsSteps
    <2>2. /\ r.quoted = Read(u).quoted /\ (r.open <=> w # <<>>)
          /\ r.args = IF w = <<>> THEN x ELSE Merge(x, w)
      BY <1>2, <2>1 DEF WordReadAt
    <2>3. Read(u \o t) = ReadChar(r, c) /\ r \in ReaderState /\ x \in Words
      <3>1. u \o t = Append(u \o w, c) /\ u \o w \in Text
        BY <1>2, TextConcat
      <3> QED BY <3>1, ReadSteps, ReadsAlike DEF ReaderState
    <2>4. t # <<>> /\ t \in Word
      BY <1>2, WordFacts
    <2>5. CASE w = <<>>
      <3>1. t = <<c>>
        BY <2>5, WordFacts
      <3> QED BY <2>1, <2>2, <2>3, <2>4, <2>5, <3>1, ReadCharSteps
    <2>6. CASE w # <<>>
      <3>1. w \in Word
        BY <1>2, <2>6 DEF Word
      <3>2. Read(u \o t).args = Append(Front(Merge(x, w)), Append(Last(Merge(x, w)), c))
        BY <2>1, <2>2, <2>3, <2>6, ReadCharSteps
      <3>3. Read(u \o t).args = Merge(x, t)
        BY <2>3, <3>1, <3>2, MergeGrows
      <3>4. /\ ReadChar(r, c).open
            /\ ReadChar(r, c).quoted = r.quoted
        BY <2>1, <2>2, <2>3, ReadCharSteps
      <3> QED BY <2>2, <2>3, <2>4, <3>3, <3>4
    <2> QED BY <2>5, <2>6
  <1>3. \A w \in Text : w \in T => \A c \in Chars : Append(w, c) \in T
    BY <1>2, TextFacts
  <1>4. Text \subseteq T
    <2> HIDE DEF T
    <2> QED BY <1>1, <1>3, ReadFold!SeqSetInduction DEF Text
  <1> QED BY <1>4

\* What arg2str writes for an argument.
LEMMA QuotedType == \A w \in Text : Quoted(w) \in Text
  <1> TAKE w \in Text
  <1>1. w \in Text /\ <<Quote>> \in Text
    BY WordFacts, TextConcat, CharFacts
  <1>2. <<Quote>> \o w \o <<Quote>> \in Text
    BY <1>1, TextConcat
  <1> QED BY <1>1, <1>2 DEF Quoted

\* What it makes of an argument as arg2str writes it, outside of quotes.
LEMMA QuotedRead ==
    \A u \in Text : ~Read(u).open /\ ~Read(u).quoted =>
        \A w \in Word : ~Contains(w, Quote) =>
            /\ Read(u \o Quoted(w)).args = Merge(Read(u).args, w)
            /\ ~Read(u \o Quoted(w)).quoted
  <1> TAKE u \in Text
  <1> HAVE ~Read(u).open /\ ~Read(u).quoted
  <1> TAKE w \in Word
  <1> HAVE ~Contains(w, Quote)
  <1>1. w \in Text /\ w # <<>> /\ <<Quote>> \in Text
    BY WordFacts, TextConcat, CharFacts
  <1>2. CASE ~Contains(w, Space)
    <2>1. WordReadAt(u, w)
      BY <1>1, WordRead
    <2> QED BY <1>1, <1>2, <2>1 DEF WordReadAt, Quoted
  <1>3. CASE Contains(w, Space)
    <2> DEFINE v == Append(u, Quote)
    <2>1. v \in Text /\ v \o w \in Text /\ u \o Quoted(w) = Append(v \o w, Quote)
      <3>1. Quoted(w) = (<<Quote>> \o w) \o <<Quote>> /\ <<Quote>> \o w \in Text
        BY <1>1, <1>3, TextConcat DEF Quoted
      <3>2. u \o Quoted(w) = (u \o (<<Quote>> \o w)) \o <<Quote>>
        BY <1>1, <3>1, TextConcat
      <3>3. u \o <<Quote>> = v /\ v \in Text
        BY CharFacts, TextFacts, TextConcat
      <3>4. u \o (<<Quote>> \o w) = v \o w /\ v \o w \in Text
        <4>1. (u \o <<Quote>>) \o w = u \o (<<Quote>> \o w)
          BY <1>1, TextConcat
        <4> QED BY <1>1, <3>3, <4>1, TextConcat
      <3>5. (v \o w) \o <<Quote>> = Append(v \o w, Quote)
        BY <3>4, CharFacts, TextConcat
      <3> QED BY <3>2, <3>3, <3>4, <3>5
    <2>2. Read(v) = [args |-> Read(u).args, open |-> FALSE, quoted |-> ~Read(u).quoted]
      <3>1. Read(v) = ReadChar(Read(u), Quote) /\ Read(u) \in ReaderState
        BY ReadSteps, ReadsAlike, CharFacts
      <3> QED BY <3>1, ReadCharSteps, CharFacts
    <2>3. WordReadAt(v, w)
      BY <1>1, <2>1, <2>2, WordRead
    <2>4. Read(v \o w).quoted /\ Read(v \o w).args = Merge(Read(u).args, w)
      <3>1. Read(v).quoted /\ Read(v).args = Read(u).args
        <4>1. Read(v).quoted = ~Read(u).quoted
          BY <2>2
        <4>2. Read(v).args = Read(u).args
          BY <2>2
        <4> QED BY <4>1, <4>2
      <3>2. Read(v \o w).quoted = Read(v).quoted /\ Read(v \o w).args = Merge(Read(v).args, w)
        BY <1>1, <2>3, <3>1 DEF WordReadAt
      <3> QED BY <3>1, <3>2
    <2>5. /\ Read(u \o Quoted(w)).args = Read(v \o w).args
          /\ Read(u \o Quoted(w)).quoted = ~Read(v \o w).quoted
      <3>1. Read(u \o Quoted(w)) = ReadChar(Read(v \o w), Quote) /\ Read(v \o w) \in ReaderState
        BY <2>1, ReadSteps, ReadsAlike, CharFacts
      <3>2. Read(u \o Quoted(w)) = [args |-> Read(v \o w).args, open |-> FALSE,
                                    quoted |-> ~Read(v \o w).quoted]
        BY <3>1, ReadCharSteps, CharFacts
      <3> QED BY <3>2
    <2> QED BY <2>4, <2>5
  <1> QED BY <1>2, <1>3

\* The arguments before one that is appended, and that one.
IsAppended(t, ws, w, n) ==
    /\ t = Append(ws, w) /\ n = Len(ws)
    /\ DOMAIN ws = 1..n /\ DOMAIN t = 1..(n + 1) /\ Len(t) = n + 1
    /\ t[n + 1] = w /\ \A i \in 1..n : t[i] = ws[i]

\* Every sequence that is appended to is such a sequence.
LEMMA AppendIndex ==
    ASSUME NEW S
    PROVE  \A ws \in Seq(S), w \in S : \E n \in Nat, t \in Seq(S) : IsAppended(t, ws, w, n)
  <1> TAKE ws \in Seq(S), w \in S
  <1>1. PICK n : n = Len(ws)
    OBVIOUS
  <1>2. PICK t \in Seq(S) : t = Append(ws, w)
    BY EndOfAppend
  <1>3. n \in Nat /\ DOMAIN ws = 1..n
    BY <1>1, LenProperties
  <1>4. Len(t) = n + 1 /\ t[n + 1] = w /\ \A i \in 1..n : t[i] = ws[i]
    BY <1>1, <1>2, AppendProperties
  <1>5. DOMAIN t = 1..(n + 1)
    BY <1>4, LenProperties
  <1> QED BY <1>1, <1>2, <1>3, <1>4, <1>5 DEF IsAppended

\* Words, and other lists of arguments.
LEMMA WordsIndex ==
    /\ \A ws \in Words, w \in Word : \E n \in Nat, t \in Words : IsAppended(t, ws, w, n)
    /\ \A ws \in Lists, w \in Text : \E n \in Nat, t \in Lists : IsAppended(t, ws, w, n)
    /\ Words \subseteq Lists /\ Word \subseteq Text
  <1>1. Word \subseteq Text
    BY DEF Word
  <1>2. Words \subseteq Lists
    BY <1>1, SeqMonotonic DEF Words, Lists
  <1> QED BY <1>1, <1>2, AppendIndex DEF Words, Lists

\* What arg2str does with one more argument.
LEMMA ArgSteps ==
    /\ Arg2Str(<<>>) = <<>>
    /\ \A as \in Lists, a \in Text :
           Arg2Str(Append(as, a)) = IF as = <<>> THEN Quoted(a)
                                    ELSE AddArg(Arg2Str(as), a)
  <1>1. Arg2Str(<<>>) = <<>>
    BY FoldsAre
  <1>2. ASSUME NEW as \in Lists, NEW a \in Text
        PROVE  Arg2Str(Append(as, a)) = IF as = <<>> THEN Quoted(a) ELSE AddArg(Arg2Str(as), a)
    <2> DEFINE t == Append(as, a)
    <2>1. t # <<>> /\ Tail(t) = IF as = <<>> THEN <<>> ELSE Append(Tail(as), a)
      BY TextFacts, HeadTailAppend DEF Lists
    <2>2. Arg2Str(t) = ArgFold!Fold(Quoted(t[1]), Tail(t))
      BY <2>1, FoldsAre
    <2>3. CASE as = <<>>
      <3>1. t[1] = a
        BY <2>3
      <3> QED BY <2>1, <2>2, <2>3, <3>1, ArgFold!FoldOfEmpty
    <2>4. CASE as # <<>>
      <3>1. t[1] = as[1] /\ Tail(as) \in Seq(Text)
        <4>1. Tail(as) \in Seq(Text) /\ Len(as) # 0
          BY <2>4, EmptySeq, HeadTailProperties DEF Lists
        <4>2. PICK n \in Nat, z \in Lists : IsAppended(z, as, a, n)
          BY WordsIndex
        <4>3. z = t /\ n # 0 /\ \A i \in 1..n : z[i] = as[i]
          BY <4>1, <4>2 DEF IsAppended
        <4>4. 1 \in 1..n
          BY <4>3
        <4> HIDE DEF t
        <4> QED BY <4>1, <4>3, <4>4
      <3>2. ArgFold!Fold(Quoted(as[1]), Append(Tail(as), a))
                = AddArg(ArgFold!Fold(Quoted(as[1]), Tail(as)), a)
        <4>1. \A base : \A s \in Seq(Text), e \in Text :
                  ArgFold!Fold(base, Append(s, e)) = AddArg(ArgFold!Fold(base, s), e)
          BY ArgFold!FoldOfAppend
        <4> QED BY <3>1, <4>1
      <3>3. Arg2Str(as) = ArgFold!Fold(Quoted(as[1]), Tail(as))
        BY <2>4, FoldsAre
      <3> QED BY <2>1, <2>2, <2>4, <3>1, <3>2, <3>3
    <2> QED BY <2>3, <2>4
  <1> QED BY <1>1, <1>2

\* A space closes what was written, and the argument follows.
LEMMA AddArgIs ==
    \A s \in Text, a \in Text : /\ AddArg(s, a) = Append(s, Space) \o Quoted(a)
                               /\ AddArg(s, a) \in Text /\ Append(s, Space) \in Text
  BY QuotedType, TextConcat, TextFacts, CharFacts DEF AddArg

\* What arg2str writes for any arguments.
LEMMA Arg2StrType == \A as \in Lists : Arg2Str(as) \in Text
  <1> DEFINE T == {as \in Lists : Arg2Str(as) \in Text}
  <1>1. <<>> \in T
    BY ArgSteps, TextFacts DEF Lists
  <1>2. \A as \in Lists : as \in T => \A a \in Text : Append(as, a) \in T
    <2> SUFFICES ASSUME NEW as \in Lists, as \in T, NEW a \in Text
                 PROVE  Append(as, a) \in T
      OBVIOUS
    <2>1. Append(as, a) \in Lists /\ Quoted(a) \in Text /\ AddArg(Arg2Str(as), a) \in Text
      BY AddArgIs, QuotedType, TextFacts DEF Lists
    <2>2. Arg2Str(Append(as, a)) = IF as = <<>> THEN Quoted(a) ELSE AddArg(Arg2Str(as), a)
      BY ArgSteps
    <2> QED BY <2>1, <2>2
  <1>3. Lists \subseteq T
    <2> HIDE DEF T
    <2> QED BY <1>1, <1>2, ReadFold!SeqSetInduction DEF Lists
  <1> QED BY <1>3

\* Arguments without quotes are read as str2arg merges its pieces.
QuoteFree(as) == \A i \in DOMAIN as : ~Contains(as[i], Quote)

\* Arguments are free of quotes if each is.
LEMMA QuoteFreeAppend ==
    \A as \in Words, a \in Word :
        QuoteFree(Append(as, a)) <=> QuoteFree(as) /\ ~Contains(a, Quote)
  <1> TAKE as \in Words, a \in Word
  <1>1. PICK n \in Nat, t \in Words : IsAppended(t, as, a, n)
    BY WordsIndex
  <1>2. QuoteFree(t) <=> QuoteFree(as) /\ ~Contains(a, Quote)
    <2>1. \A i : i \in 1..(n + 1) <=> i \in 1..n \/ i = n + 1
      OBVIOUS
    <2> QED BY <1>1, <2>1 DEF QuoteFree, IsAppended
  <1> QED BY <1>1, <1>2 DEF IsAppended

\* The reader merges arguments that are free of quotes and finds no quote open.
LEMMA ArgsRead ==
    \A as \in Words : QuoteFree(as) =>
        Read(Arg2Str(as)).args = Merged(as) /\ ~Read(Arg2Str(as)).quoted
  <1> DEFINE Is(as) == QuoteFree(as) =>
                 Read(Arg2Str(as)).args = Merged(as) /\ ~Read(Arg2Str(as)).quoted
             T == {as \in Words : Is(as)}
  <1>1. <<>> \in T
    <2>1. Read(<<>>).args = <<>> /\ ~Read(<<>>).quoted
      BY ReadSteps DEF Closed
    <2> QED BY <2>1, ArgSteps, MergeSteps, WordFacts
  <1>2. ASSUME NEW as \in Words, Is(as), NEW a \in Word  PROVE Is(Append(as, a))
    <2> DEFINE t == Append(as, a)
               s == Arg2Str(as)
    <2> SUFFICES ASSUME QuoteFree(t)
                 PROVE  Read(Arg2Str(t)).args = Merged(t) /\ ~Read(Arg2Str(t)).quoted
      OBVIOUS
    <2>1. QuoteFree(as) /\ ~Contains(a, Quote)
      BY QuoteFreeAppend
    <2>0. as \in Lists /\ a \in Text
      BY WordsIndex
    <2>2. Read(s).args = Merged(as) /\ ~Read(s).quoted /\ s \in Text /\ Read(s) \in ReaderState
      BY <1>2, <2>0, <2>1, Arg2StrType, ReadsAlike
    <2>3. Merged(t) = Merge(Merged(as), a)
      BY MergeSteps
    <2>4. \E u \in Text : /\ Arg2Str(t) = u \o Quoted(a)
                          /\ ~Read(u).open /\ ~Read(u).quoted /\ Read(u).args = Merged(as)
      <3>1. CASE as = <<>>
        <4>1. s = <<>> /\ Arg2Str(t) = Quoted(a)
          BY <2>0, <3>1, ArgSteps
        <4>2. <<>> \o Quoted(a) = Quoted(a)
          BY <2>0, QuotedType, ConcatEmptySeq DEF Text
        <4>3. ~Read(<<>>).open
          BY ReadSteps DEF Closed
        <4> QED BY <2>2, <4>1, <4>2, <4>3
      <3>2. CASE as # <<>>
        <4>1. Arg2Str(t) = Append(s, Space) \o Quoted(a) /\ Append(s, Space) \in Text
          BY <2>0, <2>2, <3>2, ArgSteps, AddArgIs
        <4>2. Read(Append(s, Space)) = ReadChar(Read(s), Space)
          BY <2>2, ReadSteps, CharFacts
        <4>3. Read(Append(s, Space))
                  = [args |-> Read(s).args, open |-> FALSE, quoted |-> Read(s).quoted]
          BY <2>2, <4>2, ReadCharSteps, CharFacts
        <4>4. /\ Read(Append(s, Space)).args = Merged(as)
              /\ ~Read(Append(s, Space)).open /\ ~Read(Append(s, Space)).quoted
          <5>1. /\ Read(Append(s, Space)).args = Read(s).args
                /\ Read(Append(s, Space)).open = FALSE
            BY <4>3
          <5>2. Read(Append(s, Space)).quoted = Read(s).quoted
            BY <4>3
          <5> QED BY <2>2, <5>1, <5>2
        <4> QED BY <4>1, <4>4
      <3> QED BY <3>1, <3>2
    <2> QED BY <2>1, <2>3, <2>4, QuotedRead
  <1>3. \A as \in Words : as \in T => \A a \in Word : Append(as, a) \in T
    <2> HIDE DEF Is
    <2> QED BY <1>2, WordFacts
  <1>4. Words \subseteq T
    <2> HIDE DEF T
    <2> QED BY <1>1, <1>3, ReadFold!SeqSetInduction DEF Words
  <1> QED BY <1>4

\* What is merged: a word with a backslash at its end and one more behind it.
Unbroken(as) == \A i \in 1..(Len(as) - 1) : ~EndsInBackslash(as[i])

\* The argument before the one that is appended is the last that may break this.
LEMMA UnbrokenAppend ==
    \A as \in Words, a \in Word :
        Unbroken(Append(as, a)) <=>
            Unbroken(as) /\ (as # <<>> => ~EndsInBackslash(Last(as)))
  <1> TAKE as \in Words, a \in Word
  <1>1. PICK n \in Nat, t \in Words : IsAppended(t, as, a, n)
    BY WordsIndex
  <1>2. Len(t) - 1 = n /\ Len(as) = n /\ (as # <<>> => n # 0) /\ (n # 0 => as # <<>>)
    <2>1. as \in Seq(Word)
      BY DEF Words
    <2>2. Len(as) = n /\ Len(t) - 1 = n
      <3>1. n = Len(as) /\ Len(t) = n + 1
        BY <1>1 DEF IsAppended
      <3>2. (n + 1) - 1 = n
        OBVIOUS
      <3> HIDE DEF IsAppended
      <3> QED BY <3>1, <3>2
    <2>3. as # <<>> => Len(as) # 0
      BY <2>1, EmptySeq
    <2>4. as = <<>> => Len(as) = 0
      BY EmptySeq
    <2> QED BY <2>2, <2>3, <2>4
  <1>3. Last(as) = as[n]
    BY <1>1 DEF IsAppended, Last
  <1>4. Unbroken(t) <=> \A i \in 1..n : ~EndsInBackslash(as[i])
    BY <1>1, <1>2 DEF Unbroken, IsAppended
  <1>5. Unbroken(as) <=> \A i \in 1..(n - 1) : ~EndsInBackslash(as[i])
    BY <1>2 DEF Unbroken
  <1>6. CASE n = 0
    BY <1>1, <1>2, <1>4, <1>5, <1>6 DEF IsAppended
  <1>7. CASE n # 0
    <2>1. \A i : i \in 1..n <=> i \in 1..(n - 1) \/ i = n
      BY <1>7
    <2> QED BY <1>1, <1>2, <1>3, <1>4, <1>5, <1>7, <2>1 DEF IsAppended
  <1> QED BY <1>6, <1>7

\* The last character of a word is that of the argument that it ends.
LEMMA MergeEnds ==
    \A out \in Words, now \in Word :
        /\ EndsInBackslash(Last(Merge(out, now))) <=> EndsInBackslash(now)
        /\ Len(Merge(out, now)) = IF out # <<>> /\ EndsInBackslash(Last(out))
                                  THEN Len(out) ELSE Len(out) + 1
  <1> TAKE out \in Words, now \in Word
  <1>1. CASE out # <<>> /\ EndsInBackslash(Last(out))
    <2> DEFINE v == Front(Last(out))
    <2>1. Front(out) \in Words /\ v \in Text
      BY <1>1, WordFacts
    <2>2. v \o <<Space>> \o now \in Word
      BY <2>1, Glue, CharFacts
    <2>3. Merge(out, now) = Append(Front(out), v \o <<Space>> \o now)
      BY <1>1 DEF Merge
    <2>4. Last(Merge(out, now)) = v \o <<Space>> \o now
      <3>1. PICK f \in Words, w \in Word : f = Front(out) /\ w = v \o <<Space>> \o now
        BY <2>1, <2>2
      <3>2. Last(Append(f, w)) = w
        BY WordFacts
      <3> QED BY <2>3, <3>1, <3>2
    <2>5. Last(v \o <<Space>> \o now) = Last(now)
      <3>1. PICK r \in Seq(Chars), c \in Chars : now = Append(r, c)
        BY SequenceEmptyOrAppend DEF Word, Text
      <3>2. Last(now) = c
        BY <3>1, EndOfAppend
      <3>3. v \o <<Space>> \o now = Append(v \o <<Space>> \o r, c) /\ v \o <<Space>> \o r \in Text
        <4>1. v \o <<Space>> \in Text /\ r \in Text
          BY <2>1, TextConcat, CharFacts DEF Text
        <4> QED BY <3>1, <4>1, TextConcat
      <3>4. Last(Append(v \o <<Space>> \o r, c)) = c
        BY <3>3, EndOfAppend DEF Text
      <3> QED BY <3>2, <3>3, <3>4
    <2>6. Len(Merge(out, now)) = Len(out)
      <3>1. Len(Merge(out, now)) = Len(Front(out)) + 1
        BY <2>1, <2>2, <2>3, AppendProperties DEF Words
      <3>2. Len(out) = Len(Front(out)) + 1
        <4>1. out = Append(Front(out), Last(out)) /\ Front(out) \in Seq(Word) /\ Last(out) \in Word
          BY <1>1, FrontAndLast DEF Words
        <4> QED BY <4>1, AppendProperties
      <3> QED BY <3>1, <3>2
    <2> QED BY <1>1, <2>4, <2>5, <2>6 DEF EndsInBackslash
  <1>2. CASE ~(out # <<>> /\ EndsInBackslash(Last(out)))
    <2>1. Merge(out, now) = Append(out, now)
      BY <1>2 DEF Merge
    <2>2. Len(Append(out, now)) = Len(out) + 1
      BY AppendProperties DEF Words
    <2> QED BY <1>2, <2>1, <2>2, WordFacts
  <1> QED BY <1>1, <1>2

\* Merging leaves the arguments as they are if none but the last ends in a backslash,
\* and makes them fewer otherwise.
MergedAs(as) ==
    /\ Len(Merged(as)) <= Len(as)
    /\ as # <<>> => Merged(as) # <<>> /\ (EndsInBackslash(Last(Merged(as))) <=>
                                          EndsInBackslash(Last(as)))
    /\ Unbroken(as) => Merged(as) = as
    /\ ~Unbroken(as) => Len(Merged(as)) < Len(as)

\* Merging does so with all arguments.
LEMMA MergedUnbroken == \A as \in Words : MergedAs(as)
  <1> DEFINE T == {as \in Words : MergedAs(as)}
  <1>1. <<>> \in T
    <2>1. Unbroken(<<>>)
      BY DEF Unbroken
    <2>2. Len(<<>>) <= Len(<<>>)
      OBVIOUS
    <2> QED BY <2>1, <2>2, MergeSteps, WordFacts DEF MergedAs
  <1>2. ASSUME NEW as \in Words, MergedAs(as), NEW a \in Word  PROVE MergedAs(Append(as, a))
    <2>1. PICK n \in Nat, t \in Words : IsAppended(t, as, a, n)
      BY WordsIndex
    <2>2. PICK m : m = Merged(as)
      OBVIOUS
    <2>3. PICK k : k = Merged(t)
      OBVIOUS
    <2>4. /\ t = Append(as, a) /\ Len(as) = n /\ Len(t) = n + 1
          /\ t # <<>> /\ Last(t) = a
      BY <2>1, WordFacts DEF IsAppended
    <2>5. k = Merge(m, a) /\ m \in Words /\ Len(m) \in Nat
      BY <2>2, <2>3, <2>4, MergeSteps, MergedType, LenProperties DEF Words
    <2>6. /\ k # <<>> /\ (EndsInBackslash(Last(k)) <=> EndsInBackslash(Last(t)))
          /\ Len(k) = IF m # <<>> /\ EndsInBackslash(Last(m)) THEN Len(m) ELSE Len(m) + 1
      BY <2>4, <2>5, MergeType, MergeEnds
    <2>7. /\ Len(m) <= n /\ (Unbroken(as) => m = as) /\ (~Unbroken(as) => Len(m) < n)
          /\ m # <<>> /\ EndsInBackslash(Last(m)) <=>
                 as # <<>> /\ EndsInBackslash(Last(as))
      BY <1>2, <2>2, <2>4, MergeSteps DEF MergedAs
    <2>8. Unbroken(t) <=> Unbroken(as) /\ ~(m # <<>> /\ EndsInBackslash(Last(m)))
      BY <2>4, <2>7, UnbrokenAppend
    <2>9. Len(k) <= Len(t) /\ (~Unbroken(t) => Len(k) < Len(t))
      <3>1. PICK p \in Nat : p = Len(m)
        BY <2>5
      <3>2. PICK q : q = Len(k)
        OBVIOUS
      <3>3. p <= n /\ (~Unbroken(as) => p < n)
        BY <2>7, <3>1
      <3>4. CASE m # <<>> /\ EndsInBackslash(Last(m))
        <4>1. q = p
          BY <2>6, <3>1, <3>2, <3>4
        <4>2. q <= n + 1 /\ q < n + 1
          BY <3>3, <4>1
        <4> QED BY <2>4, <3>2, <4>2
      <3>5. CASE ~(m # <<>> /\ EndsInBackslash(Last(m)))
        <4>1. q = p + 1 /\ (~Unbroken(t) => ~Unbroken(as))
          BY <2>6, <2>8, <3>1, <3>2, <3>5
        <4>2. p < n => q < n + 1
          BY <4>1
        <4>3. q <= n + 1
          BY <3>3, <4>1
        <4> QED BY <2>4, <3>2, <3>3, <4>1, <4>2, <4>3
      <3> QED BY <3>4, <3>5
    <2>10. Unbroken(t) => k = t
      <3> SUFFICES ASSUME Unbroken(t)  PROVE k = t
        OBVIOUS
      <3>1. m = as /\ ~(m # <<>> /\ EndsInBackslash(Last(m)))
        BY <2>7, <2>8
      <3>2. Merge(m, a) = Append(m, a)
        BY <3>1 DEF Merge
      <3> QED BY <2>4, <2>5, <3>1, <3>2
    <2> QED BY <2>3, <2>4, <2>6, <2>9, <2>10 DEF MergedAs
  <1>3. \A as \in Words : as \in T => \A a \in Word : Append(as, a) \in T
    BY <1>2, WordFacts
  <1>4. Words \subseteq T
    <2> HIDE DEF T
    <2> QED BY <1>1, <1>3, ReadFold!SeqSetInduction DEF Words
  <1> QED BY <1>4

\* An argument that goes on with another character holds no quote if neither does.
LEMMA QuoteFreeEnd ==
    \A ws \in Words : ws # <<>> /\ QuoteFree(ws) =>
        /\ QuoteFree(Front(ws)) /\ ~Contains(Last(ws), Quote)
        /\ ~Contains(Front(Last(ws)), Quote)
  <1> TAKE ws \in Words
  <1> HAVE ws # <<>> /\ QuoteFree(ws)
  <1>1. Front(ws) \in Words /\ Last(ws) \in Word /\ ws = Append(Front(ws), Last(ws))
    BY FrontAndLast DEF Words
  <1>2. QuoteFree(Front(ws)) /\ ~Contains(Last(ws), Quote)
    BY <1>1, QuoteFreeAppend
  <1>3. PICK w \in Text, c \in Chars : Last(ws) = Append(w, c) /\ Front(Last(ws)) = w
    <2>1. \A w \in Word : /\ Front(w) \in Text /\ Last(w) \in Chars
                          /\ w = Append(Front(w), Last(w))
      BY FrontAndLast DEF Word, Text
    <2> QED BY <1>1, <2>1
  <1>4. ~Contains(Front(Last(ws)), Quote)
    BY <1>2, <1>3, ContainsSteps
  <1> QED BY <1>2, <1>4

\* The reader puts no quote into an argument.
LEMMA ReadQuoteFree == \A s \in Text : QuoteFree(Read(s).args)
  <1> DEFINE T == {s \in Text : QuoteFree(Read(s).args)}
  <1>0. /\ ~Contains(<<>>, Quote)
        /\ \A w \in Text : \A c \in Chars :
               c # Quote /\ ~Contains(w, Quote) => ~Contains(Append(w, c), Quote)
    BY ContainsSteps
  <1>1. <<>> \in T
    <2>1. QuoteFree(<<>>)
      BY DEF QuoteFree
    <2>2. Read(<<>>).args = <<>>
      BY ReadSteps DEF Closed
    <2> QED BY <2>1, <2>2, TextFacts
  <1>2. ASSUME NEW s \in Text, QuoteFree(Read(s).args), NEW c \in Chars
        PROVE  QuoteFree(Read(Append(s, c)).args)
    <2>1. PICK r \in ReaderState : r = Read(s) /\ Read(Append(s, c)) = ReadChar(r, c)
      BY ReadSteps, ReadsAlike
    <2>2. PICK out \in Words : out = r.args /\ QuoteFree(out) /\ (r.open => out # <<>>)
      BY <1>2, <2>1 DEF ReaderState
    <2>3. CASE c = Quote \/ (c = Space /\ ~r.quoted)
      <3>1. ReadChar(r, c).args = out
        <4>1. CASE c = Quote
          <5>1. ReadChar(r, c) = [args |-> r.args, open |-> FALSE, quoted |-> ~r.quoted]
            BY <4>1, ReadCharSteps
          <5> QED BY <2>2, <5>1
        <4>2. CASE c = Space /\ ~r.quoted
          <5>1. ReadChar(r, c) = [args |-> r.args, open |-> FALSE, quoted |-> r.quoted]
            BY <4>2, ReadCharSteps
          <5> QED BY <2>2, <5>1
        <4> QED BY <2>3, <4>1, <4>2
      <3> QED BY <2>1, <2>2, <3>1
    <2>4. CASE c # Quote /\ (c = Space => r.quoted) /\ r.open
      <3>1. ReadChar(r, c).args = Append(Front(out), Append(Last(out), c))
        BY <2>2, <2>4, ReadCharSteps
      <3>2. Front(out) \in Words /\ Last(out) \in Text /\ Append(Last(out), c) \in Word
        BY <2>2, <2>4, WordFacts
      <3>3. QuoteFree(Front(out)) /\ ~Contains(Append(Last(out), c), Quote)
        BY <2>2, <2>4, <3>2, QuoteFreeEnd, ContainsSteps
      <3> QED BY <2>1, <3>1, <3>2, <3>3, QuoteFreeAppend
    <2>5. CASE c # Quote /\ (c = Space => r.quoted) /\ ~r.open
      <3>1. ReadChar(r, c).args = Merge(out, <<c>>)
        BY <2>2, <2>5, ReadCharSteps
      <3>2. PICK w \in Word : w = <<c>> /\ w = Append(<<>>, c)
        BY WordFacts
      <3>3. PICK t : t = ReadChar(r, c).args
        OBVIOUS
      <3>4. ~Contains(w, Quote)
        BY <1>0, <2>5, <3>2, TextFacts
      <3>5. CASE out # <<>> /\ EndsInBackslash(Last(out))
        <4>1. PICK v \in Text : v = Front(Last(out)) /\ ~Contains(v, Quote)
          BY <2>2, <3>5, WordFacts, QuoteFreeEnd
        <4>2. PICK f \in Words : f = Front(out) /\ QuoteFree(f)
          BY <2>2, <3>5, WordFacts, QuoteFreeEnd
        <4>3. PICK u \in Word : u = Append(v, Space) /\ ~Contains(u, Quote)
          <5>1. Append(v, Space) \in Word /\ ~Contains(Append(v, Space), Quote)
            BY <1>0, <4>1, WordFacts, CharFacts
          <5> QED BY <5>1
        <4>4. PICK x \in Word : x = Append(u, c) /\ ~Contains(x, Quote)
          <5>1. Append(u, c) \in Word /\ ~Contains(Append(u, c), Quote)
            BY <1>0, <2>5, <4>3, WordFacts
          <5> QED BY <5>1
        <4>5. v \o <<Space>> \o w = x
          <5>1. v \o <<Space>> = u
            BY <4>1, <4>3, TextConcat, CharFacts
          <5>2. u \o <<c>> = x
            BY <4>3, <4>4, TextConcat, WordFacts
          <5> QED BY <3>2, <5>1, <5>2
        <4>6. t = Append(f, x)
          BY <3>1, <3>2, <3>3, <3>5, <4>1, <4>2, <4>5 DEF Merge
        <4>7. QuoteFree(t)
          BY <4>2, <4>4, <4>6, QuoteFreeAppend
        <4> QED BY <2>1, <3>3, <4>7
      <3>6. CASE ~(out # <<>> /\ EndsInBackslash(Last(out)))
        <4>1. t = Append(out, w)
          BY <3>1, <3>2, <3>3, <3>6 DEF Merge
        <4>2. QuoteFree(t)
          BY <2>2, <3>4, <4>1, QuoteFreeAppend
        <4> QED BY <2>1, <3>3, <4>2
      <3> QED BY <3>5, <3>6
    <2> QED BY <2>3, <2>4, <2>5
  <1>3. \A s \in Text : s \in T => \A c \in Chars : Append(s, c) \in T
    BY <1>2, TextFacts
  <1>4. Text \subseteq T
    <2> HIDE DEF T
    <2> QED BY <1>1, <1>3, ReadFold!SeqSetInduction DEF Text
  <1> QED BY <1>4

\* Words are the lists of which no argument is empty.
LEMMA WordsAre == \A as \in Lists : as \in Words <=> \A i \in DOMAIN as : as[i] # <<>>
  <1> TAKE as \in Lists
  <1>1. Len(as) \in Nat /\ DOMAIN as = 1..Len(as) /\ \A i \in 1..Len(as) : as[i] \in Text
    BY LenProperties, ElementOfSeq DEF Lists
  <1>2. ASSUME as \in Words  PROVE \A i \in DOMAIN as : as[i] # <<>>
    <2>1. \A i \in 1..Len(as) : as[i] \in Word
      BY <1>2, ElementOfSeq DEF Words
    <2> QED BY <1>1, <2>1 DEF Word
  <1>3. ASSUME \A i \in DOMAIN as : as[i] # <<>>  PROVE as \in Words
    <2>0. \A S : Seq(S) = UNION {[1..n -> S] : n \in Nat}
      BY SeqDef
    <2>1. PICK n \in Nat : as \in [1..n -> Text]
      <3>1. as \in UNION {[1..n -> Text] : n \in Nat}
        BY <2>0, Zenon DEF Lists
      <3> QED BY <3>1, Zenon
    <2>2. \A i \in 1..n : as[i] \in Word
      BY <1>3, <2>1 DEF Word
    <2>3. as \in [1..n -> Word]
      BY <2>1, <2>2
    <2>4. as \in UNION {[1..m -> Word] : m \in Nat}
      BY <2>3, Zenon
    <2> QED BY <2>0, <2>4, Zenon DEF Words
  <1> QED BY <1>2, <1>3

\* Words come back if and only if they hold no quote and none but the last ends in a
\* backslash.  The reader returns no quote, and fewer arguments where one is merged.
LEMMA WordsBack == \A as \in Words : Str2Arg(Arg2Str(as)) = as <=> Representable(as)
  <1> TAKE as \in Words
  <1>0. as \in Lists /\ \A i \in DOMAIN as : as[i] # <<>>
    BY WordsIndex, WordsAre
  <1>1. Representable(as) <=> QuoteFree(as) /\ Unbroken(as)
    BY <1>0 DEF Representable, QuoteFree, Unbroken
  <1>2. Arg2Str(as) \in Text /\ Str2Arg(Arg2Str(as)) = Read(Arg2Str(as)).args
    BY <1>0, Arg2StrType, LineRead DEF OnePass
  <1>3. QuoteFree(as) => Str2Arg(Arg2Str(as)) = Merged(as)
    BY <1>2, ArgsRead
  <1>4. ASSUME Str2Arg(Arg2Str(as)) = as  PROVE QuoteFree(as) /\ Unbroken(as)
    <2>1. QuoteFree(as)
      BY <1>2, <1>4, ReadQuoteFree
    <2>2. Merged(as) = as
      BY <1>3, <1>4, <2>1
    <2>3. ~(Len(as) < Len(as))
      <3>1. Len(as) \in Nat
        BY LenProperties DEF Words
      <3>2. \A n \in Nat : ~(n < n)
        OBVIOUS
      <3> QED BY <3>1, <3>2
    <2>4. ~Unbroken(as) => Len(as) < Len(as)
      BY <2>2, MergedUnbroken DEF MergedAs
    <2> QED BY <2>1, <2>3, <2>4
  <1>5. ASSUME QuoteFree(as), Unbroken(as)  PROVE Str2Arg(Arg2Str(as)) = as
    BY <1>3, <1>5, MergedUnbroken DEF MergedAs
  <1> QED BY <1>1, <1>4, <1>5

\* What a command line that arg2str has made of any arguments is read as: the arguments
\* themselves if and only if they are Representable.  str2arg returns no empty argument,
\* whatever it reads, so a list that has one does not come back.
THEOREM ReadBack == \A as \in Lists : Str2Arg(Arg2Str(as)) = as <=> Representable(as)
  <1> TAKE as \in Lists
  <1>1. CASE as \in Words
    BY <1>1, WordsBack
  <1>2. CASE as \notin Words
    <2>1. ~Representable(as)
      BY <1>2, WordsAre DEF Representable
    <2>2. Str2Arg(Arg2Str(as)) \in Words
      BY Arg2StrType, LineRead
    <2> QED BY <1>2, <2>1, <2>2
  <1> QED BY <1>1, <1>2

-----------------------------------------------------------------------------
(* The user.                                                               *)

\* The user writes characters.
Written == line \in Text /\ args \in Lists

\* Init makes it so, and each step keeps it.
LEMMA WrittenInductive ==
    /\ Init => Written
    /\ Written /\ [Next]_vars => Written'
  <1>1. Init => Written
    BY TextFacts DEF Init, Written, Lists
  <1>2. ASSUME Written, [Next]_vars  PROVE Written'
    <2>1. line \in Text /\ args \in Lists
      BY <1>2 DEF Written
    <2>2. ASSUME NEW c \in Chars, Type(c)  PROVE Written'
      BY <2>1, <2>2, TextFacts DEF Type, Written
    <2>3. CASE NewArg
      BY <2>1, <2>3, TextFacts DEF NewArg, Written, Lists
    <2>4. ASSUME NEW c \in Chars, ExtendArg(c)  PROVE Written'
      <3>1. Front(args) \in Lists /\ Append(Last(args), c) \in Text
        BY <2>1, <2>4, TextFacts DEF ExtendArg, Lists
      <3> QED BY <2>1, <2>4, <3>1, TextFacts DEF ExtendArg, Written, Lists
    <2>5. CASE UNCHANGED vars
      BY <2>1, <2>5 DEF vars, Written
    <2> QED BY <1>2, <2>2, <2>3, <2>4, <2>5 DEF Next
  <1> QED BY <1>1, <1>2

\* Whatever is typed, str2arg returns arguments that are not empty.
THEOREM ReaderTypeCorrect == Spec => []TypeOK
  <1>1. Written => TypeOK
    BY LineRead DEF Written, TypeOK, Lists, Words, Word, Text
  <1> QED BY <1>1, WrittenInductive, PTL DEF Spec

\* Whatever is typed, str2arg and the reader of one pass agree about it.
THEOREM OnePassAlways == Spec => []ParsesInOnePass
  <1>1. Written => ParsesInOnePass
    BY LineRead DEF Written, ParsesInOnePass
  <1> QED BY <1>1, WrittenInductive, PTL DEF Spec

\* Whatever arguments are written, they come back if and only if they are Representable.
THEOREM RoundTripAlways == Spec => []RoundTrip
  <1>1. Written => RoundTrip
    BY ReadBack DEF Written, RoundTrip
  <1> QED BY <1>1, WrittenInductive, PTL DEF Spec
=============================================================================
