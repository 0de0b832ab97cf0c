----------------------------- MODULE ArgParser -----------------------------
(***************************************************************************)
(* str2arg, which makes the arguments of a child out of the command line   *)
(* that exec() is given, and arg2str, which makes a command line out of    *)
(* arguments.  A character is one of four: a letter stands for all that    *)
(* mean nothing to them.  The state machine is the user who writes a       *)
(* command line, or arguments, a character at a time.                      *)
(***************************************************************************)
EXTENDS SequencesExt, Integers

CONSTANT MaxLen     \* bound on the characters, and on arguments and characters, written

ASSUME ArgParserAssumption == MaxLen \in Nat

VARIABLES
    line,     \* a command line
    args      \* arguments, when there is no command line

vars == <<line, args>>

Space == " "
Quote == "\""
Backslash == "\\"
Chars == {"x", Space, Quote, Backslash}

-----------------------------------------------------------------------------
(* str2arg and arg2str.                                                    *)

\* The items between delimiters; getline gives no empty one after the last.
AddChar(delim, items, c) ==
    IF c = delim THEN Append(items, <<>>)
    ELSE Append(Front(items), Append(Last(items), c))

Items(s, delim) == FoldLeft(LAMBDA items, c : AddChar(delim, items, c), << <<>> >>, s)

Split(s, delim) == LET items == Items(s, delim)
                   IN  IF Last(items) = <<>> THEN Front(items) ELSE items

Anything(s) == TRUE
NonEmpty(s) == s # <<>>

\* What is outside of quotes is split at spaces, what is inside is kept whole.
AddPiece(ret, item) == IF NonEmpty(item) THEN Append(ret, item) ELSE ret

AddSub(r, sub) ==
    [ret    |-> FoldLeft(AddPiece, r.ret, IF r.quoted THEN <<sub>> ELSE Split(sub, Space)),
     quoted |-> ~r.quoted]

Pieces(s) == FoldLeft(AddSub, [ret |-> <<>>, quoted |-> FALSE], Split(s, Quote)).ret

EndsInBackslash(arg) == Last(arg) = Backslash

\* A piece after a backslash goes on with the argument, and a space stands between.
NeverMerge(out, now) == Append(out, now)
Merge(out, now) ==
    IF out # <<>> /\ EndsInBackslash(Last(out))
    THEN Append(Front(out), Front(Last(out)) \o <<Space>> \o now)
    ELSE Append(out, now)

Str2Arg(s) == FoldLeft(Merge, <<>>, Pieces(s))

Bare(arg) == arg
Quoted(arg) == IF Contains(arg, Space) THEN <<Quote>> \o arg \o <<Quote>> ELSE arg

AddArg(s, arg) == s \o <<Space>> \o Quoted(arg)

Arg2Str(as) == IF as = <<>> THEN <<>>
               ELSE FoldLeft(AddArg, Quoted(as[1]), Tail(as))

-----------------------------------------------------------------------------
(* The user.                                                               *)

Init == line = <<>> /\ args = <<>>

Type(c) == /\ args = <<>>
           /\ Len(line) < MaxLen
           /\ line' = Append(line, c)
           /\ UNCHANGED args

Room == line = <<>> /\ Len(args) + Len(FlattenSeq(args)) < MaxLen

NewArg == /\ Room
          /\ args' = Append(args, <<>>)
          /\ UNCHANGED line

ExtendArg(c) == /\ Room
                /\ args # <<>>
                /\ args' = Append(Front(args), Append(Last(args), c))
                /\ UNCHANGED line

Next == NewArg \/ \E c \in Chars : Type(c) \/ ExtendArg(c)

Spec == Init /\ [][Next]_vars

-----------------------------------------------------------------------------
(* Properties the code is to have.                                         *)

\* What is written is made of characters, and no argument that is read is empty.
TypeOK ==
    /\ line \in Seq(Chars) /\ args \in Seq(Seq(Chars))
    /\ Str2Arg(line) \in Seq(Seq(Chars) \ {<<>>})

\* A reader that takes one character at a time and knows what it has read: a quote
\* ends an argument and turns its quoting on or off, a space ends one outside of
\* quotes, anything else goes on with an open argument or begins one, which a
\* backslash at the end of the one before makes a part of that.
ReadChar(r, c) ==
    IF c = Quote THEN [r EXCEPT !.open = FALSE, !.quoted = ~r.quoted]
    ELSE IF c = Space /\ ~r.quoted THEN [r EXCEPT !.open = FALSE]
    ELSE [r EXCEPT !.open = TRUE,
                   !.args = IF r.open THEN Append(Front(@), Append(Last(@), c))
                            ELSE IF @ # <<>> /\ EndsInBackslash(Last(@))
                                 THEN Append(Front(@), Front(Last(@)) \o <<Space, c>>)
                                 ELSE Append(@, <<c>>)]

Read(s) == FoldLeft(ReadChar, [args |-> <<>>, open |-> FALSE, quoted |-> FALSE], s)
OnePass(s) == Read(s).args

\* str2arg, which splits twice and then merges, reads a line as this reader does.
ParsesInOnePass == Str2Arg(line) = OnePass(line)

\* Arguments that are not empty and without quotes, of which only the last may end in
\* a backslash, and no others, come back from arg2str and str2arg as they were.  Of an
\* empty argument arg2str writes nothing, not even quotes.
Representable(as) ==
    /\ \A i \in DOMAIN as : as[i] # <<>>
    /\ \A i \in DOMAIN as : ~Contains(as[i], Quote)
    /\ \A i \in 1..(Len(as) - 1) : ~EndsInBackslash(as[i])

RoundTrip == Str2Arg(Arg2Str(args)) = args <=> Representable(args)
=============================================================================
