-------------------------------- MODULE Scan --------------------------------
(***************************************************************************)
(* internal/scan: which characters of a C file or of a CMakeLists.txt are  *)
(* code, and the edits setup and teardown make by that.  A text is a       *)
(* sequence of characters, of which three stand for more: "I" is a whole   *)
(* include directive, "N" the name of a command, "H" mcp_harness.c.  The   *)
(* texts are all those that can be typed on from a few beginnings.  An     *)
(* offset is the one of the next character, Len(s) + 1 at the end.         *)
(***************************************************************************)
EXTENDS Naturals, SequencesExt

CONSTANTS
    Beginnings,  \* texts [lang, text, more] and how many characters follow
    Alphabet     \* the characters of "c" and of "cmake"

ASSUME ScanAssumption ==
    \A b \in Beginnings : /\ b.lang \in DOMAIN Alphabet /\ b.more \in Nat
                          /\ \A i \in DOMAIN b.text : b.text[i] \in Alphabet[b.lang]

VARIABLES lang, text, more
vars == <<lang, text, more>>

Space == {" ", "\t", "\n", "\r"}
Word == {"N"}

At(s, i) == IF i \in DOMAIN s THEN s[i] ELSE "end"
Prefix(s, i, t) == i + Len(t) - 1 <= Len(s) /\ SubSeq(s, i, i + Len(t) - 1) = t

(* The first offset from i on that the test holds of, else the end.        *)
Find(s, i, Test(_)) ==
    LET found == {k \in i..Len(s) : Test(k)}
    IN IF found = {} THEN Len(s) + 1 ELSE Min(found)

LineEnd(s, i) == Find(s, i, LAMBDA k : s[k] = "\n")

SkipSpace(s, i) == Find(s, i, LAMBDA k : s[k] \notin Space)
SkipSpaceBefore(s, i) == SelectLastInSubSeq(s, 1, i - 1, LAMBDA c : c \notin Space) + 1

(* The end of a literal or a quoted argument: a backslash takes the next
   character with it, an unterminated one ends at the line break.          *)
QuotedEnd(s, i) ==
    LET end[j \in Nat] == IF j > Len(s) THEN Len(s) + 1
                          ELSE IF s[j] = "\\" THEN end[j + 2]
                          ELSE IF s[j] = s[i] THEN j + 1
                          ELSE IF s[j] = "\n" THEN j ELSE end[j + 1]
    IN end[i + 1]
-----------------------------------------------------------------------------
(* C.                                                                      *)

(* Mutant: a CRLF line break is not spliced.                               *)
Spliced_NoCr(s, i, k) == k - 1 >= i /\ s[k - 1] = "\\"

(* A backslash before the line break at k, in a comment whose text is at i. *)
Spliced(s, i, k) ==
    \/ k - 1 >= i /\ s[k - 1] = "\\"
    \/ k - 2 >= i /\ s[k - 2] = "\\" /\ s[k - 1] = "\r"

CLineCommentEnd(s, i) == Find(s, i, LAMBDA k : s[k] = "\n" /\ ~Spliced(s, i, k))

CBlockCommentEnd(s, i) ==
    LET k == Find(s, i + 2, LAMBDA j : Prefix(s, j, <<"*", "/">>))
    IN IF k > Len(s) THEN k ELSE k + 2

(* Where the comment or literal at i ends; i when the character is code.   *)
CTextEnd(s, i) ==
    CASE Prefix(s, i, <<"/", "/">>) -> CLineCommentEnd(s, i + 2)
      [] Prefix(s, i, <<"/", "*">>) -> CBlockCommentEnd(s, i)
      [] s[i] \in {"\"", "'"} -> QuotedEnd(s, i)
      [] OTHER -> i


CMakeBracketEnd(s, i) ==
    LET equals == Find(s, i + 2, LAMBDA k : s[k] # "=") - (i + 2)
        closer == <<"]">> \o [k \in 1..equals |-> "="] \o <<"]">>
        k == Find(s, i + equals + 3, LAMBDA j : Prefix(s, j, closer))
    IN IF k > Len(s) THEN k ELSE k + Len(closer)

CMakeBracketOpen(s, i) ==
    At(s, i + 1) = "[" /\ At(s, Find(s, i + 2, LAMBDA k : s[k] # "=")) = "["

(* Quoted arguments are code, though a "#" in one opens no comment.        *)
CMakeTextEnd(s, i) ==
    CASE s[i] # "#" -> i
      [] CMakeBracketOpen(s, i) -> CMakeBracketEnd(s, i)
      [] OTHER -> LineEnd(s, i)

(* The characters that are code, found from one end to the next.           *)
CCode(s) ==
    LET code[i \in Nat] ==
          IF i > Len(s) THEN {}
          ELSE IF CTextEnd(s, i) = i THEN {i} \cup code[i + 1] ELSE code[CTextEnd(s, i)]
    IN code[1]

CMakeCode(s) ==
    LET code[i \in Nat] ==
          IF i > Len(s) THEN {}
          ELSE IF s[i] = "\"" THEN (i..QuotedEnd(s, i) - 1) \cup code[QuotedEnd(s, i)]
          ELSE IF CMakeTextEnd(s, i) = i THEN {i} \cup code[i + 1]
          ELSE code[CMakeTextEnd(s, i)]
    IN code[1]
-----------------------------------------------------------------------------
(* Where setup inserts.                                                    *)

InsertText(s, i, t) == SubSeq(s, 1, i - 1) \o t \o SubSeq(s, i, Len(s))

IncludeLines(s) ==
    {i \in DOMAIN s : /\ s[i] = "I" /\ At(s, i - 1) \in {"\n", "end"}
                      /\ SkipSpace(s, i + 1) >= LineEnd(s, i)}

(* Mutant: an include in a comment counts.                                 *)
LastIncludeLineEnd_Anywhere(s) ==
    IF IncludeLines(s) = {} THEN 0 ELSE LineEnd(s, Max(IncludeLines(s)))

(* The end of the last line in code that is an include and nothing else.   *)
LastIncludeLineEnd(s) ==
    LET lines == IncludeLines(s) \cap CCode(s)
    IN IF lines = {} THEN 0 ELSE LineEnd(s, Max(lines))

IncludeBlock == <<"/", "*", "B", "*", "/", "\n", "I", "\n", "/", "*", "E", "*", "/", "\n">>

(* The text with the include, and where that starts.                       *)
InsertInclude(s) ==
    LET at == LastIncludeLineEnd(s)
    IN IF at = 0 THEN [at |-> 1, block |-> IncludeBlock \o <<"\n">>]
       ELSE [at |-> at, block |-> <<"\n">> \o IncludeBlock]
-----------------------------------------------------------------------------
(* Calls in a CMakeLists.txt, found without regard to comments and quotes. *)

BalancedParens(s, i) ==
    LET Depth(k) == Cardinality({j \in i..k : s[j] = "("})
        k == Find(s, i, LAMBDA j : Cardinality({h \in i..j : s[h] = ")"}) = Depth(j))
    IN IF At(s, i) # "(" \/ k > Len(s) THEN 0 ELSE k

NoCall == [at |-> 0, open |-> 0, close |-> 0]

(* An unterminated call ends the search.                                   *)
FindCMakeCall(s, from) ==
    LET at == Find(s, from, LAMBDA k : /\ s[k] = "N" /\ At(s, k - 1) \notin Word
                                       /\ At(s, SkipSpace(s, k + 1)) = "(")
        open == SkipSpace(s, at + 1)
    IN IF at > Len(s) \/ BalancedParens(s, open) = 0 THEN NoCall
       ELSE [at |-> at, open |-> open, close |-> BalancedParens(s, open)]

CMakeCalls(s) ==
    LET calls[i \in Nat] ==
          LET call == FindCMakeCall(s, i)
          IN IF call = NoCall THEN <<>> ELSE <<call>> \o calls[call.close + 1]
    IN calls[1]


BlankToEndOfLine(s, i) ==
    At(s, Find(s, i, LAMBDA k : s[k] = "\n" \/ s[k] \notin Space)) \in {"\n", "#", "end"}

AtLineStart(s, at) ==
    LET line == SelectLastInSubSeq(s, 1, at - 1, LAMBDA c : c = "\n")
    IN \A k \in line + 1 .. at - 1 : s[k] \in Space

(* The first call that has a line of its own, and the end of that, or 0.   *)
CallOnOwnLine(s) ==
    LET OnOwnLine(call) == AtLineStart(s, call.at) /\ BlankToEndOfLine(s, call.close + 1)
    IN Head(Append(SelectSeq(CMakeCalls(s), OnOwnLine), NoCall))

CMakeCallOnOwnLine(s) ==
    LET call == CallOnOwnLine(s) IN IF call = NoCall THEN 0 ELSE LineEnd(s, call.close + 1)

(* The source list of a set() that is split over lines: where it ends, and the
   indentation after that; the end is 0 when the call is no such.          *)
CMakeSetBlock(s, call) ==
    LET name == SkipSpace(s, call.open + 1)
        nameEnd == Find(s, name, LAMBDA k : s[k] \notin Word)
        last == SelectLastInSubSeq(s, nameEnd, SkipSpace(s, nameEnd) - 1, LAMBDA c : c = "\n")
        end == LineEnd(s, SkipSpaceBefore(s, call.close))
    IN IF nameEnd = name \/ last = 0 \/ end > call.close \/ end < last + 1
       THEN [start |-> 0, end |-> 0, indent |-> <<>>]
       ELSE [start |-> last + 1, end |-> end, indent |-> SubSeq(s, end + 1, call.close - 1)]

(* Mutant: a parenthesis does not end an argument.                         *)
TokenEnd_NoParens(s, i) ==
    CASE i > Len(s) -> i
      [] s[i] = "\"" -> LET k == Find(s, i + 1, LAMBDA j : s[j] = "\"")
                        IN IF k > Len(s) THEN k ELSE k + 1
      [] OTHER -> Find(s, i + 1, LAMBDA k : s[k] \in Space \cup {"\""})

(* The end of the argument at i: a quoted one has no escapes here.         *)
TokenEnd(s, i) ==
    CASE i > Len(s) -> i
      [] s[i] = "\"" -> LET k == Find(s, i + 1, LAMBDA j : s[j] = "\"")
                        IN IF k > Len(s) THEN k ELSE k + 1
      [] s[i] \in {"(", ")"} -> i + 1
      [] OTHER -> Find(s, i + 1, LAMBDA k : s[k] \in Space \cup {"\"", "(", ")"})

Trim(token) == SelectSeq(token, LAMBDA c : c # "\"")

CMakeArgTokens(s) ==
    LET tokens[i \in Nat] ==
          IF i > Len(s) THEN <<>>
          ELSE IF s[i] \in Space \cup {"(", ")"} THEN tokens[i + 1]
          ELSE <<Trim(SubSeq(s, i, TokenEnd(s, i) - 1))>> \o tokens[TokenEnd(s, i)]
    IN tokens[1]

(* Without the arguments that are H in code, and the whitespace before them. *)
FilterCMakeArgs(s) ==
    LET code == CMakeCode(s)
        out[i \in Nat] ==
          LET start == SkipSpace(s, i)
              end == TokenEnd(s, start)
          IN IF i > Len(s) THEN <<>>
             ELSE IF start \in code /\ Trim(SubSeq(s, start, end - 1)) = <<"H">> THEN out[end]
             ELSE SubSeq(s, i, end - 1) \o out[end]
    IN out[1]

(* What patchCMakeSourceList can make of the text: H goes into a list that
   names the source "M", a set() that is split over lines or any other call. *)
Patched(s) ==
    LET calls == ToSet(CMakeCalls(s))
        Lists(from, to) == <<"M">> \in ToSet(CMakeArgTokens(SubSeq(s, from, to - 1)))
        blocks == {b \in {CMakeSetBlock(s, call) : call \in calls} : b.end # 0 /\ Lists(b.start, b.end)}
    IN {InsertText(s, b.end, <<"\n">> \o b.indent \o <<"\t", "H">>) : b \in blocks}
       \cup {InsertText(s, c.close, <<" ", "H">>) : c \in {c \in calls : Lists(c.open + 1, c.close)}}
-----------------------------------------------------------------------------
Init == \E b \in Beginnings : lang = b.lang /\ text = b.text /\ more = b.more

Type == /\ more > 0 /\ more' = more - 1
        /\ \E c \in Alphabet[lang] : text' = Append(text, c)
        /\ UNCHANGED lang

Next == Type

Spec == Init /\ [][Next]_vars
-----------------------------------------------------------------------------
(* What C says.  A backslash and the line break after it go first: what is
   kept is read character by character, each in the mode of the one before. *)
Splices(s) ==
    {i \in DOMAIN s : s[i] = "\\" /\ (At(s, i + 1) = "\n" \/ Prefix(s, i + 1, <<"\r", "\n">>))}

Kept(s) == LET gone == UNION {i..LineEnd(s, i) : i \in Splices(s)}
           IN SelectSeq([i \in DOMAIN s |-> i], LAMBDA i : i \notin gone)

Quotes == {"\"", "'"}

CMode(t) ==
    LET After(was, c, next) ==
          CASE was = "code" -> IF c = "/" /\ next = "/" THEN "line"
                               ELSE IF c = "/" /\ next = "*" THEN "open"
                               ELSE IF c \in Quotes THEN c ELSE "code"
            [] was = "line" -> IF c = "\n" THEN "code" ELSE "line"
            [] was = "open" -> "block"
            [] was = "block" -> IF c = "*" /\ next = "/" THEN "close" ELSE "block"
            [] was = "close" -> "code"
            [] was \in Quotes -> IF c = "\\" THEN "escape" ELSE IF c \in {was, "\n"} THEN "code" ELSE was
        modes[i \in Nat] ==
          IF i = 0 THEN <<"code">>
          ELSE LET m == modes[i - 1]
               IN Append(m, IF m[i] = "escape" THEN m[i - 1] ELSE After(m[i], t[i], At(t, i + 1)))
    IN modes[Len(t)]

(* The comment on CCode (code.go:98): "Comments and string/char literals,
   delimiters included, are not code", and everything else that C keeps is. *)
CCodeIsC ==
    lang = "c" =>
      LET kept == Kept(text)
          t == [k \in DOMAIN kept |-> text[kept[k]]]
          mode == CMode(t)
          code == CCode(text)
      IN \A k \in DOMAIN t :
           kept[k] \in code
           <=> /\ mode[k + 1] = "code"
               /\ mode[k] = "code" \/ (t[k] = "\n" /\ mode[k] \in {"line"} \cup Quotes)

(* A line is spliced between the two characters of a comment's delimiter, or
   in a literal: after a backslash, or over CRLF. *)
SplicedOddly(s) ==
    LET kept == Kept(s)
        mode == CMode([k \in DOMAIN kept |-> s[kept[k]]])
    IN \E i \in Splices(s) :
         LET k == Cardinality({j \in DOMAIN kept : kept[j] < i}) + 1
         IN \/ mode[k] \in {"open", "close"}
            \/ mode[k] = "line" /\ mode[k - 1] = "code"
            \/ mode[k] = "escape"
            \/ mode[k] \in Quotes /\ s[i + 1] = "\r"

(* CCode, which goes from the end of one comment or literal to the next and
   splices lines only in line comments, finds what C does, with those aside. *)
CCodeIsRight == lang = "c" => CCodeIsC \/ SplicedOddly(text)

Shifted(code, at, block) ==
    {i \in code : i < at} \cup {i + Len(block) : i \in {i \in code : i >= at}}

(* The include goes where it is code, and what was code or was not stays it:
   the block's own comments close no comment of the file. *)
IncludeIsCode ==
    lang = "c" =>
      LET insert == InsertInclude(text)
          code == CCode(InsertText(text, insert.at, insert.block))
          block == insert.at .. insert.at + Len(insert.block) - 1
      IN /\ code \ block = Shifted(CCode(text), insert.at, insert.block)
         /\ \E i \in block \cap code : insert.block[i - insert.at + 1] = "I"

(* What CMake says, with how many "=" a bracket comment has and where its text
   starts.  A quoted argument goes on over line breaks. *)
Bracket(c, equals) == <<c>> \o [k \in 1..equals |-> "="] \o <<c>>

CMakeMode(s) ==
    LET Mode(kind) == [kind |-> kind, equals |-> 0, start |-> 0]
        Bracketed(i, n) == [kind |-> "bracket", equals |-> n, start |-> i + n + 2]
        Opened(i) == {n \in 0..Len(s) : Prefix(s, i, Bracket("[", n))}
        Closed(i, was) == /\ i - (was.equals + 2) >= was.start
                          /\ Prefix(s, i - (was.equals + 2), Bracket("]", was.equals))
        After(was, c, i) ==
          CASE was.kind = "code" -> IF c = "#" /\ Opened(i) # {} THEN Bracketed(i, Max(Opened(i)))
                                    ELSE Mode(CASE c = "#" -> "line" [] c = "\"" -> "quote" [] OTHER -> "code")
            [] was.kind = "line" -> Mode(IF c = "\n" THEN "code" ELSE "line")
            [] was.kind = "bracket" -> IF Closed(i, was) THEN Mode("code") ELSE was
            [] was.kind = "quote" -> Mode(CASE c = "\\" -> "escape" [] c = "\"" -> "code" [] OTHER -> "quote")
            [] was.kind = "escape" -> Mode("quote")
        modes[i \in Nat] ==
          IF i = 0 THEN <<Mode("code")>>
          ELSE LET m == modes[i - 1] IN Append(m, After(m[i], s[i], i + 1))
    IN modes[Len(s)]

(* The comment on CMakeCode (code.go:168): "a quoted argument is build input and
   stays code, though "#" inside one is not a comment"; only comments are none. *)
CMakeCodeIsCMake ==
    lang = "cmake" =>
      LET mode == CMakeMode(text)
          code == CMakeCode(text)
      IN \A i \in DOMAIN text :
           i \in code
           <=> \/ mode[i].kind \in {"quote", "escape"}
               \/ mode[i].kind = "code" /\ text[i] # "#"
               \/ mode[i].kind = "line" /\ text[i] = "\n"

(* It is so unless a quoted argument goes on over a line break. *)
QuotedOverLines(s) ==
    LET mode == CMakeMode(s) IN \E i \in DOMAIN s : s[i] = "\n" /\ mode[i].kind = "quote"


ProjectBlock == <<"\n", "#", "B", "\n", "D", "\n", "#", "E", "\n">>

(* The comment on patchCMakeIncludeDirectories (c.go:360): include_directories
   goes "after project(...), so sources outside src/ [...] can resolve" the
   header.  It is code there, in no arguments, and what was code stays it. *)
ProjectBlockLands ==
    lang = "cmake" =>
      \A call \in {CallOnOwnLine(text)}, at \in {CMakeCallOnOwnLine(text)} \ {0} :
        LET code == CMakeCode(InsertText(text, at, ProjectBlock))
            block == at .. at + Len(ProjectBlock) - 1
            mode == CMakeMode(text)
            Bare(c) == {i \in call.at .. at - 1 : text[i] = c /\ mode[i].kind = "code"}
        IN /\ code \ block = Shifted(CMakeCode(text), at, ProjectBlock)
           /\ at + 4 \in code
           /\ Cardinality(Bare("(")) = Cardinality(Bare(")"))
           /\ \A other \in ToSet(CMakeCalls(text)) : at \notin other.open + 1 .. other.close


(* The characters of the build, without the layout. *)
CodeOf(s) == LET code == CMakeCode(s)
                 marked == [i \in DOMAIN s |-> IF i \in code THEN s[i] ELSE " "]
             IN SelectSeq(marked, LAMBDA c : c \notin Space)

(* Quotes are closed on their line, have no escapes and no parenthesis, and
   every call is closed outside comments: CMake takes the file. *)
WellFormed(s) ==
    LET code == CMakeCode(s)
        Quoted(i) == Cardinality({k \in 1 .. i - 1 : s[k] = "\"" /\ k \in code}) % 2 = 1
    IN /\ "\\" \notin ToSet(s) /\ ~Quoted(Len(s) + 1)
       /\ \A i \in DOMAIN s : s[i] \in {"(", ")", "\n"} => ~Quoted(i)
       /\ \A call \in ToSet(CMakeCalls(s)) : call.close \in code

(* README.md:251: teardown "Reverses `setup`": without the argument that setup
   added, the build is what it was. *)
TeardownReverses ==
    (lang = "cmake" /\ "H" \notin ToSet(text) /\ WellFormed(text)) =>
      \A patched \in Patched(text) : CodeOf(FilterCMakeArgs(patched)) = CodeOf(text)

(* It is so unless a comment holds a quote or ends a list of arguments. *)
TeardownReversesMost ==
    \/ \E i \in DOMAIN text \ CMakeCode(text) : text[i] = "\""
    \/ \E call \in ToSet(CMakeCalls(text)) :
         SkipSpaceBefore(text, call.close) - 1 \notin CMakeCode(text)
    \/ TeardownReverses
=============================================================================
