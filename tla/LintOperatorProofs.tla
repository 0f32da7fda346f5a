------------------------- MODULE LintOperatorProofs -------------------------
(***************************************************************************)
(* What the operators of the linter return, for every text: cleansed       *)
(* copies of as many lines, stacks of blocks that begin on its lines, and  *)
(* errors of known categories on its lines.                                *)
(***************************************************************************)
EXTENDS LintProperties, SequenceFacts

-----------------------------------------------------------------------------
(* Texts *)

\* Tokens that cleansing puts into a line.
Marks == {Quote, "/*", "*/", "R", "(", ")"}

\* How often a token occurs is a number.
LEMMA CountType ==
    ASSUME NEW T, NEW line \in Seq(T), NEW token
    PROVE  Count(line, token) \in Nat
<1>1. IsFiniteSet(1..Len(line)) /\ DOMAIN line = 1..Len(line)
  BY FS_Interval
<1>2. {i \in DOMAIN line : line[i] = token} \in SUBSET (1..Len(line))
  BY <1>1
<1>3. IsFiniteSet({i \in DOMAIN line : line[i] = token})
  BY <1>1, <1>2, FS_Subset
<1> QED BY <1>3, FS_CardinalityType DEF Count

\* Parts of a line.
LEMMA PartsOfLine ==
    ASSUME NEW T, NEW line \in Seq(T), NEW n \in 0..Len(line)
    PROVE  Head_(line, n) \in Seq(T) /\ Tail_(line, n) \in Seq(T)
BY DEF Head_, Tail_

\* Where a search for a token ends.
LEMMA FirstToken ==
    ASSUME NEW T, NEW line \in Seq(T), NEW token
    PROVE  Find(line, token) \in 0..Len(line)
<1> DEFINE I == {i \in 1..Len(line) : line[i] = token}
<1>1. I \in SUBSET (1..Len(line)) /\ 1 \in Nat /\ Len(line) \in Int
  OBVIOUS
<1>2. (IF I # {} THEN Min(I) ELSE 0) \in {0} \cup (1..Len(line))
  <2> HIDE DEF I
  <2> QED BY <1>1, LeastOrZero
<1> QED BY <1>2 DEF Find, SelectInSeq

\* The same for a search that begins at a later token.
LEMMA FirstTokenFrom ==
    ASSUME NEW T, NEW line \in Seq(T), NEW token, NEW from \in Nat
    PROVE  FindFrom(line, token, from) \in {0} \cup (from..Len(line))
<1> DEFINE I == {i \in from..Len(line) : line[i] = token}
<1>1. I \in SUBSET (from..Len(line)) /\ Len(line) \in Int
  OBVIOUS
<1>2. (IF I # {} THEN Min(I) ELSE 0) \in {0} \cup (from..Len(line))
  <2> HIDE DEF I
  <2> QED BY <1>1, LeastOrZero
<1> QED BY <1>2 DEF FindFrom, SelectInSubSeq

\* Replacing a raw string leaves a line of the same tokens and marks.
LEMMA ReplaceRawStringType ==
    ASSUME NEW T, Marks \subseteq T, NEW r \in [line : Seq(T), open : BOOLEAN]
    PROVE  ReplaceRawString(r) \in [line : Seq(T), open : BOOLEAN]
<1>0. PICK line : line = r.line /\ line \in Seq(T)
  OBVIOUS
<1>b. PICK begin : begin = Find(line, RawBegin) /\ begin \in 0..Len(line)
  BY <1>0, FirstToken
<1>e. PICK end : /\ end = FindFrom(line, RawEnd, begin)
                 /\ end \in {0} \cup (begin..Len(line))
  BY <1>0, <1>b, FirstTokenFrom
<1> DEFINE before == Head_(line, begin - 1)
<1>1. <<Quote, Quote>> \in Seq(T)
  BY DEF Marks
<1>4. begin # 0 => before \in Seq(T)
  <2>1. begin # 0 => begin - 1 \in 0..Len(line)
    BY <1>b
  <2> QED BY <1>0, <2>1, PartsOfLine
<1>5. Tail_(line, end) \in Seq(T)
  BY <1>0, <1>b, <1>e, PartsOfLine
<1>6. /\ begin # 0 => before \o <<Quote, Quote>> \in Seq(T)
      /\ begin # 0 => before \o <<Quote, Quote>> \o Tail_(line, end) \in Seq(T)
  BY <1>1, <1>4, <1>5
<1>7. ReplaceRawString(r) = CASE begin = 0               -> r
         [] begin > 0 /\ InLineComment(before)
                                    -> r
         [] begin > 0 /\ ~InLineComment(before) /\ end = 0
                                    -> [line |-> before \o <<Quote, Quote>>, open |-> TRUE]
         [] OTHER -> [r EXCEPT !.line = before \o <<Quote, Quote>> \o Tail_(line, end)]
  BY <1>0, <1>b, <1>e DEF ReplaceRawString
<1> HIDE DEF before
<1>8. CASE begin = 0
  BY <1>7, <1>8
<1>9. CASE begin > 0
  <2>1. CASE InLineComment(before)
    BY <1>7, <1>9, <2>1
  <2>2. CASE ~InLineComment(before) /\ end = 0
    BY <1>6, <1>7, <1>9, <2>2
  <2>3. CASE ~InLineComment(before) /\ end # 0
    <3>1. ReplaceRawString(r) = [r EXCEPT !.line = before \o <<Quote, Quote>> \o Tail_(line, end)]
      BY <1>7, <1>9, <2>3
    <3>2. before \o <<Quote, Quote>> \o Tail_(line, end) \in Seq(T)
      BY <1>6, <1>9
    <3> QED BY <3>1, <3>2
  <2> QED BY <2>1, <2>2, <2>3
<1> QED BY <1>b, <1>8, <1>9

\* A line stays one of these tokens when its raw strings are replaced one after the other.
LEMMA CleanseRawLineType ==
    ASSUME NEW T, Marks \subseteq T, NEW line \in Seq(T)
    PROVE  CleanseRawLine(line) \in [line : Seq(T), open : BOOLEAN]
<1> DEFINE U == [line : Seq(T), open : BOOLEAN]
           b == [line |-> line, open |-> FALSE]
           n == Count(line, RawBegin)
           Is(f) == f = [k \in 0..n |-> IF k = 0 THEN b ELSE ReplaceRawString(f[k - 1])]
           f == CHOOSE f : Is(f)
           G == [p \in (1..n) \X U |-> ReplaceRawString(p[2])]
<1>1. n \in Nat /\ b \in U
  BY CountType
<1>2. \A r \in U : ReplaceRawString(r) \in U
  BY ReplaceRawStringType
<1>3. CleanseRawLine(line) = f[n]
  BY DEF CleanseRawLine
<1> HIDE DEF U, b, n
<1>4. G \in [(1..n) \X U -> U]
  BY <1>2
<1> HIDE DEF G
<1>5. PICK h : IsIteration(h, U, n, b, G)
  BY <1>1, <1>4, IteratesExist
<1>6. ASSUME NEW k \in 1..n PROVE h[k] = ReplaceRawString(h[k - 1])
  <2>1. h[k] = G[<<k, h[k - 1]>>] /\ h[k - 1] \in U
    BY <1>1, <1>5 DEF IsIteration
  <2> QED BY <2>1 DEF G
<1>7. Is(h)
  BY <1>1, <1>5, <1>6 DEF IsIteration
<1>8. Is(f)
  BY <1>7
<1> HIDE DEF f
<1>9. f[0] = b /\ \A k \in 1..n : f[k] = ReplaceRawString(f[k - 1])
  BY <1>1, <1>8
<1>10. \A k \in 0..n : f[k] \in U
  BY <1>1, <1>2, <1>9, IteratesStay
<1> QED BY <1>1, <1>3, <1>10 DEF U

\* So does a line that begins within a raw string.
LEMMA CleanseOpenRawLineType ==
    ASSUME NEW T, Marks \subseteq T, NEW line \in Seq(T)
    PROVE  CleanseOpenRawLine(line) \in [line : Seq(T), open : BOOLEAN]
<1>1. PICK end : end = Find(line, RawEnd) /\ end \in 0..Len(line)
  BY FirstToken
<1>2. <<Quote, Quote>> \in Seq(T) /\ Tail_(line, end) \in Seq(T)
  BY <1>1, PartsOfLine DEF Marks
<1>3. <<Quote, Quote>> \o Tail_(line, end) \in Seq(T)
  BY <1>2
<1>4. CleanseRawLine(<<Quote, Quote>> \o Tail_(line, end)) \in [line : Seq(T), open : BOOLEAN]
  BY <1>3, CleanseRawLineType
<1> QED BY <1>1, <1>2, <1>4 DEF CleanseOpenRawLine

\* CleanseRawStrings keeps the number of lines and adds only marks.
LEMMA CleanseRawStringsType ==
    ASSUME NEW T, Marks \subseteq T, NEW text \in Seq(Seq(T))
    PROVE  CleanseRawStrings(text) \in Seq(Seq(T)) /\ Len(CleanseRawStrings(text)) = Len(text)
<1> DEFINE U == [line : Seq(T), open : BOOLEAN]
           b == [line |-> <<>>, open |-> FALSE]
           n == Len(text)
           Cleansed(k, r) == IF r.open THEN CleanseOpenRawLine(text[k]) ELSE CleanseRawLine(text[k])
           Is(f) == f = [k \in 0..n |-> IF k = 0 THEN b
                                        ELSE IF f[k - 1].open THEN CleanseOpenRawLine(text[k])
                                        ELSE CleanseRawLine(text[k])]
           f == CHOOSE f : Is(f)
           G == [p \in (1..n) \X U |-> Cleansed(p[1], p[2])]
<1>1. n \in Nat /\ b \in U /\ DOMAIN text = 1..n
  OBVIOUS
<1>2. \A k \in 1..n : \A r \in U : Cleansed(k, r) \in U
  <2> SUFFICES ASSUME NEW k \in 1..n, NEW r \in U
               PROVE  Cleansed(k, r) \in U
    OBVIOUS
  <2>1. text[k] \in Seq(T)
    OBVIOUS
  <2>2. CleanseOpenRawLine(text[k]) \in U /\ CleanseRawLine(text[k]) \in U
    BY <2>1, CleanseOpenRawLineType, CleanseRawLineType
  <2> QED BY <2>2
<1>3. CleanseRawStrings(text) = [k \in 1..n |-> f[k].line]
  BY <1>1 DEF CleanseRawStrings
<1>a. \A r \in U : r.line \in Seq(T)
  OBVIOUS
<1> HIDE DEF U, b, n, Cleansed
<1>4. G \in [(1..n) \X U -> U]
  BY <1>2
<1> HIDE DEF G
<1>5. PICK h : IsIteration(h, U, n, b, G)
  BY <1>1, <1>4, IteratesExist
<1>6. ASSUME NEW k \in 1..n PROVE h[k] = Cleansed(k, h[k - 1])
  <2>1. h[k] = G[<<k, h[k - 1]>>] /\ h[k - 1] \in U
    BY <1>1, <1>5 DEF IsIteration
  <2> QED BY <2>1 DEF G
<1>7. Is(h)
  BY <1>1, <1>5, <1>6 DEF IsIteration, Cleansed
<1>8. Is(f)
  BY <1>7
<1> HIDE DEF f
<1>9. f[0] = b /\ \A k \in 1..n : f[k] = Cleansed(k, f[k - 1])
  BY <1>1, <1>8 DEF Cleansed
<1>10. \A k \in 0..n : f[k] \in U
  BY <1>1, <1>2, <1>9, IteratesStay
<1>11. \A k \in 1..n : f[k].line \in Seq(T)
  BY <1>1, <1>10, <1>a
<1> QED BY <1>1, <1>3, <1>11 DEF n

\* Comments are taken out of a line without adding to it.
LEMMA RemoveCCommentType ==
    ASSUME NEW T, NEW line \in Seq(T)
    PROVE  RemoveCComment(line) \in Seq(T)
<1>1. PICK begin : begin = Find(line, "/*") /\ begin \in 0..Len(line)
  BY FirstToken
<1>2. PICK end : end = FindFrom(line, "*/", begin) /\ end \in {0} \cup (begin..Len(line))
  BY <1>1, FirstTokenFrom
<1>3. CASE begin = 0 \/ end = 0
  BY <1>1, <1>2, <1>3 DEF RemoveCComment
<1>4. CASE begin # 0 /\ end # 0
  <2>1. begin - 1 \in 0..Len(line) /\ end \in 0..Len(line)
    BY <1>1, <1>2, <1>4
  <2>2. Head_(line, begin - 1) \in Seq(T) /\ Tail_(line, end) \in Seq(T)
    BY <2>1, PartsOfLine
  <2>3. Head_(line, begin - 1) \o Tail_(line, end) \in Seq(T)
    BY <2>2
  <2> QED BY <1>1, <1>2, <1>4, <2>3 DEF RemoveCComment
<1> QED BY <1>3, <1>4

\* The comments of a line are taken out one after the other.
LEMMA RemoveCCommentsType ==
    ASSUME NEW T, NEW line \in Seq(T)
    PROVE  RemoveCComments(line) \in Seq(T)
<1> DEFINE U == Seq(T)
           n == Count(line, "/*")
           Is(f) == f = [k \in 0..n |-> IF k = 0 THEN line ELSE RemoveCComment(f[k - 1])]
           f == CHOOSE f : Is(f)
           G == [p \in (1..n) \X U |-> RemoveCComment(p[2])]
<1>1. n \in Nat /\ line \in U
  BY CountType
<1>2. \A r \in U : RemoveCComment(r) \in U
  BY RemoveCCommentType
<1>3. RemoveCComments(line) = f[n]
  BY DEF RemoveCComments
<1> HIDE DEF U, n
<1>4. G \in [(1..n) \X U -> U]
  BY <1>2
<1> HIDE DEF G
<1>5. PICK h : IsIteration(h, U, n, line, G)
  BY <1>1, <1>4, IteratesExist
<1>6. ASSUME NEW k \in 1..n PROVE h[k] = RemoveCComment(h[k - 1])
  <2>1. h[k] = G[<<k, h[k - 1]>>] /\ h[k - 1] \in U
    BY <1>1, <1>5 DEF IsIteration
  <2> QED BY <2>1 DEF G
<1>7. Is(h)
  BY <1>1, <1>5, <1>6 DEF IsIteration
<1>8. Is(f)
  BY <1>7
<1> HIDE DEF f
<1>9. f[0] = line /\ \A k \in 1..n : f[k] = RemoveCComment(f[k - 1])
  BY <1>1, <1>8
<1>10. \A k \in 0..n : f[k] \in U
  BY <1>1, <1>2, <1>9, IteratesStay
<1> QED BY <1>1, <1>3, <1>10 DEF U

\* CleanseComments adds nothing to a line.
LEMMA CleanseCommentsType ==
    ASSUME NEW T, NEW line \in Seq(T)
    PROVE  CleanseComments(line) \in Seq(T)
<1>1. PICK comment : comment = Find(line, "//") /\ comment \in 0..Len(line)
  BY FirstToken
<1>2. comment > 0 => Head_(line, comment - 1) \in Seq(T)
  <2>1. comment > 0 => comment - 1 \in 0..Len(line)
    BY <1>1
  <2> QED BY <2>1, PartsOfLine
<1> DEFINE rest == IF comment > 0 /\ ~IsCppString(Head_(line, comment - 1))
                   THEN Head_(line, comment - 1) ELSE line
<1>3. rest \in Seq(T)
  BY <1>1, <1>2
<1>4. CleanseComments(line) = RemoveCComments(rest)
  BY <1>1 DEF CleanseComments
<1> HIDE DEF rest
<1> QED BY <1>3, <1>4, RemoveCCommentsType

\* Collapsing one string adds nothing to a line.
LEMMA CollapseQuoteType ==
    ASSUME NEW T, NEW r \in [collapsed : Seq(T), elided : Seq(T)]
    PROVE  CollapseQuote(r) \in [collapsed : Seq(T), elided : Seq(T)]
<1> DEFINE line == r.elided
           first == SelectInSeq(line, LAMBDA t : t \in {Quote, "'"})
           I == {i \in 1..Len(line) : line[i] \in {Quote, "'"}}
<1>1. line \in Seq(T) /\ r.collapsed \in Seq(T)
  OBVIOUS
<1>2. first \in 0..Len(line)
  <2>1. I \in SUBSET (1..Len(line)) /\ 1 \in Nat /\ Len(line) \in Int
    BY <1>1
  <2>2. (IF I # {} THEN Min(I) ELSE 0) \in {0} \cup (1..Len(line))
    <3> HIDE DEF I
    <3> QED BY <2>1, LeastOrZero
  <2>3. first = IF I # {} THEN Min(I) ELSE 0
    BY DEF SelectInSeq
  <2> HIDE DEF first, I
  <2> QED BY <1>1, <2>2, <2>3
<1> DEFINE second == FindFrom(line, line[first], first + 1)
<1>3. CollapseQuote(r) = IF first = 0 \/ second = 0 THEN r
        ELSE [collapsed |-> r.collapsed \o Head_(line, first) \o <<line[first]>>,
              elided    |-> Tail_(line, second)]
  BY DEF CollapseQuote
<1> HIDE DEF line, first, I
<1>4. second \in {0} \cup ((first + 1)..Len(line))
  <2>1. first + 1 \in Nat
    BY <1>1, <1>2
  <2> QED BY <1>1, <2>1, FirstTokenFrom
<1> HIDE DEF second
<1>5. ASSUME first # 0, second # 0
      PROVE  /\ r.collapsed \o Head_(line, first) \o <<line[first]>> \in Seq(T)
             /\ Tail_(line, second) \in Seq(T)
  <2>1. line[first] \in T /\ second \in 0..Len(line)
    BY <1>1, <1>2, <1>4, <1>5
  <2>2. Head_(line, first) \in Seq(T) /\ Tail_(line, second) \in Seq(T)
    BY <1>1, <1>2, <2>1, PartsOfLine
  <2> QED BY <1>1, <2>1, <2>2
<1> QED BY <1>3, <1>5

\* Nor does collapsing all of them, one after the other.
LEMMA CollapseQuotesType ==
    ASSUME NEW T, NEW line \in Seq(T)
    PROVE  CollapseQuotes(line) \in Seq(T)
<1> DEFINE U == [collapsed : Seq(T), elided : Seq(T)]
           n == Len(line)
           b == [collapsed |-> <<>>, elided |-> line]
           Is(f) == f = [k \in 0..n |-> IF k = 0 THEN b ELSE CollapseQuote(f[k - 1])]
           f == CHOOSE f : Is(f)
           G == [p \in (1..n) \X U |-> CollapseQuote(p[2])]
<1>1. n \in Nat /\ b \in U
  OBVIOUS
<1>2. \A r \in U : CollapseQuote(r) \in U
  BY CollapseQuoteType
<1>3. CollapseQuotes(line) = f[n].collapsed \o f[n].elided
  BY DEF CollapseQuotes
<1>a. \A r \in U : r.collapsed \o r.elided \in Seq(T)
  OBVIOUS
<1> HIDE DEF U, n, b
<1>4. G \in [(1..n) \X U -> U]
  BY <1>2
<1> HIDE DEF G
<1>5. PICK h : IsIteration(h, U, n, b, G)
  BY <1>1, <1>4, IteratesExist
<1>6. ASSUME NEW k \in 1..n PROVE h[k] = CollapseQuote(h[k - 1])
  <2>1. h[k] = G[<<k, h[k - 1]>>] /\ h[k - 1] \in U
    BY <1>1, <1>5 DEF IsIteration
  <2> QED BY <2>1 DEF G
<1>7. Is(h)
  BY <1>1, <1>5, <1>6 DEF IsIteration
<1>8. Is(f)
  BY <1>7
<1> HIDE DEF f
<1>9. f[0] = b /\ \A k \in 1..n : f[k] = CollapseQuote(f[k - 1])
  BY <1>1, <1>8
<1>10. \A k \in 0..n : f[k] \in U
  BY <1>1, <1>2, <1>9, IteratesStay
<1> QED BY <1>1, <1>3, <1>10, <1>a

\* CollapseStrings adds only marks to a line, and leaves an #include as it is.
LEMMA CollapseStringsType ==
    ASSUME NEW T, Marks \subseteq T, NEW line \in Seq(T)
    PROVE  CollapseStrings(line) \in Seq(T)
<1> DEFINE parts == [i \in DOMAIN line |->
             CASE line[i] = RawBegin -> <<"R", Quote, "(">>
               [] line[i] = RawEnd   -> <<")", Quote>>
               [] OTHER              -> <<line[i]>>]
<1>1. <<"R", Quote, "(">> \in Seq(T) /\ <<")", Quote>> \in Seq(T)
  BY DEF Marks
<1>2. \A i \in 1..Len(line) : <<line[i]>> \in Seq(T)
  OBVIOUS
<1>3. parts \in Seq(Seq(T))
  <2>1. ASSUME NEW i \in 1..Len(line) PROVE parts[i] \in Seq(T)
    <3>1. parts[i] \in {<<"R", Quote, "(">>, <<")", Quote>>, <<line[i]>>}
      OBVIOUS
    <3> HIDE DEF parts
    <3> QED BY <1>1, <1>2, <3>1
  <2>2. parts = [i \in 1..Len(line) |-> parts[i]] /\ Len(line) \in Nat
    OBVIOUS
  <2> HIDE DEF parts
  <2> QED BY <2>1, <2>2, IsSeq
<1>4. CollapseStrings(line) = IF line # <<>> /\ line[1] = "#include" THEN line
                              ELSE CollapseQuotes(FlattenSeq(parts))
  BY DEF CollapseStrings
<1> HIDE DEF parts
<1>5. FlattenSeq(parts) \in Seq(T)
  BY <1>3, FlattenType
<1>6. CollapseQuotes(FlattenSeq(parts)) \in Seq(T)
  BY <1>5, CollapseQuotesType
<1> QED BY <1>4, <1>6

\* The copies of a text have its lines, made of its tokens and the marks.
IsCopies(T, copies, n) ==
    /\ copies.raw_lines \in Seq(Seq(T)) /\ Len(copies.raw_lines) = n
    /\ copies.lines_without_raw_strings \in Seq(Seq(T)) /\ Len(copies.lines_without_raw_strings) = n
    /\ copies.lines \in Seq(Seq(T)) /\ Len(copies.lines) = n
    /\ copies.elided \in Seq(Seq(T)) /\ Len(copies.elided) = n

\* The constructor of CleansedLines makes such copies, and keeps the text itself.
LEMMA CopiesType ==
    ASSUME NEW T, Marks \subseteq T, NEW text \in Seq(Seq(T))
    PROVE  IsCopies(T, CleansedLines(text), Len(text)) /\ CleansedLines(text).raw_lines = text
<1>1. PICK plain : /\ plain = CleanseRawStrings(text)
                   /\ plain \in Seq(Seq(T)) /\ Len(plain) = Len(text)
  BY CleanseRawStringsType
<1>2. \A k \in 1..Len(plain) : plain[k] \in Seq(T)
  BY <1>1
<1>3. \A k \in 1..Len(plain) : CollapseStrings(plain[k]) \in Seq(T)
  BY <1>2, CollapseStringsType
<1>4. \A k \in 1..Len(plain) : /\ CleanseComments(plain[k]) \in Seq(T)
                               /\ CleanseComments(CollapseStrings(plain[k])) \in Seq(T)
  BY <1>2, <1>3, CleanseCommentsType
<1>5. DOMAIN plain = 1..Len(text) /\ Len(text) \in Nat /\ Len(plain) = Len(text)
  BY <1>1
<1> DEFINE bare == [k \in 1..Len(text) |-> CleanseComments(plain[k])]
           elided == [k \in 1..Len(text) |-> CleanseComments(CollapseStrings(plain[k]))]
<1>6. bare \in Seq(Seq(T)) /\ Len(bare) = Len(text)
  BY <1>4, <1>5, IsSeq
<1>7. elided \in Seq(Seq(T)) /\ Len(elided) = Len(text)
  BY <1>4, <1>5, IsSeq
<1>8. CleansedLines(text) = [raw_lines |-> text, lines_without_raw_strings |-> plain,
                             lines |-> bare, elided |-> elided]
  BY <1>1, <1>5 DEF CleansedLines, CopiesOf
<1> HIDE DEF bare, elided
<1> QED BY <1>1, <1>6, <1>7, <1>8 DEF IsCopies, CleansedLines, CopiesOf

\* Lines with comments are kept or replaced.
LEMMA RemovedType ==
    ASSUME NEW T, Marks \subseteq T, NEW text \in Seq(Seq(T))
    PROVE  /\ RemoveMultiLineComments(text).lines \in Seq(Seq(T))
           /\ Len(RemoveMultiLineComments(text).lines) = Len(text)
<1>1. \A range : RemoveMultiLineCommentsFromRange(text, range) =
         [k \in 1..Len(text) |-> IF k \in range THEN <<"/*", "*/">> ELSE text[k]]
  BY DEF RemoveMultiLineCommentsFromRange
<1>2. <<"/*", "*/">> \in Seq(T)
  BY DEF Marks
<1>3. \A range : /\ RemoveMultiLineCommentsFromRange(text, range) \in Seq(Seq(T))
                 /\ Len(RemoveMultiLineCommentsFromRange(text, range)) = Len(text)
  <2> SUFFICES ASSUME NEW range
               PROVE  /\ RemoveMultiLineCommentsFromRange(text, range) \in Seq(Seq(T))
                      /\ Len(RemoveMultiLineCommentsFromRange(text, range)) = Len(text)
    OBVIOUS
  <2> DEFINE f == [k \in 1..Len(text) |-> IF k \in range THEN <<"/*", "*/">> ELSE text[k]]
  <2>1. \A k \in 1..Len(text) : f[k] \in Seq(T)
    BY <1>2
  <2>2. f = [k \in 1..Len(text) |-> f[k]] /\ Len(text) \in Nat
    OBVIOUS
  <2>3. RemoveMultiLineCommentsFromRange(text, range) = f
    BY <1>1
  <2> HIDE DEF f
  <2> QED BY <2>1, <2>2, <2>3, IsSeq
<1> QED BY <1>3 DEF RemoveMultiLineComments

-----------------------------------------------------------------------------
(* Blocks and errors *)

\* The categories of the errors that the modelled checks raise, but for the length of functions.
Raisable ==
    {"build/c++11", "build/class", "build/header_guard", "build/include", "build/include_alpha",
     "build/include_order", "build/include_what_you_use", "build/namespaces", "legal/copyright",
     "readability/constructors", "readability/multiline_comment", "readability/multiline_string",
     "readability/namespace", "readability/nolint", "readability/nul",
     "readability/utf8", "runtime/indentation_namespace", "runtime/int", "whitespace/end_of_line",
     "whitespace/ending_newline", "whitespace/indent", "whitespace/line_length",
     "whitespace/newline", "whitespace/tab"}

\* Such errors of the first n lines; line 0 stands for the whole file.
Errs(n) == [line : 0..n, category : Raisable, confidence : 0..5]

\* Those about a function that ends, or may begin, on line n.
FunctionErrs(n) == [line : {n}, category : {"readability/fn_size"}, confidence : 0..5]

\* The errors that one line may raise.
LineErrs(n) == Errs(n) \cup FunctionErrs(n)

\* Without inline assembly in the text, no block is in inline assembly.
AsmValues(T) == IF "asm" \in T THEN {NoAsm, InsideAsm, EndAsm, BlockAsm} ELSE {NoAsm}

\* The blocks that the first n lines open, in a text of tokens of T.
Blocks(T, n) ==
    [kind : {"namespace", "class", "struct", "extern", "block"}, line : 1..n, seen : BOOLEAN,
     parens : Int, asm : AsmValues(T), name : T \cup {""},
     access : {"", "public", "private", "protected"}, indent : Nat]

\* ErrIf gives an error, or none, of one of these kinds.
LEMMA ErrIfType ==
    ASSUME NEW n \in Nat, NEW c, NEW line \in 0..n, NEW category \in Raisable, NEW confidence \in 0..5
    PROVE  ErrIf(c, line, category, confidence) \in Seq(Errs(n))
<1>1. Err(line, category, confidence) \in Errs(n)
  BY DEF Err, Errs
<1>2. <<Err(line, category, confidence)>> \in Seq(Errs(n)) /\ <<>> \in Seq(Errs(n))
  BY <1>1
<1> QED BY <1>2 DEF ErrIf

\* Two lists of errors are one.
LEMMA JoinErrs ==
    ASSUME NEW n \in Nat, NEW s \in Seq(Errs(n)), NEW t \in Seq(Errs(n))
    PROVE  s \o t \in Seq(Errs(n))
OBVIOUS

\* Errors of the first lines are errors of more lines.
LEMMA ErrsGrow ==
    ASSUME NEW n \in Nat, NEW m \in Nat, n <= m
    PROVE  Errs(n) \subseteq Errs(m)
BY DEF Errs

\* The innermost block.
LEMMA TopType ==
    ASSUME NEW T, NEW n \in Nat, NEW s \in Seq(Blocks(T, n))
    PROVE  /\ s = <<>> => Top(s) = NoBlock
           /\ s # <<>> => /\ Top(s) \in Blocks(T, n) /\ Front(s) \in Seq(Blocks(T, n))
                          /\ \A b \in Blocks(T, n) : SetTop(s, b) \in Seq(Blocks(T, n))
           /\ \A b \in Blocks(T, n) : Append(s, b) \in Seq(Blocks(T, n))
<1> DEFINE B == Blocks(T, n)
<1> HIDE DEF B
<1> SUFFICES ASSUME s \in Seq(B)
             PROVE  /\ s = <<>> => Top(s) = NoBlock
                    /\ s # <<>> => /\ Top(s) \in B /\ Front(s) \in Seq(B)
                                   /\ \A b \in B : SetTop(s, b) \in Seq(B)
                    /\ \A b \in B : Append(s, b) \in Seq(B)
  BY DEF B
<1> QED BY DEF Top, Front, SetTop, Last

\* Indentation.
LEMMA IndentType ==
    ASSUME NEW T, NEW line \in Seq(T)
    PROVE  GetIndentLevel(line) \in 0..Len(line)
<1> DEFINE I == {i \in 1..Len(line) : line[i] # " "}
           i == SelectInSeq(line, LAMBDA t : t # " ")
<1>1. I \in SUBSET (1..Len(line)) /\ 1 \in Nat /\ Len(line) \in Int
  <2>1. I \in SUBSET (1..Len(line))
    BY Zenon
  <2> HIDE DEF I
  <2> QED BY <2>1
<1>2. (IF I # {} THEN Min(I) ELSE 0) \in {0} \cup (1..Len(line))
  <2> HIDE DEF I
  <2> QED BY <1>1, LeastOrZero
<1>3. i = IF I # {} THEN Min(I) ELSE 0
  BY DEF SelectInSeq
<1>4. GetIndentLevel(line) = IF i = 0 THEN 0 ELSE i - 1
  BY DEF GetIndentLevel
<1> HIDE DEF i, I
<1> QED BY <1>1, <1>2, <1>3, <1>4

\* The end of a line is made of its tokens.
LEMMA FromType ==
    ASSUME NEW T, NEW line \in Seq(T), NEW n \in Nat \ {0}
    PROVE  From(line, n) \in Seq(T)
BY DEF From

\* A line begins inline assembly only with the word for it.
LEMMA NoAsmWithout ==
    ASSUME NEW T, NEW line \in Seq(T), MatchAsm(line)
    PROVE  "asm" \in T
<1>1. FirstWord(line) = "asm" /\ GetIndentLevel(line) + 1 < Len(line)
  BY DEF MatchAsm
<1>2. GetIndentLevel(line) + 1 \in 1..Len(line)
  BY <1>1, IndentType
<1>3. FirstWord(line) \in {"", line[GetIndentLevel(line) + 1]}
  BY DEF FirstWord
<1> QED BY <1>1, <1>2, <1>3

\* Counting parentheses leaves a block a block.
LEMMA ParensType ==
    ASSUME NEW T, NEW n \in Nat, NEW block \in Blocks(T, n), NEW change \in Int
    PROVE  [block EXCEPT !.parens = @ + change] \in Blocks(T, n)
<1>1. block.parens \in Int
  BY DEF Blocks
<1>2. block.parens + change \in Int
  BY <1>1
<1> QED BY <1>2 DEF Blocks

\* CountParentheses leaves the stack one of blocks.
LEMMA CountParenthesesType ==
    ASSUME NEW T, NEW n \in Nat, NEW s \in Seq(Blocks(T, n)), NEW line \in Seq(T)
    PROVE  CountParentheses(s, line) \in Seq(Blocks(T, n))
<1>1. PICK change \in Int : change = Depth(line, "(", ")")
  BY CountType DEF Depth
<1>2. CASE s = <<>>
  BY <1>2 DEF CountParentheses
<1>3. CASE s # <<>>
  <2>1. PICK top \in Blocks(T, n) : top = Top(s)
    BY <1>3, TopType
  <2> DEFINE block == [top EXCEPT !.parens = @ + change]
  <2>2. NextAsm(block, line, change) \in AsmValues(T)
    <3>1. block.asm \in AsmValues(T)
      BY DEF Blocks
    <3> HIDE DEF block
    <3>2. CASE "asm" \in T
      <4>1. NextAsm(block, line, change) \in {InsideAsm, NoAsm, EndAsm, block.asm}
        BY DEF NextAsm
      <4> QED BY <3>1, <3>2, <4>1 DEF AsmValues
    <3>3. CASE "asm" \notin T
      <4>1. ~MatchAsm(line)
        BY <3>3, NoAsmWithout
      <4>2. block.asm = NoAsm
        BY <3>1, <3>3 DEF AsmValues
      <4> QED BY <3>3, <4>1, <4>2 DEF NextAsm, AsmValues, NoAsm, InsideAsm, EndAsm
    <3> QED BY <3>2, <3>3
  <2>3. block \in Blocks(T, n)
    BY <1>1, <2>1, ParensType
  <2>4. [block EXCEPT !.asm = NextAsm(block, line, change)] \in Blocks(T, n)
    <3> HIDE DEF block
    <3> QED BY <2>2, <2>3 DEF Blocks
  <2>5. CountParentheses(s, line) = SetTop(s, [block EXCEPT !.asm = NextAsm(block, line, change)])
    BY <1>1, <1>3, <2>1 DEF CountParentheses
  <2> HIDE DEF block
  <2> QED BY <1>3, <2>4, <2>5, TopType
<1> QED BY <1>2, <1>3

\* What the steps on a line hand on: the stack, the rest of the line and the errors.
Progress(T, n) ==
    [stack : Seq(Blocks(T, n)), rest : Seq(T), from : Nat \ {0}, errors : Seq(Errs(n))]

\* A new block is one of the line that opens it.
LEMMA NewBlockType ==
    ASSUME NEW T, NEW n \in Nat \ {0}, NEW seen \in BOOLEAN,
           NEW kind \in {"namespace", "class", "struct", "extern", "block"}
    PROVE  NewBlock(kind, n, seen) \in Blocks(T, n)
<1>1. NoAsm \in AsmValues(T)
  BY DEF AsmValues
<1> QED BY <1>1 DEF NewBlock, Blocks

\* Opening a namespace puts a block of the line on the stack.
LEMMA OpenNamespaceType ==
    ASSUME NEW T, NEW n \in Nat \ {0}, NEW r \in Progress(T, n)
    PROVE  OpenNamespace(r, n) \in Progress(T, n)
<1>0. PICK line \in Seq(T) : line = r.rest
  BY DEF Progress
<1> DEFINE at == GetIndentLevel(line) + 1
           named == at < Len(line) /\ IsWord(line[at + 1])
           name == IF named THEN line[at + 1] ELSE ""
           rest == From(line, IF named THEN at + 2 ELSE at + 1)
           brace == Find(rest, "{")
           new == [NewBlock("namespace", n, brace > 0) EXCEPT !.name = name]
<1>1. OpenNamespace(r, n) =
          IF FirstWord(line) # "namespace" THEN r
          ELSE [r EXCEPT !.stack = Append(@, new), !.rest = From(rest, brace + 1)]
  BY <1>0 DEF OpenNamespace
<1>2. at \in Nat \ {0} /\ Len(line) \in Nat
  BY IndentType
<1>3. rest \in Seq(T)
  <2>1. (IF named THEN at + 2 ELSE at + 1) \in Nat \ {0}
    BY <1>2
  <2> QED BY <2>1, FromType
<1>4. name \in T \cup {""}
  <2> HIDE DEF at
  <2>1. CASE named
    <3>1. at + 1 \in 1..Len(line)
      BY <1>2, <2>1
    <3>2. line[at + 1] \in T
      BY <3>1
    <3> QED BY <2>1, <3>2
  <2>2. CASE ~named
    BY <2>2
  <2> HIDE DEF name, named
  <2> QED BY <2>1, <2>2
<1> HIDE DEF at, named, name, rest
<1>5. brace \in Nat
  <2>1. brace \in 0..Len(rest)
    BY <1>3, FirstToken
  <2> HIDE DEF brace
  <2> QED BY <1>3, <2>1
<1> HIDE DEF brace
<1>6. From(rest, brace + 1) \in Seq(T)
  BY <1>3, <1>5, FromType
<1>7. NewBlock("namespace", n, brace > 0) \in Blocks(T, n)
  <2>1. (brace > 0) \in BOOLEAN
    BY <1>5
  <2> QED BY <2>1, NewBlockType
<1>8. new \in Blocks(T, n)
  BY <1>4, <1>7 DEF Blocks
<1>9. Append(r.stack, new) \in Seq(Blocks(T, n))
  BY <1>8 DEF Progress
<1> HIDE DEF new
<1> QED BY <1>1, <1>6, <1>9 DEF Progress

\* Opening all the namespaces that a line begins, one after the other.
LEMMA OpenNamespacesType ==
    ASSUME NEW T, NEW n \in Nat \ {0}, NEW s \in Seq(Blocks(T, n)), NEW line \in Seq(T)
    PROVE  OpenNamespaces(s, line, n) \in Progress(T, n)
<1> DEFINE U == Progress(T, n)
           m == Len(line)
           b == [stack |-> s, rest |-> line, from |-> 1, errors |-> <<>>]
           Is(f) == f = [k \in 0..m |-> IF k = 0 THEN b ELSE OpenNamespace(f[k - 1], n)]
           f == CHOOSE f : Is(f)
           G == [p \in (1..m) \X U |-> OpenNamespace(p[2], n)]
<1>1. m \in Nat /\ b \in U
  BY DEF Progress
<1>2. \A r \in U : OpenNamespace(r, n) \in U
  BY OpenNamespaceType
<1>3. OpenNamespaces(s, line, n) = f[m]
  BY DEF OpenNamespaces
<1> HIDE DEF U, m, b
<1>4. G \in [(1..m) \X U -> U]
  BY <1>2
<1> HIDE DEF G
<1>5. PICK h : IsIteration(h, U, m, b, G)
  BY <1>1, <1>4, IteratesExist
<1>6. ASSUME NEW k \in 1..m PROVE h[k] = OpenNamespace(h[k - 1], n)
  <2>1. h[k] = G[<<k, h[k - 1]>>] /\ h[k - 1] \in U
    BY <1>1, <1>5 DEF IsIteration
  <2> QED BY <2>1 DEF G
<1>7. Is(h)
  BY <1>1, <1>5, <1>6 DEF IsIteration
<1>8. Is(f)
  BY <1>7
<1> HIDE DEF f
<1>9. f[0] = b /\ \A k \in 1..m : f[k] = OpenNamespace(f[k - 1], n)
  BY <1>1, <1>8
<1>10. \A k \in 0..m : f[k] \in U
  BY <1>1, <1>2, <1>9, IteratesStay
<1> QED BY <1>1, <1>3, <1>10 DEF U

\* The keyword that ClassKeyword finds has a word behind it.
LEMMA ClassKeywordType ==
    ASSUME NEW T, NEW line \in Seq(T), ClassKeyword(line) # 0
    PROVE  /\ ClassKeyword(line) \in 1..(Len(line) - 1)
           /\ line[ClassKeyword(line)] \in {"class", "struct"}
<1> DEFINE at == GetIndentLevel(line) + 1
           Declares(k) ==
            /\ line[k] \in {"class", "struct"} /\ k < Len(line) /\ IsWord(line[k + 1])
            /\ \/ k = at
               \/ /\ k > at + 2 /\ line[at] = "template" /\ line[at + 1] = "<" /\ line[k - 1] = ">"
                  /\ \A i \in (at + 1)..(k - 1) : IsWord(line[i]) \/ line[i] \in {"<", ">", ",", ":", " "}
           found == {k \in DOMAIN line : Declares(k)}
           key == CHOOSE k \in found : \A j \in found : j <= k
<1>1. ClassKeyword(line) = IF found = {} THEN 0 ELSE key
  BY DEF ClassKeyword
<1>2. \A k : Declares(k) => line[k] \in {"class", "struct"} /\ k < Len(line)
  OBVIOUS
<1> HIDE DEF Declares
<1>3. found # {} /\ key = ClassKeyword(line)
  <2> HIDE DEF found, key
  <2> QED BY <1>1
<1>4. found \in SUBSET (1..Len(line)) /\ Len(line) \in Nat /\ 1 \in Nat
  OBVIOUS
<1>5. key \in found
  <2> HIDE DEF found
  <2> QED BY <1>3, <1>4, GreatestOf
<1>6. key \in 1..Len(line) /\ Declares(key)
  <2> HIDE DEF key
  <2> QED BY <1>5
<1> HIDE DEF key, found
<1> QED BY <1>2, <1>3, <1>6

\* Opening a class or struct puts a block of the line on the stack.
LEMMA OpenClassType ==
    ASSUME NEW T, NEW n \in Nat \ {0}, NEW r \in Progress(T, n), NEW elided,
           NEW raw \in Seq(Seq(T)), n <= Len(raw)
    PROVE  OpenClass(r, elided, raw, n) \in Progress(T, n)
<1>0. PICK line \in Seq(T) : line = r.rest
  BY DEF Progress
<1> DEFINE at == ClassKeyword(line)
           new == [NewBlock(line[at], n, FALSE)
                      EXCEPT !.name = line[at + 1], !.indent = GetIndentLevel(raw[n]),
                             !.access = IF line[at] = "struct" THEN "public" ELSE "private"]
           opens == at > 0 /\ Top(r.stack).parens = 0 /\ ~InTemplateArgumentList(elided, n, at + 2)
<1>1. OpenClass(r, elided, raw, n) =
          IF opens THEN [r EXCEPT !.stack = Append(@, new), !.rest = From(@, at + 2)] ELSE r
  BY <1>0 DEF OpenClass, OpenClassAt
<1>2. CASE ~opens
  <2> HIDE DEF opens
  <2> QED BY <1>1, <1>2
<1>3. CASE opens
  <2>1. at # 0
    <3> HIDE DEF at
    <3> QED BY <1>3
  <2>2. at \in 1..(Len(line) - 1) /\ line[at] \in {"class", "struct"}
    BY <2>1, ClassKeywordType
  <2>3. GetIndentLevel(raw[n]) \in Nat
    <3>1. raw[n] \in Seq(T)
      OBVIOUS
    <3>2. GetIndentLevel(raw[n]) \in 0..Len(raw[n])
      BY <3>1, IndentType
    <3> QED BY <3>1, <3>2
  <2> HIDE DEF at, opens
  <2>4. line[at + 1] \in T /\ at + 2 \in Nat \ {0}
    BY <2>2
  <2>5. NewBlock(line[at], n, FALSE) \in Blocks(T, n)
    BY <2>2, NewBlockType
  <2>6. new \in Blocks(T, n)
    BY <2>3, <2>4, <2>5 DEF Blocks
  <2>7. Append(r.stack, new) \in Seq(Blocks(T, n))
    BY <2>6 DEF Progress
  <2>8. From(line, at + 2) \in Seq(T)
    BY <2>4, FromType
  <2> HIDE DEF new
  <2> QED BY <1>0, <1>1, <1>3, <2>7, <2>8 DEF Progress
<1> QED BY <1>2, <1>3

\* An access specifier changes the innermost class only, and may raise an error about its indent.
LEMMA SetAccessType ==
    ASSUME NEW T, NEW n \in Nat \ {0}, NEW r \in Progress(T, n)
    PROVE  SetAccess(r, n) \in Progress(T, n)
<1>0. PICK line \in Seq(T), s \in Seq(Blocks(T, n)) : line = r.rest /\ s = r.stack
  BY DEF Progress
<1> DEFINE at == AccessAt(s, line)
           I == {i \in 1..(Len(line) - 1) :
                        line[i] \in {"public", "private", "protected"} /\ line[i + 1] = ":"}
           new == [Top(s) EXCEPT !.access = line[at]]
<1>1. SetAccess(r, n) = IF at = 0 THEN r
                        ELSE [r EXCEPT !.stack = SetTop(@, new), !.errors = @ \o AccessErrors(at, s, line, n)]
  BY <1>0 DEF SetAccess, SetAccessAt
<1>2. CASE at = 0
  <2> HIDE DEF at
  <2> QED BY <1>1, <1>2
<1>3. CASE at # 0
  <2>1. IsClass(Top(s)) /\ at = Max({0} \cup I)
    BY <1>3 DEF AccessAt
  <2>2. {0} \cup I \in SUBSET (0..Len(line)) /\ Len(line) \in Nat
    OBVIOUS
  <2>3. Max({0} \cup I) \in {0} \cup I
    <3> HIDE DEF I
    <3> QED BY <2>2, GreatestOf
  <2>4. line[at] \in {"public", "private", "protected"}
    <3> HIDE DEF at
    <3> QED BY <1>3, <2>1, <2>3
  <2>5. s # <<>>
    <3>1. ~IsClass(NoBlock)
      BY DEF IsClass, NoBlock, NewBlock
    <3> QED BY <2>1, <3>1, TopType
  <2>6. Top(s) \in Blocks(T, n)
    BY <2>5, TopType
  <2>7. new \in Blocks(T, n)
    <3> HIDE DEF at
    <3> QED BY <2>4, <2>6 DEF Blocks
  <2>8. SetTop(s, new) \in Seq(Blocks(T, n))
    <3> HIDE DEF new
    <3> QED BY <2>5, <2>7, TopType
  <2>9. AccessErrors(at, s, line, n) \in Seq(Errs(n))
    <3>1. n \in 0..n /\ n \in Nat /\ "whitespace/indent" \in Raisable /\ 3 \in 0..5
      BY DEF Raisable
    <3> QED BY <3>1, ErrIfType DEF AccessErrors
  <2>10. r.errors \o AccessErrors(at, s, line, n) \in Seq(Errs(n))
    <3> HIDE DEF at
    <3>1. r.errors \in Seq(Errs(n))
      BY DEF Progress
    <3> QED BY <2>9, <3>1, JoinErrs
  <2> HIDE DEF at, new
  <2> QED BY <1>0, <1>1, <1>3, <2>8, <2>10 DEF Progress
<1> QED BY <1>2, <1>3

\* The errors at the end of a class are on a line of the text up to this one.
LEMMA ClassEndErrorsType ==
    ASSUME NEW T, NEW n \in Nat \ {0}, NEW block \in Blocks(T, n), NEW elided
    PROVE  ClassEndErrors(block, elided, n) \in Seq(Errs(n))
<1> DEFINE body == SubSeq(elided, 1, n - 1)
           at == SelectLastInSubSeq(body, block.line + 1, n - 1, LAMBDA l : "DISALLOW" \in ToSet(l))
           I == {i \in (block.line + 1)..(n - 1) : "DISALLOW" \in ToSet(body[i])}
           first == at > 0 /\ \E i \in (at + 1)..(n - 1) : ~IsBlank(elided[i])
           second == FirstWord(elided[n]) = "}" /\ GetIndentLevel(elided[n]) # block.indent
<1>1. at = IF I # {} THEN Max(I) ELSE 0
  BY DEF SelectLastInSubSeq
<1>2. block.line \in Nat
  <2>1. block.line \in 1..n
    BY DEF Blocks
  <2> QED BY <2>1
<1>3. (IF I # {} THEN Max(I) ELSE 0) \in {0} \cup ((block.line + 1)..(n - 1))
  <2>1. I \in SUBSET ((block.line + 1)..(n - 1))
    OBVIOUS
  <2>2. block.line + 1 \in Nat /\ n - 1 \in Nat
    BY <1>2
  <2> HIDE DEF I
  <2> QED BY <2>1, <2>2, GreatestOrZero
<1>4. at \in 0..n
  <2> HIDE DEF at, I
  <2> QED BY <1>1, <1>2, <1>3
<1>5. ClassEndErrors(block, elided, n) = ErrIf(first, at, "readability/constructors", 3)
                                         \o ErrIf(second, n, "whitespace/indent", 3)
  BY DEF ClassEndErrors
<1> HIDE DEF at, first, second
<1>6. /\ "readability/constructors" \in Raisable /\ "whitespace/indent" \in Raisable
      /\ 3 \in 0..5 /\ n \in 0..n /\ n \in Nat
  BY DEF Raisable
<1>7. /\ ErrIf(first, at, "readability/constructors", 3) \in Seq(Errs(n))
      /\ ErrIf(second, n, "whitespace/indent", 3) \in Seq(Errs(n))
  BY <1>4, <1>6, ErrIfType
<1> QED BY <1>5, <1>7, JoinErrs

\* The errors at the end of a namespace are on the line that ends it.
LEMMA NamespaceEndErrorsType ==
    ASSUME NEW n \in Nat \ {0}, NEW block, NEW raw
    PROVE  NamespaceEndErrors(block, raw, n) \in Seq(Errs(n))
<1>1. /\ "readability/namespace" \in Raisable /\ 5 \in 0..5 /\ n \in 0..n /\ n \in Nat
  BY DEF Raisable
<1>2. \A c : ErrIf(c, n, "readability/namespace", 5) \in Seq(Errs(n))
  BY <1>1, ErrIfType
<1> QED BY <1>2, Zenon DEF NamespaceEndErrors

\* The errors at the end of any block.
LEMMA EndErrorsType ==
    ASSUME NEW T, NEW n \in Nat \ {0}, NEW block \in Blocks(T, n), NEW elided, NEW raw
    PROVE  EndErrors(block, elided, raw, n) \in Seq(Errs(n))
<1>1. <<>> \in Seq(Errs(n))
  OBVIOUS
<1>2. CASE IsClass(block)
  <2>1. block.kind # "namespace"
    BY <1>2 DEF IsClass
  <2>2. EndErrors(block, elided, raw, n) = ClassEndErrors(block, elided, n)
    BY <1>2, <2>1 DEF EndErrors
  <2> QED BY <2>2, ClassEndErrorsType
<1>3. CASE ~IsClass(block)
  <2>1. EndErrors(block, elided, raw, n) \in {<<>>, NamespaceEndErrors(block, raw, n)}
    BY <1>3 DEF EndErrors
  <2> QED BY <1>1, <2>1, NamespaceEndErrorsType
<1> QED BY <1>2, <1>3

\* The block that a brace opens is one of the line.
LEMMA BraceBlockType ==
    ASSUME NEW T, NEW n \in Nat \ {0}, NEW text \in Seq(T)
    PROVE  BraceBlock(text, n) \in Blocks(T, n)
<1> DEFINE new(kind) == NewBlock(kind, n, TRUE)
<1>1. new("extern") \in Blocks(T, n) /\ new("block") \in Blocks(T, n)
  BY NewBlockType
<1>2. BraceBlock(text, n) \in {new("extern"), new("block")}
         \/ (MatchAsm(text) /\ BraceBlock(text, n) = [new("block") EXCEPT !.asm = BlockAsm])
  <2> HIDE DEF new
  <2> DEFINE extern == SubSeq(text, 1, Len(text) - 1) = <<"extern", Quote, Quote>>
  <2>1. BraceBlock(text, n) = CASE extern -> new("extern")
                                [] MatchAsm(text) -> [new("block") EXCEPT !.asm = BlockAsm]
                                [] OTHER -> new("block")
    BY DEF BraceBlock, new
  <2> HIDE DEF extern
  <2> QED BY <2>1
<1> HIDE DEF new
<1>3. CASE MatchAsm(text)
  <2>1. BlockAsm \in AsmValues(T)
    BY <1>3, NoAsmWithout DEF AsmValues
  <2>2. [new("block") EXCEPT !.asm = BlockAsm] \in Blocks(T, n)
    BY <1>1, <2>1 DEF Blocks
  <2> QED BY <1>1, <1>2, <2>2
<1> QED BY <1>1, <1>2, <1>3

\* A block whose brace has not been seen is on the stack.
LEMMA SeenType ==
    ASSUME NEW T, NEW n \in Nat, NEW s \in Seq(Blocks(T, n)), ~SeenOpenBrace(s)
    PROVE  s # <<>>
<1>1. NoBlock.seen
  BY DEF NoBlock, NewBlock
<1> QED BY <1>1, TopType DEF SeenOpenBrace

\* A brace, semicolon or parenthesis changes the stack within the line's blocks.
LEMMA ConsumeTokenType ==
    ASSUME NEW T, NEW n \in Nat \ {0}, NEW r \in Progress(T, n), NEW i \in 1..Len(r.rest), NEW elided, NEW raw
    PROVE  ConsumeToken(r, i, elided, raw, n) \in Progress(T, n) /\ ConsumeToken(r, i, elided, raw, n).rest = r.rest
<1>0. PICK s \in Seq(Blocks(T, n)), errors \in Seq(Errs(n)), line \in Seq(T), from \in Nat \ {0} :
          s = r.stack /\ errors = r.errors /\ line = r.rest /\ from = r.from
  BY DEF Progress
<1>b. SubSeq(r.rest, r.from, i) \in Seq(T) /\ i + 1 \in Nat \ {0} /\ n \in Nat
  <2>1. i \in 1..Len(line)
    BY <1>0
  <2>2. SubSeq(line, from, i) \in Seq(T)
    BY <2>1
  <2> QED BY <1>0, <2>1, <2>2
<1>i. PICK next \in Nat \ {0} : next = i + 1
  BY <1>b
<1> DEFINE open == IF SeenOpenBrace(s) THEN Append(s, BraceBlock(SubSeq(r.rest, r.from, i), n))
                   ELSE SetTop(s, [Top(s) EXCEPT !.seen = TRUE])
           more == errors \o EndErrors(Top(s), elided, raw, n)
<1>1. PICK s1 \in Seq(Blocks(T, n)) : s1 = open
  <2>1. CASE SeenOpenBrace(s)
    BY <1>b, <2>1, BraceBlockType, TopType
  <2>2. CASE ~SeenOpenBrace(s)
    <3>1. s # <<>> /\ Top(s) \in Blocks(T, n)
      BY <2>2, SeenType, TopType
    <3>2. [Top(s) EXCEPT !.seen = TRUE] \in Blocks(T, n)
      BY <3>1 DEF Blocks
    <3> QED BY <2>2, <3>1, <3>2, TopType
  <2> QED BY <2>1, <2>2
<1>2. PICK s2 \in Seq(Blocks(T, n)) : s2 = AtSemicolon(s)
  BY SeenType, TopType DEF AtSemicolon
<1>3. PICK s3 \in Seq(Blocks(T, n)), e3 \in Seq(Errs(n)) :
          s # <<>> => s3 = Front(s) /\ e3 = more
  <2>1. CASE s # <<>>
    <3>1. Front(s) \in Seq(Blocks(T, n)) /\ Top(s) \in Blocks(T, n)
      BY <2>1, TopType
    <3>2. EndErrors(Top(s), elided, raw, n) \in Seq(Errs(n))
      BY <3>1, EndErrorsType
    <3>3. more \in Seq(Errs(n))
      BY <3>2
    <3> HIDE DEF more
    <3> QED BY <3>1, <3>3
  <2>2. CASE s = <<>>
    <3>1. <<>> \in Seq(Blocks(T, n)) /\ <<>> \in Seq(Errs(n))
      OBVIOUS
    <3> HIDE DEF more
    <3> QED BY <2>2, <3>1
  <2> HIDE DEF more
  <2> QED BY <2>1, <2>2
<1> HIDE DEF open, more
<1> DEFINE opened == [r EXCEPT !.from = next, !.stack = s1]
           ended == [r EXCEPT !.from = next, !.stack = s2]
           closed == [r EXCEPT !.from = next, !.stack = s3, !.errors = e3]
           skipped == [r EXCEPT !.from = next]
           Good(q) == q \in Progress(T, n) /\ q.rest = r.rest
<1>4. Good(opened) /\ Good(ended) /\ Good(closed) /\ Good(skipped) /\ Good(r)
  BY DEF Progress
<1>5. ConsumeToken(r, i, elided, raw, n) =
        CASE r.rest[i] = "{" -> opened
          [] r.rest[i] \in {";", ")"} -> ended
          [] r.rest[i] = "}" /\ s # <<>> ->
                [r EXCEPT !.from = next, !.stack = Front(s), !.errors = more]
          [] r.rest[i] = "}" /\ s = <<>> -> skipped
          [] OTHER -> r
  BY <1>0, <1>i, <1>1, <1>2 DEF ConsumeToken, open, more
<1>6. s # <<>> => closed = [r EXCEPT !.from = next, !.stack = Front(s), !.errors = more]
  BY <1>3
<1> HIDE DEF opened, ended, closed, skipped
<1>7. ConsumeToken(r, i, elided, raw, n) \in {opened, ended, skipped, closed, r}
  BY <1>5, <1>6
<1> QED BY <1>4, <1>7

\* All of them do, one after the other.
LEMMA ConsumeBracesType ==
    ASSUME NEW T, NEW n \in Nat \ {0}, NEW start \in Progress(T, n), NEW elided, NEW raw
    PROVE  ConsumeBraces(start, elided, raw, n) \in Progress(T, n)
<1> DEFINE U == {r \in Progress(T, n) : r.rest = start.rest}
           m == Len(start.rest)
           Is(f) == f = [i \in 0..m |-> IF i = 0 THEN start
                                        ELSE ConsumeToken(f[i - 1], i, elided, raw, n)]
           f == CHOOSE f : Is(f)
           G == [p \in (1..m) \X U |-> ConsumeToken(p[2], p[1], elided, raw, n)]
<1>1. m \in Nat /\ start \in U
  <2>1. start.rest \in Seq(T)
    BY DEF Progress
  <2> QED BY <2>1
<1>2. \A k \in 1..m : \A r \in U : ConsumeToken(r, k, elided, raw, n) \in U
  BY ConsumeTokenType
<1>3. ConsumeBraces(start, elided, raw, n) = f[m]
  BY DEF ConsumeBraces
<1>a. U \subseteq Progress(T, n)
  OBVIOUS
<1> HIDE DEF U, m
<1>4. G \in [(1..m) \X U -> U]
  BY <1>2
<1> HIDE DEF G
<1>5. PICK h : IsIteration(h, U, m, start, G)
  BY <1>1, <1>4, IteratesExist
<1>6. ASSUME NEW k \in 1..m PROVE h[k] = ConsumeToken(h[k - 1], k, elided, raw, n)
  <2>1. h[k] = G[<<k, h[k - 1]>>] /\ h[k - 1] \in U
    BY <1>1, <1>5 DEF IsIteration
  <2> QED BY <2>1 DEF G
<1>7. Is(h)
  BY <1>1, <1>5, <1>6 DEF IsIteration
<1>8. Is(f)
  BY <1>7
<1> HIDE DEF f
<1>9. f[0] = start /\ \A k \in 1..m : f[k] = ConsumeToken(f[k - 1], k, elided, raw, n)
  BY <1>1, <1>8
<1>10. \A k \in 0..m : f[k] \in U
  BY <1>1, <1>2, <1>9, IteratesStay
<1> QED BY <1>1, <1>3, <1>10, <1>a

\* The stack and the errors after a line.
LEMMA UpdateStackType ==
    ASSUME NEW T, NEW n \in Nat \ {0}, NEW s \in Seq(Blocks(T, n)),
           NEW elided \in Seq(Seq(T)), n <= Len(elided), NEW raw \in Seq(Seq(T)), n <= Len(raw)
    PROVE  UpdateStack(s, elided, raw, n) \in Progress(T, n)
<1>1. elided[n] \in Seq(T)
  OBVIOUS
<1>2. CountParentheses(s, elided[n]) \in Seq(Blocks(T, n))
  BY <1>1, CountParenthesesType
<1>3. OpenNamespaces(CountParentheses(s, elided[n]), elided[n], n) \in Progress(T, n)
  BY <1>1, <1>2, OpenNamespacesType
<1>4. OpenClass(OpenNamespaces(CountParentheses(s, elided[n]), elided[n], n), elided, raw, n) \in Progress(T, n)
  BY <1>3, OpenClassType
<1>5. SetAccess(OpenClass(OpenNamespaces(CountParentheses(s, elided[n]), elided[n], n), elided, raw, n), n)
          \in Progress(T, n)
  BY <1>4, SetAccessType
<1> QED BY <1>5, ConsumeBracesType DEF UpdateStack

\* The saved stacks.
Saved(T, n) ==
    [before_if : Seq(Blocks(T, n)), before_else : Seq(Blocks(T, n)), seen_else : BOOLEAN]

\* Blocks of the first lines are blocks of more lines.
LEMMA BlocksGrow ==
    ASSUME NEW T, NEW n \in Nat, NEW m \in Nat, n <= m
    PROVE  Blocks(T, n) \subseteq Blocks(T, m) /\ Seq(Blocks(T, n)) \subseteq Seq(Blocks(T, m))
<1>1. Blocks(T, n) \subseteq Blocks(T, m)
  <2> SUFFICES ASSUME NEW b \in Blocks(T, n) PROVE b \in Blocks(T, m)
    OBVIOUS
  <2>1. b.line \in 1..n
    BY DEF Blocks
  <2>2. b.line \in 1..m
    BY <2>1
  <2> QED BY <2>2 DEF Blocks
<1> HIDE DEF Blocks
<1> QED BY <1>1

\* So are the stacks that were saved.
LEMMA SavedGrow ==
    ASSUME NEW T, NEW n \in Nat, NEW m \in Nat, n <= m
    PROVE  Seq(Saved(T, n)) \subseteq Seq(Saved(T, m))
<1>1. Saved(T, n) \subseteq Saved(T, m)
  BY BlocksGrow DEF Saved
<1> QED BY <1>1

\* UpdatePreprocessor saves and restores stacks of blocks of the text.
LEMMA UpdatePreprocessorType ==
    ASSUME NEW T, NEW n \in Nat, NEW s \in Seq(Blocks(T, n)), NEW pp \in Seq(Saved(T, n)), NEW line
    PROVE  /\ UpdatePreprocessor(s, pp, line).stack \in Seq(Blocks(T, n))
           /\ UpdatePreprocessor(s, pp, line).pp \in Seq(Saved(T, n))
<1> DEFINE B == Seq(Blocks(T, n))
           Out == [stack : B, pp : Seq(Saved(T, n))]
           new == [before_if |-> s, before_else |-> <<>>, seen_else |-> FALSE]
           if == [stack |-> s, pp |-> Append(pp, new)]
           other == [stack |-> s, pp |-> pp]
<1>1. <<>> \in B /\ s \in B
  OBVIOUS
<1> HIDE DEF B
<1>2. new \in Saved(T, n)
  BY <1>1 DEF Saved, B
<1>3. if \in Out /\ other \in Out
  BY <1>1, <1>2
<1>4. ASSUME pp # <<>>
      PROVE  AfterElse(s, pp) \in Out /\ AfterEndif(s, pp) \in Out
  <2>1. Last(pp) \in Saved(T, n) /\ Front(pp) \in Seq(Saved(T, n)) /\ Len(pp) \in 1..Len(pp)
    BY <1>4 DEF Last, Front
  <2>2. Last(pp).before_if \in B /\ Last(pp).before_else \in B
    BY <2>1 DEF Saved, B
  <2> DEFINE changed == [pp EXCEPT ![Len(pp)].seen_else = TRUE, ![Len(pp)].before_else = s]
  <2>3. changed \in Seq(Saved(T, n))
    <3>1. pp[Len(pp)] \in Saved(T, n)
      BY <2>1
    <3>2. PICK e \in Saved(T, n) :
             e = [[pp[Len(pp)] EXCEPT !.seen_else = TRUE] EXCEPT !.before_else = s]
      BY <1>1, <3>1 DEF Saved, B
    <3>3. changed = [pp EXCEPT ![Len(pp)] = e]
      BY <2>1, <3>2
    <3>4. Len(pp) \in 1..Len(pp)
      BY <1>4
    <3> HIDE DEF changed
    <3> QED BY <3>2, <3>3, <3>4, ReplacedType
  <2>4. AfterElse(s, pp) = [stack |-> Last(pp).before_if, pp |-> IF Last(pp).seen_else THEN pp ELSE changed]
    BY DEF AfterElse
  <2>5. AfterElse(s, pp) \in Out
    <3> HIDE DEF changed
    <3> QED BY <2>2, <2>3, <2>4
  <2>6. AfterEndif(s, pp) \in Out
    BY <1>1, <2>1, <2>2 DEF AfterEndif
  <2> QED BY <2>5, <2>6
<1> DEFINE word == FirstWord(line)
<1>5. UpdatePreprocessor(s, pp, line) =
        CASE word \in {"#if", "#ifdef", "#ifndef"} -> if
          [] word \in {"#else", "#elif"} /\ pp # <<>> -> AfterElse(s, pp)
          [] word = "#endif" /\ pp # <<>>             -> AfterEndif(s, pp)
          [] OTHER                                    -> other
  BY DEF UpdatePreprocessor
<1> HIDE DEF word, if, other, new, Out
<1>6. UpdatePreprocessor(s, pp, line) \in Out
  BY <1>3, <1>4, <1>5
<1> QED BY <1>6 DEF Out, B

\* A line leaves a stack, saved stacks and errors of the lines up to it.
LEMMA UpdatedType ==
    ASSUME NEW T, NEW n \in Nat \ {0}, stack \in Seq(Blocks(T, n)), pp_stack \in Seq(Saved(T, n)),
           NEW elided \in Seq(Seq(T)), n <= Len(elided), NEW raw \in Seq(Seq(T)), n <= Len(raw)
    PROVE  /\ Updated(elided, raw, n).stack \in Seq(Blocks(T, n))
           /\ Updated(elided, raw, n).pp \in Seq(Saved(T, n))
           /\ Updated(elided, raw, n).errors \in Seq(Errs(n))
<1>1. PICK pp : /\ pp = UpdatePreprocessor(stack, pp_stack, elided[n])
                /\ pp.stack \in Seq(Blocks(T, n)) /\ pp.pp \in Seq(Saved(T, n))
  BY UpdatePreprocessorType
<1>2. PICK new : new = UpdateStack(pp.stack, elided, raw, n) /\ new \in Progress(T, n)
  BY <1>1, UpdateStackType
<1>3. Updated(elided, raw, n) = [stack |-> new.stack, pp |-> pp.pp, errors |-> new.errors]
  BY <1>1, <1>2 DEF Updated
<1> QED BY <1>1, <1>2, <1>3 DEF Progress

\* The confidence that more lines than the trigger at some verbosity give.
LEMMA ErrorLevelIs ==
    ASSUME NEW n \in Nat, NEW base \in Nat \ {0}, NEW v \in 0..5, n > base * 2^v
    PROVE  ErrorLevel(n, base) \in v..5
<1> DEFINE levels == {k \in 0..5 : 2^k <= n \div base}
<1>1. 2^v * base <= n
  <2>1. PICK p \in Nat : p = 2^v
    BY Powers
  <2>2. n > base * p
    BY <2>1
  <2>3. base * p = p * base /\ base * p \in Nat
    BY <2>1
  <2> QED BY <2>1, <2>2, <2>3
<1>2. v \in levels
  <2>1. 2^v <= n \div base
    BY <1>1, Quotient, Powers
  <2> QED BY <2>1
<1>3. levels \in SUBSET (0..5)
  OBVIOUS
<1>4. ErrorLevel(n, base) = CHOOSE k \in levels : \A j \in levels : j <= k
  BY DEF ErrorLevel
<1> HIDE DEF levels
<1>5. PICK i \in levels : \A j \in levels : j <= i
  BY <1>2, <1>3, LastPosition
<1>6. ErrorLevel(n, base) \in levels /\ \A j \in levels : j <= ErrorLevel(n, base)
  BY <1>4, <1>5
<1>7. ErrorLevel(n, base) \in 0..5 /\ v <= ErrorLevel(n, base)
  BY <1>2, <1>3, <1>6
<1> QED BY <1>7

-----------------------------------------------------------------------------
(* The errors of a line *)

\* In each of these the line is the one that is checked.
LEMMA ErrIfHere ==
    ASSUME NEW n \in Nat \ {0}, NEW c, NEW category \in Raisable, NEW confidence \in 0..5
    PROVE  ErrIf(c, n, category, confidence) \in Seq(Errs(n))
BY ErrIfType

\* A comment with an unknown category is an error on its line.
LEMMA NolintErrorsType ==
    ASSUME NEW n \in Nat, NEW line
    PROVE  NolintErrors(line, n) \in Seq(Errs(n))
<1>1. "readability/nolint" \in Raisable /\ 5 \in 0..5 /\ n \in 0..n
  BY DEF Raisable
<1>2. \A c : ErrIf(c, n, "readability/nolint", 5) \in Seq(Errs(n))
  BY <1>1, ErrIfType
<1> QED BY <1>2, Zenon DEF NolintErrors

\* The errors about the indentation in a namespace.
LEMMA NamespaceIndentationType ==
    ASSUME NEW n \in Nat \ {0}, NEW s, NEW before, NEW line
    PROVE  CheckForNamespaceIndentation(s, before, line, n) \in Seq(Errs(n))
<1>1. "runtime/indentation_namespace" \in Raisable /\ 4 \in 0..5
  BY DEF Raisable
<1>2. \A c : ErrIf(c, n, "runtime/indentation_namespace", 4) \in Seq(Errs(n))
  BY <1>1, ErrIfHere
<1> QED BY <1>2, Zenon DEF CheckForNamespaceIndentation

\* The errors about the length of a function, or about a missing body.
LEMMA FunctionErrorsType ==
    ASSUME NEW n \in Nat \ {0}, NEW text, lines_in_function \in Nat, NEW v \in 0..5
    PROVE  FunctionErrors(text, n, v) \in Seq(FunctionErrs(n))
<1>1. \A k \in 0..5 : Err(n, "readability/fn_size", k) \in FunctionErrs(n)
  BY DEF Err, FunctionErrs
<1>2. /\ <<>> \in Seq(FunctionErrs(n))
      /\ ErrIf(BodyLine(text, n) = 0, n, "readability/fn_size", 5) \in Seq(FunctionErrs(n))
  <2>1. <<>> \in Seq(FunctionErrs(n)) /\ 5 \in 0..5
    OBVIOUS
  <2>2. <<Err(n, "readability/fn_size", 5)>> \in Seq(FunctionErrs(n))
    BY <1>1, <2>1
  <2> QED BY <2>1, <2>2 DEF ErrIf
<1>3. LengthErrors(n, v) \in Seq(FunctionErrs(n))
  <2>1. CASE in_a_function /\ TooLong(v)
    <3>1. BaseTrigger \in Nat \ {0}
      BY TriggersAssumption DEF BaseTrigger
    <3>2. PICK level_ : level_ = ErrorLevel(lines_in_function, BaseTrigger) /\ level_ \in v..5
      BY <2>1, <3>1, ErrorLevelIs DEF TooLong
    <3>3. level_ \in 0..5
      BY <3>2
    <3>4. Err(n, "readability/fn_size", level_) \in FunctionErrs(n)
      BY <1>1, <3>3
    <3>5. LengthErrors(n, v) = <<Err(n, "readability/fn_size", level_)>>
      BY <2>1, <3>2 DEF LengthErrors
    <3> QED BY <3>4, <3>5
  <2>2. CASE ~(in_a_function /\ TooLong(v))
    BY <1>2, <2>2 DEF LengthErrors
  <2> QED BY <2>1, <2>2
<1>4. FunctionErrors(text, n, v) \in
         {<<>>, LengthErrors(n, v), ErrIf(BodyLine(text, n) = 0, n, "readability/fn_size", 5)}
  BY DEF FunctionErrors
<1> QED BY <1>2, <1>3, <1>4

\* The errors of an #include.
LEMMA IncludeLineErrorsType ==
    ASSUME NEW n \in Nat \ {0}, NEW h, NEW follows
    PROVE  [i \in DOMAIN IncludeLineErrors(h, follows) |-> Err(n, IncludeLineErrors(h, follows)[i], 4)]
              \in Seq(Errs(n))
<1> DEFINE C == {"build/include", "build/include_order", "build/include_alpha"}
<1>1. "build/include" \in C /\ "build/include_order" \in C /\ "build/include_alpha" \in C
  OBVIOUS
<1>2. C \subseteq Raisable /\ n \in 0..n /\ 4 \in 0..5
  BY DEF Raisable
<1> HIDE DEF C
<1>3. PICK found : found = IncludeLineErrors(h, follows) /\ found \in Seq(C)
  <2>1. \A s, t \in Seq(C) : s \o t \in Seq(C)
    OBVIOUS
  <2>2. /\ \A c : (IF c THEN <<"build/include">> ELSE <<>>) \in Seq(C)
        /\ \A c : (IF c THEN <<"build/include_order">> ELSE <<>>) \in Seq(C)
        /\ \A c : (IF c THEN <<"build/include_alpha">> ELSE <<>>) \in Seq(C)
    BY <1>1, IfOne
  <2>3. IncludeLineErrors(h, follows) \in Seq(C)
    BY <2>1, <2>2, ZenonT(60) DEF IncludeLineErrors
  <2> QED BY <2>3
<1>4. \A i \in 1..Len(found) : Err(n, found[i], 4) \in Errs(n)
  <2>1. \A i \in 1..Len(found) : found[i] \in Raisable
    BY <1>2, <1>3
  <2> QED BY <1>2, <2>1 DEF Err, Errs
<1>5. DOMAIN found = 1..Len(found) /\ Len(found) \in Nat
  BY <1>3
<1> DEFINE f == [i \in 1..Len(found) |-> Err(n, found[i], 4)]
<1>6. f = [i \in 1..Len(found) |-> f[i]] /\ \A i \in 1..Len(found) : f[i] \in Errs(n)
  BY <1>4
<1>7. f \in Seq(Errs(n))
  <2> HIDE DEF f
  <2> QED BY <1>5, <1>6, IsSeq
<1> QED BY <1>3, <1>5, <1>7

\* The errors of the checks of the language.
LEMMA LanguageErrorsType ==
    ASSUME NEW n \in Nat \ {0}
    PROVE  LanguageErrors(n) \in Seq(Errs(n))
<1>1. "runtime/int" \in Raisable /\ 4 \in 0..5
  BY DEF Raisable
<1>2. ErrIf("long" \in ToSet(clean.elided[n]), n, "runtime/int", 4) \in Seq(Errs(n))
  BY <1>1, ErrIfHere
<1> QED BY <1>2, IncludeLineErrorsType, Zenon DEF LanguageErrors

\* The errors of the checks of the style.
LEMMA StyleErrorsType ==
    ASSUME NEW n \in Nat \ {0}, NEW blocks
    PROVE  StyleErrors(n, blocks) \in Seq(Errs(n))
<1>1. /\ {"whitespace/tab", "whitespace/indent", "whitespace/end_of_line", "whitespace/line_length",
          "whitespace/newline", "readability/constructors"} \subseteq Raisable
      /\ 0..4 \subseteq 0..5
  BY DEF Raisable
<1>2. /\ \A c : ErrIf(c, n, "whitespace/tab", 1) \in Seq(Errs(n))
      /\ \A c : ErrIf(c, n, "whitespace/indent", 3) \in Seq(Errs(n))
      /\ \A c : ErrIf(c, n, "whitespace/end_of_line", 4) \in Seq(Errs(n))
      /\ \A c : ErrIf(c, n, "whitespace/line_length", 2) \in Seq(Errs(n))
      /\ \A c : ErrIf(c, n, "whitespace/newline", 0) \in Seq(Errs(n))
      /\ \A c : ErrIf(c, n, "readability/constructors", 3) \in Seq(Errs(n))
  BY <1>1, ErrIfHere
<1>3. CheckAccess(blocks, clean.elided[n], n) \in Seq(Errs(n))
  BY <1>2, Zenon DEF CheckAccess
<1>4. \A s, t \in Seq(Errs(n)) : s \o t \in Seq(Errs(n))
  BY JoinErrs
<1> QED BY <1>2, <1>3, <1>4, ZenonT(60) DEF StyleErrors

\* The errors of a line: the ones about functions, and others.
LEMMA LineErrorsType ==
    ASSUME NEW n \in Nat \ {0}, NEW after, after.errors \in Seq(Errs(n)),
           lines_in_function \in Nat, verbose_level \in 0..5
    PROVE  /\ LineErrors(n, after) \in Seq(LineErrs(n))
           /\ \A x : x \in ToSet(LineErrors(n, after)) /\ x.category = "readability/fn_size" <=>
                 ~InAsmBlock(after.stack) /\ x \in ToSet(FunctionErrors(clean.lines, n, verbose_level))
<1>1. /\ {"readability/multiline_comment", "readability/multiline_string", "build/c++11"} \subseteq Raisable
      /\ 5 \in 0..5 /\ n \in Nat
  BY DEF Raisable
<1>2. /\ \A c : ErrIf(c, n, "readability/multiline_comment", 5) \in Seq(Errs(n))
      /\ \A c : ErrIf(c, n, "readability/multiline_string", 5) \in Seq(Errs(n))
      /\ \A c : ErrIf(c, n, "build/c++11", 5) \in Seq(Errs(n))
  BY <1>1, ErrIfHere
<1>3. /\ \A line : NolintErrors(line, n) \in Seq(Errs(n))
      /\ \A s, before, line : CheckForNamespaceIndentation(s, before, line, n) \in Seq(Errs(n))
      /\ \A blocks : StyleErrors(n, blocks) \in Seq(Errs(n))
      /\ LanguageErrors(n) \in Seq(Errs(n))
  BY <1>1, NolintErrorsType, NamespaceIndentationType, StyleErrorsType, LanguageErrorsType
<1>4. PICK a1 \in Seq(Errs(n)) : a1 = NolintErrors(clean.raw_lines[n], n)
  BY <1>3
<1>5. PICK a2 \in Seq(Errs(n)) : a2 = after.errors
  OBVIOUS
<1>6. PICK b \in Seq(Errs(n)) : b = CheckForNamespaceIndentation(after.stack, Innermost(stack), clean.elided[n], n)
  BY <1>3
<1> DEFINE multi == CheckForMultilineCommentsAndStrings(clean.elided[n])
<1>7. PICK c1 \in Seq(Errs(n)) :
         c1 = ErrIf("readability/multiline_comment" \in multi, n, "readability/multiline_comment", 5)
  BY <1>2
<1>8. PICK c2 \in Seq(Errs(n)) :
         c2 = ErrIf("readability/multiline_string" \in multi, n, "readability/multiline_string", 5)
  BY <1>2
<1>9. PICK c3 \in Seq(Errs(n)) : c3 = StyleErrors(n, after.stack)
  BY <1>3
<1>10. PICK c4 \in Seq(Errs(n)) : c4 = LanguageErrors(n)
  BY <1>3
<1>11. PICK d \in Seq(Errs(n)) :
          d = ErrIf(IsInclude(clean.elided[n]) /\ Headers[HeaderOf(clean.elided[n])].cxx11, n, "build/c++11", 5)
  BY <1>2
<1>12. PICK f \in Seq(FunctionErrs(n)) : f = FunctionErrors(clean.lines, n, verbose_level)
  BY FunctionErrorsType
<1>13. PICK asm : asm = InAsmBlock(after.stack)
  OBVIOUS
<1>14. PICK core : core = IF asm THEN <<>> ELSE f \o c1 \o c2 \o c3 \o c4
  OBVIOUS
<1>15. LineErrors(n, after) = (a1 \o a2) \o b \o core \o d
  BY <1>4, <1>5, <1>6, <1>7, <1>8, <1>9, <1>10, <1>11, <1>12, <1>13, <1>14 DEF LineErrors
<1>16. \A s, t \in Seq(LineErrs(n)) : s \o t \in Seq(LineErrs(n)) /\ ToSet(s \o t) = ToSet(s) \cup ToSet(t)
  BY ElementsOfJoin
<1>17. Seq(Errs(n)) \subseteq Seq(LineErrs(n)) /\ Seq(FunctionErrs(n)) \subseteq Seq(LineErrs(n))
  BY DEF LineErrs
<1>18. /\ core \in Seq(LineErrs(n))
       /\ ToSet(core) = IF asm THEN {}
                        ELSE ToSet(f) \cup ToSet(c1) \cup ToSet(c2) \cup ToSet(c3) \cup ToSet(c4)
  <2>1. CASE asm
    <3>1. core = <<>>
      BY <1>14, <2>1
    <3>2. ToSet(core) = {}
      BY <3>1 DEF ToSet
    <3> QED BY <2>1, <3>1, <3>2
  <2>2. CASE ~asm
    <3>1. core = f \o c1 \o c2 \o c3 \o c4
      BY <1>14, <2>2
    <3>2. f \o c1 \in Seq(LineErrs(n)) /\ ToSet(f \o c1) = ToSet(f) \cup ToSet(c1)
      BY <1>16, <1>17
    <3>3. f \o c1 \o c2 \in Seq(LineErrs(n)) /\ ToSet(f \o c1 \o c2) = ToSet(f) \cup ToSet(c1) \cup ToSet(c2)
      BY <1>16, <1>17, <3>2
    <3>4. /\ f \o c1 \o c2 \o c3 \in Seq(LineErrs(n))
          /\ ToSet(f \o c1 \o c2 \o c3) = ToSet(f) \cup ToSet(c1) \cup ToSet(c2) \cup ToSet(c3)
      BY <1>16, <1>17, <3>3
    <3>5. /\ f \o c1 \o c2 \o c3 \o c4 \in Seq(LineErrs(n))
          /\ ToSet(f \o c1 \o c2 \o c3 \o c4)
                = ToSet(f) \cup ToSet(c1) \cup ToSet(c2) \cup ToSet(c3) \cup ToSet(c4)
      BY <1>16, <1>17, <3>4
    <3> QED BY <2>2, <3>1, <3>5
  <2> QED BY <2>1, <2>2
<1>19. /\ LineErrors(n, after) \in Seq(LineErrs(n))
       /\ ToSet(LineErrors(n, after)) = ToSet(a1) \cup ToSet(a2) \cup ToSet(b) \cup ToSet(core) \cup ToSet(d)
  <2>1. a1 \o a2 \in Seq(LineErrs(n)) /\ ToSet(a1 \o a2) = ToSet(a1) \cup ToSet(a2)
    BY <1>16, <1>17
  <2>2. /\ (a1 \o a2) \o b \in Seq(LineErrs(n))
        /\ ToSet((a1 \o a2) \o b) = ToSet(a1) \cup ToSet(a2) \cup ToSet(b)
    BY <1>16, <1>17, <2>1
  <2>3. /\ (a1 \o a2) \o b \o core \in Seq(LineErrs(n))
        /\ ToSet((a1 \o a2) \o b \o core) = ToSet(a1) \cup ToSet(a2) \cup ToSet(b) \cup ToSet(core)
    BY <1>16, <1>18, <2>2
  <2>4. /\ (a1 \o a2) \o b \o core \o d \in Seq(LineErrs(n))
        /\ ToSet((a1 \o a2) \o b \o core \o d)
              = ToSet(a1) \cup ToSet(a2) \cup ToSet(b) \cup ToSet(core) \cup ToSet(d)
    BY <1>16, <1>17, <2>3
  <2> QED BY <1>15, <2>4
<1>20. \A s \in Seq(Errs(n)) : \A x \in ToSet(s) : x.category # "readability/fn_size"
  <2> SUFFICES ASSUME NEW s \in Seq(Errs(n)), NEW x \in ToSet(s) PROVE x.category # "readability/fn_size"
    OBVIOUS
  <2>1. x \in Errs(n)
    BY DEF ToSet
  <2>2. x.category \in Raisable
    BY <2>1 DEF Errs
  <2> QED BY <2>2 DEF Raisable
<1>21. \A x \in ToSet(f) : x.category = "readability/fn_size"
  <2> SUFFICES ASSUME NEW x \in ToSet(f) PROVE x.category = "readability/fn_size"
    OBVIOUS
  <2>1. x \in FunctionErrs(n)
    BY DEF ToSet
  <2> QED BY <2>1 DEF FunctionErrs
<1>22. \A x : x \in ToSet(LineErrors(n, after)) /\ x.category = "readability/fn_size" <=> ~asm /\ x \in ToSet(f)
  BY <1>18, <1>19, <1>20, <1>21
<1> QED BY <1>12, <1>13, <1>19, <1>22

-----------------------------------------------------------------------------
(* The errors at the end of a file *)

\* Lists of errors for each of n things, one after the other.
LEMMA FlattenErrs ==
    ASSUME NEW N \in Nat, NEW n \in Nat, NEW f, f = [i \in 1..n |-> f[i]],
           \A i \in 1..n : f[i] \in Seq(Errs(N))
    PROVE  FlattenSeq(f) \in Seq(Errs(N))
<1>1. f \in Seq(Seq(Errs(N)))
  BY IsSeq
<1> QED BY <1>1, FlattenType

\* An open class or namespace at the end of the text is an error on the line that began it.
LEMMA IncompleteErrorsType ==
    ASSUME NEW T, NEW N \in Nat, stack \in Seq(Blocks(T, N))
    PROVE  IncompleteErrors \in Seq(Errs(N))
<1> DEFINE f == [i \in DOMAIN stack |->
        ErrIf(IsClass(stack[i]), stack[i].line, "build/class", 5)
        \o ErrIf(stack[i].kind = "namespace", stack[i].line, "build/namespaces", 5)]
<1>1. Len(stack) \in Nat /\ DOMAIN stack = 1..Len(stack)
  OBVIOUS
<1>2. ASSUME NEW i \in 1..Len(stack) PROVE f[i] \in Seq(Errs(N))
  <2>1. PICK b \in Blocks(T, N) : b = stack[i]
    OBVIOUS
  <2>2. b.line \in 1..N
    BY DEF Blocks
  <2>3. b.line \in 0..N /\ "build/class" \in Raisable /\ "build/namespaces" \in Raisable /\ 5 \in 0..5
    BY <2>2 DEF Raisable
  <2>4. /\ ErrIf(IsClass(b), b.line, "build/class", 5) \in Seq(Errs(N))
        /\ ErrIf(b.kind = "namespace", b.line, "build/namespaces", 5) \in Seq(Errs(N))
    BY <2>3, ErrIfType
  <2>5. f[i] = ErrIf(IsClass(b), b.line, "build/class", 5)
               \o ErrIf(b.kind = "namespace", b.line, "build/namespaces", 5)
    BY <1>1, <2>1
  <2> HIDE DEF f
  <2> QED BY <2>4, <2>5, JoinErrs
<1>3. f = [i \in 1..Len(stack) |-> f[i]]
  BY <1>1
<1>4. IncompleteErrors = FlattenSeq(f)
  BY DEF IncompleteErrors
<1> HIDE DEF f
<1> QED BY <1>1, <1>2, <1>3, <1>4, FlattenErrs

\* A sequence of errors of one kind.
LEMMA MappedErrs ==
    ASSUME NEW N \in Nat, NEW S, NEW s \in Seq(S), NEW line, \A x \in S : line[x] \in 0..N,
           NEW category \in Raisable, NEW confidence \in 0..5
    PROVE  [i \in DOMAIN s |-> Err(line[s[i]], category, confidence)] \in Seq(Errs(N))
<1> DEFINE f == [i \in DOMAIN s |-> Err(line[s[i]], category, confidence)]
<1>1. DOMAIN s = 1..Len(s) /\ Len(s) \in Nat
  OBVIOUS
<1>2. ASSUME NEW i \in 1..Len(s) PROVE f[i] \in Errs(N)
  <2>1. line[s[i]] \in 0..N
    OBVIOUS
  <2>2. f[i] = Err(line[s[i]], category, confidence)
    BY <1>1
  <2> HIDE DEF f
  <2> QED BY <2>1, <2>2 DEF Err, Errs
<1>3. f = [i \in 1..Len(s) |-> f[i]]
  BY <1>1
<1> HIDE DEF f
<1>4. f \in Seq(Errs(N))
  BY <1>1, <1>2, <1>3, IsSeq
<1> QED BY <1>4 DEF f

\* The headers that the text needs are finitely many, each first needed on a line of it.
LEMMA RequiredType ==
    ASSUME Len(lines) \in Nat, DOMAIN lines = 1..Len(lines)
    PROVE  IsFiniteSet(DOMAIN Required) /\ \A h \in DOMAIN Required : Required[h] \in 0..Len(lines)
<1> DEFINE Uses(n) == IF clean.elided[n] # <<>> /\ clean.elided[n][1] \in Directives \cup {"#include", "#define"}
                      THEN {} ELSE {NeededFor[t] : t \in ToSet(clean.elided[n]) \cap DOMAIN NeededFor}
           all == UNION {Uses(n) : n \in DOMAIN lines}
           needed == {NeededFor[t] : t \in DOMAIN NeededFor}
           At(h) == {n \in DOMAIN lines : h \in Uses(n)}
           last(h) == CHOOSE n \in DOMAIN lines : h \in Uses(n) /\ \A m \in DOMAIN lines : h \in Uses(m) => m <= n
<1>1. Required = [h \in all |-> last(h)]
  BY DEF Required
<1>2. \A n : Uses(n) \subseteq needed
  OBVIOUS
<1>3. IsFiniteSet(needed)
  <2> DEFINE f == [t \in DOMAIN NeededFor |-> NeededFor[t]]
  <2>1. f \in Surjection(DOMAIN NeededFor, needed)
    BY DEF Surjection
  <2> HIDE DEF f, needed
  <2> QED BY <2>1, FS_Surjection, NeededForAssumption
<1> HIDE DEF Uses, needed
<1>4. IsFiniteSet(all)
  <2>1. all \subseteq needed
    BY <1>2
  <2> HIDE DEF all
  <2> QED BY <1>3, <2>1, FS_Subset
<1>5. ASSUME NEW h \in all PROVE last(h) \in 0..Len(lines)
  <2>1. At(h) \in SUBSET (0..Len(lines)) /\ At(h) # {}
    OBVIOUS
  <2>2. PICK n \in At(h) : \A m \in At(h) : m <= n
    <3> HIDE DEF At
    <3> QED BY <2>1, LastPosition
  <2>3. last(h) \in DOMAIN lines
    BY <2>2
  <2> HIDE DEF last
  <2> QED BY <2>3
<1> HIDE DEF all, last
<1> QED BY <1>1, <1>4, <1>5

\* A missing header is an error on the line that first needs it.
LEMMA IncludeWhatYouUseType ==
    ASSUME Len(lines) \in Nat, DOMAIN lines = 1..Len(lines)
    PROVE  IncludeWhatYouUseErrors \in Seq(Errs(Len(lines)))
<1> DEFINE S == MissingIncludes(world.disk, Required)
           missing == SetToSeq(S)
<1>1. S \subseteq DOMAIN Required
  BY DEF MissingIncludes
<1> HIDE DEF S
<1>2. IsFiniteSet(S) /\ \A h \in S : Required[h] \in 0..Len(lines)
  BY <1>1, RequiredType, FS_Subset
<1>3. missing \in Seq(S)
  BY <1>2, SetToSeqType
<1>4. "build/include_what_you_use" \in Raisable /\ 4 \in 0..5
  BY DEF Raisable
<1>5. IncludeWhatYouUseErrors = [i \in DOMAIN missing |-> Err(Required[missing[i]], "build/include_what_you_use", 4)]
  BY DEF IncludeWhatYouUseErrors, S
<1> HIDE DEF missing
<1>6. [i \in DOMAIN missing |-> Err(Required[missing[i]], "build/include_what_you_use", 4)]
          \in Seq(Errs(Len(lines)))
  BY <1>2, <1>3, <1>4, MappedErrs
<1> QED BY <1>5, <1>6

\* The entries of the include lists are on lines up to n.
ListedUpTo(n) == \A i \in DOMAIN include_list : \A j \in DOMAIN include_list[i] : include_list[i][j].line \in 1..n

\* The first #include is on a line of the text, or there is none.
LEMMA FirstIncludeType ==
    ASSUME NEW N \in Nat, NEW X, include_list \in Seq(Seq(X)), ListedUpTo(N)
    PROVE  FirstInclude \in 0..N
<1> DEFINE E == {e \in X : e.line \in 1..N}
<1>1. include_list \in Seq(Seq(E))
  <2>1. ASSUME NEW i \in 1..Len(include_list) PROVE include_list[i] \in Seq(E)
    <3>1. PICK s \in Seq(X) : s = include_list[i]
      OBVIOUS
    <3>2. \A j \in 1..Len(s) : s[j] \in E
      BY <3>1 DEF ListedUpTo
    <3> HIDE DEF E
    <3> QED BY <3>1, <3>2, SeqOver
  <2> HIDE DEF E
  <2> QED BY <2>1, SeqOver
<1>2. PICK all \in Seq(E) : all = FlattenSeq(include_list)
  <2> HIDE DEF E
  <2> QED BY <1>1, FlattenType
<1>3. FirstInclude = IF all = <<>> THEN 0 ELSE all[1].line
  BY <1>2 DEF FirstInclude
<1>4. all # <<>> => all[1] \in E
  BY <1>2
<1> QED BY <1>3, <1>4

\* The errors that are found at the end of a text are on its lines.
LEMMA EndErrorsOfFileType ==
    ASSUME NEW T, NEW X, lines \in Seq(X), stack \in Seq(Blocks(T, Len(lines))),
           NEW Y, include_list \in Seq(Seq(Y)), ListedUpTo(Len(lines))
    PROVE  IncompleteErrors \o IncludeWhatYouUseErrors \o OwnHeaderErrors
              \o BadCharacterErrors \o NewlineErrors \in Seq(Errs(Len(lines)))
<1> DEFINE N == Len(lines)
<1>1. N \in Nat /\ DOMAIN lines = 1..N
  OBVIOUS
<1>2. {"build/include", "readability/utf8", "readability/nul", "whitespace/ending_newline"} \subseteq Raisable
      /\ 5 \in 0..5
  BY DEF Raisable
<1> HIDE DEF N
<1>3. IncompleteErrors \in Seq(Errs(N)) /\ IncludeWhatYouUseErrors \in Seq(Errs(N))
  BY <1>1, IncompleteErrorsType, IncludeWhatYouUseType DEF N
<1>4. OwnHeaderErrors \in Seq(Errs(N))
  <2>1. FirstInclude \in 0..N
    BY <1>1, FirstIncludeType DEF N
  <2> QED BY <1>1, <1>2, <2>1, ErrIfType DEF OwnHeaderErrors
<1>5. BadCharacterErrors \in Seq(Errs(N))
  <2> DEFINE f == [n \in DOMAIN lines |->
        ErrIf("UFFFD" \in ToSet(lines[n]), n, "readability/utf8", 5)
        \o ErrIf("NUL" \in ToSet(lines[n]), n, "readability/nul", 5)]
  <2>1. ASSUME NEW n \in 1..N PROVE f[n] \in Seq(Errs(N))
    <3>1. /\ ErrIf("UFFFD" \in ToSet(lines[n]), n, "readability/utf8", 5) \in Seq(Errs(N))
          /\ ErrIf("NUL" \in ToSet(lines[n]), n, "readability/nul", 5) \in Seq(Errs(N))
      <4>1. n \in 0..N
        OBVIOUS
      <4> QED BY <1>1, <1>2, <4>1, ErrIfType
    <3>2. f[n] = ErrIf("UFFFD" \in ToSet(lines[n]), n, "readability/utf8", 5)
                 \o ErrIf("NUL" \in ToSet(lines[n]), n, "readability/nul", 5)
      BY <1>1
    <3> HIDE DEF f
    <3> QED BY <1>1, <3>1, <3>2, JoinErrs
  <2>2. f = [n \in 1..N |-> f[n]]
    BY <1>1
  <2>3. BadCharacterErrors = FlattenSeq(f)
    BY DEF BadCharacterErrors
  <2> HIDE DEF f
  <2> QED BY <1>1, <2>1, <2>2, <2>3, FlattenErrs
<1>6. NewlineErrors \in Seq(Errs(N))
  <2>1. N \in 0..N
    BY <1>1
  <2> QED BY <1>1, <1>2, <2>1, ErrIfType DEF NewlineErrors, N
<1>7. \A s, t \in Seq(Errs(N)) : s \o t \in Seq(Errs(N))
  BY <1>1, JoinErrs
<1> QED BY <1>3, <1>4, <1>5, <1>6, <1>7, Zenon DEF N

\* So are those about carriage returns.
LEMMA CarriageReturnType ==
    ASSUME NEW X, lines \in Seq(X)
    PROVE  CarriageReturnErrors \in Seq(Errs(Len(lines)))
<1> DEFINE split == 1..(Len(lines) - 1)
           S == TheFile.crlf \cap split
           crlf == SetToSeq(S)
           same == [k \in S |-> k]
<1>1. Len(lines) \in Nat /\ "whitespace/newline" \in Raisable /\ 1 \in 0..5
  BY DEF Raisable
<1>2. IsFiniteSet(S)
  <2>1. IsFiniteSet(split) /\ S \subseteq split
    BY <1>1, FS_Interval
  <2> HIDE DEF split, S
  <2> QED BY <2>1, FS_Subset
<1>3. \A k \in S : same[k] = k /\ same[k] \in 0..Len(lines)
  BY <1>1
<1> HIDE DEF S, same
<1>4. crlf \in Seq(S)
  BY <1>2, SetToSeqType
<1> HIDE DEF crlf
<1>5. [i \in DOMAIN crlf |-> Err(same[crlf[i]], "whitespace/newline", 1)] \in Seq(Errs(Len(lines)))
  <2>1. \A k \in S : same[k] \in 0..Len(lines)
    BY <1>3
  <2>2. PICK N \in Nat : N = Len(lines)
    BY <1>1
  <2>3. PICK s \in Seq(S) : s = crlf
    BY <1>4
  <2>4. \A k \in S : same[k] \in 0..N
    BY <2>1, <2>2
  <2>5. [i \in DOMAIN s |-> Err(same[s[i]], "whitespace/newline", 1)] \in Seq(Errs(N))
    BY <1>1, <2>4, MappedErrs
  <2> QED BY <2>2, <2>3, <2>5
<1>6. [i \in DOMAIN crlf |-> Err(same[crlf[i]], "whitespace/newline", 1)]
         = [i \in DOMAIN crlf |-> Err(crlf[i], "whitespace/newline", 1)]
  BY <1>3, <1>4
<1>7. CarriageReturnErrors \in {<<>>, [i \in DOMAIN crlf |-> Err(crlf[i], "whitespace/newline", 1)]}
  BY DEF CarriageReturnErrors, crlf, S
<1>8. <<>> \in Seq(Errs(Len(lines)))
  OBVIOUS
<1> QED BY <1>5, <1>6, <1>7, <1>8

-----------------------------------------------------------------------------
(* Reports *)

\* An error of any line.
AnyErr == [line : Nat, category : Raisable \cup {"readability/fn_size"}, confidence : 0..5]

\* A printed error, with the number of its file.
PrintedErr == [file : Nat, error : AnyErr]

\* The errors of the first n lines are errors.
LEMMA ErrsAreErrs ==
    ASSUME NEW n \in Nat
    PROVE  Errs(n) \subseteq AnyErr /\ Seq(Errs(n)) \subseteq Seq(AnyErr)
<1>1. Errs(n) \subseteq AnyErr
  <2> SUFFICES ASSUME NEW e \in Errs(n) PROVE e \in AnyErr
    OBVIOUS
  <2>1. e.line \in 0..n
    BY DEF Errs
  <2>2. e.line \in Nat
    BY <2>1
  <2> QED BY <2>2 DEF Errs, AnyErr
<1> QED BY <1>1

\* What is shown of a list.
LEMMA ShownIs ==
    ASSUME NEW errs \in Seq(AnyErr), NEW supp
    PROVE  /\ Shown(errs, supp) \in Seq(AnyErr)
           /\ \A e : e \in ToSet(Shown(errs, supp)) <=> e \in ToSet(errs) /\ ShouldPrintError(supp, e)
<1> DEFINE f == [i \in DOMAIN errs |-> IF ShouldPrintError(supp, errs[i]) THEN <<errs[i]>> ELSE <<>>]
           all == FlattenSeq(f)
<1>1. DOMAIN errs = 1..Len(errs) /\ Len(errs) \in Nat /\ \A i \in 1..Len(errs) : errs[i] \in AnyErr
  OBVIOUS
<1>2. \A i \in 1..Len(errs) : f[i] = IF ShouldPrintError(supp, errs[i]) THEN <<errs[i]>> ELSE <<>>
  BY <1>1
<1>3. f = [i \in 1..Len(errs) |-> f[i]]
  BY <1>1
<1>4. Shown(errs, supp) = all
  BY DEF Shown
<1> HIDE DEF f
<1>5. \A i \in 1..Len(errs) : f[i] \in Seq(AnyErr)
  BY <1>1, <1>2, IfOne
<1>6. f \in Seq(Seq(AnyErr)) /\ Len(f) = Len(errs)
  BY <1>1, <1>3, <1>5, IsSeq
<1>7. /\ \A i \in 1..Len(f) : \A j \in 1..Len(f[i]) :
                 \E k \in 1..Len(all) : all[k] = f[i][j]
      /\ \A k \in 1..Len(all) :
                 \E i \in 1..Len(f) : \E j \in 1..Len(f[i]) : all[k] = f[i][j]
  BY <1>6, FlattenElements
<1>8. all \in Seq(AnyErr)
  BY <1>6, FlattenType
<1> HIDE DEF all
<1>9. ASSUME NEW e, e \in ToSet(all) PROVE e \in ToSet(errs) /\ ShouldPrintError(supp, e)
  <2>1. PICK k \in 1..Len(all) : e = all[k]
    BY <1>8, <1>9 DEF ToSet
  <2>2. PICK i \in 1..Len(f) : \E j \in 1..Len(f[i]) : e = f[i][j]
    BY <1>7, <2>1
  <2>3. i \in 1..Len(errs)
    BY <1>6
  <2>4. ShouldPrintError(supp, errs[i]) /\ f[i] = <<errs[i]>>
    <3>1. CASE ~ShouldPrintError(supp, errs[i])
      <4>1. f[i] = <<>>
        BY <1>2, <2>3, <3>1
      <4>2. \E j \in 1..Len(f[i]) : TRUE
        BY <2>2
      <4> QED BY <4>1, <4>2
    <3>2. CASE ShouldPrintError(supp, errs[i])
      BY <1>2, <2>3, <3>2
    <3> QED BY <3>1, <3>2
  <2>5. e = errs[i]
    <3>1. PICK j \in 1..Len(f[i]) : e = f[i][j]
      BY <2>2
    <3> QED BY <2>4, <3>1
  <2> QED BY <1>1, <2>3, <2>4, <2>5 DEF ToSet
<1>10. ASSUME NEW e, e \in ToSet(errs), ShouldPrintError(supp, e) PROVE e \in ToSet(all)
  <2>1. PICK i \in 1..Len(errs) : e = errs[i]
    BY <1>1, <1>10 DEF ToSet
  <2>2. f[i] = <<e>>
    BY <1>2, <1>10, <2>1
  <2>3. 1 \in 1..Len(f[i]) /\ f[i][1] = e /\ i \in 1..Len(f)
    BY <1>6, <2>2
  <2>4. PICK k \in 1..Len(all) : all[k] = e
    BY <1>7, <2>3
  <2> QED BY <1>8, <2>4 DEF ToSet
<1> QED BY <1>4, <1>8, <1>9, <1>10

\* What a report does.
LEMMA ReportDoes ==
    ASSUME raised \in Seq(AnyErr), printed \in Seq(PrintedErr), NEW file \in Nat,
           NEW errs \in Seq(AnyErr), NEW supp, Report(file, errs, supp)
    PROVE  /\ raised' \in Seq(AnyErr) /\ ToSet(raised') = ToSet(raised) \cup ToSet(errs)
           /\ printed' \in Seq(PrintedErr)
           /\ \A f, e : [file |-> f, error |-> e] \in ToSet(printed') <=>
                 \/ [file |-> f, error |-> e] \in ToSet(printed)
                 \/ f = file /\ e \in ToSet(errs) /\ ShouldPrintError(supp, e)
           /\ \E shown \in Seq(AnyErr) :
                 /\ printed' = printed \o [i \in DOMAIN shown |-> [file |-> file, error |-> shown[i]]]
                 /\ error_count' = error_count + Len(shown)
                 /\ errors_by_category' = CountAll(errors_by_category, shown)
<1>1. PICK shown \in Seq(AnyErr) : shown = Shown(errs, supp)
  BY ShownIs
<1> DEFINE new == [i \in DOMAIN shown |-> [file |-> file, error |-> shown[i]]]
<1>2. /\ raised' = raised \o errs /\ printed' = printed \o new
      /\ error_count' = error_count + Len(shown)
      /\ errors_by_category' = CountAll(errors_by_category, shown)
  BY <1>1 DEF Report
<1>3. DOMAIN shown = 1..Len(shown) /\ Len(shown) \in Nat
  OBVIOUS
<1>4. \A i \in 1..Len(shown) : new[i] = [file |-> file, error |-> shown[i]]
  BY <1>3
<1>5. new = [i \in 1..Len(shown) |-> new[i]] /\ \A i \in 1..Len(shown) : new[i] \in PrintedErr
  BY <1>3 DEF PrintedErr
<1>6. new \in Seq(PrintedErr) /\ Len(new) = Len(shown)
  <2> HIDE DEF new
  <2> QED BY <1>3, <1>5, IsSeq
<1> HIDE DEF new
<1>7. \A f, e : [file |-> f, error |-> e] \in ToSet(new) <=> f = file /\ e \in ToSet(shown)
  <2> SUFFICES ASSUME NEW f, NEW e
               PROVE  [file |-> f, error |-> e] \in ToSet(new) <=> f = file /\ e \in ToSet(shown)
    OBVIOUS
  <2>1. ASSUME [file |-> f, error |-> e] \in ToSet(new) PROVE f = file /\ e \in ToSet(shown)
    <3>1. PICK i \in 1..Len(shown) : [file |-> f, error |-> e] = new[i]
      BY <1>6, <2>1 DEF ToSet
    <3>2. [file |-> f, error |-> e] = [file |-> file, error |-> shown[i]]
      BY <1>4, <3>1
    <3>3. f = file /\ e = shown[i]
      BY <3>2
    <3> QED BY <1>3, <3>3 DEF ToSet
  <2>2. ASSUME f = file, e \in ToSet(shown) PROVE [file |-> f, error |-> e] \in ToSet(new)
    <3>1. PICK i \in 1..Len(shown) : e = shown[i]
      BY <1>3, <2>2 DEF ToSet
    <3>2. new[i] = [file |-> f, error |-> e] /\ i \in 1..Len(new)
      BY <1>4, <1>6, <2>2, <3>1
    <3> QED BY <1>6, <3>2 DEF ToSet
  <2> QED BY <2>1, <2>2
<1>8. \A e : e \in ToSet(shown) <=> e \in ToSet(errs) /\ ShouldPrintError(supp, e)
  BY <1>1, ShownIs
<1>9. /\ raised' \in Seq(AnyErr) /\ ToSet(raised') = ToSet(raised) \cup ToSet(errs)
      /\ printed' \in Seq(PrintedErr) /\ ToSet(printed') = ToSet(printed) \cup ToSet(new)
  BY <1>2, <1>6, ElementsOfJoin
<1> QED BY <1>2, <1>7, <1>8, <1>9 DEF new

\* The line reported for a comment that does not end.
LEMMA UnterminatedType ==
    ASSUME NEW T, NEW text \in Seq(Seq(T))
    PROVE  RemoveMultiLineComments(text).unterminated \in Nat
<1> DEFINE n == Len(text)
           Begin_(k) == FindNextMultiLineCommentStart(text, k)
           End_(k) == FindNextMultiLineCommentEnd(text, Begin_(k))
           next == [k \in 1..(n + 1) |-> IF Begin_(k) = 0 \/ End_(k) = 0 THEN 0 ELSE End_(k) + 1]
           leaf == [k \in 1..(n + 1) |-> IF Begin_(k) = 0 THEN [range |-> {}, unterminated |-> 0]
                                         ELSE [range |-> {}, unterminated |-> Begin_(k) + 1]]
           R == [range : SUBSET Nat, unterminated : Nat]
           G == [p \in (1..(n + 1)) \X R |-> [p[2] EXCEPT !.range = @ \cup (Begin_(p[1])..End_(p[1]))]]
           Is(f) == f = [from \in 1..(n + 1) |->
                           LET begin == FindNextMultiLineCommentStart(text, from)
                               end   == FindNextMultiLineCommentEnd(text, begin)
                           IN CASE begin = 0             -> [range |-> {}, unterminated |-> 0]
                                [] begin > 0 /\ end = 0  -> [range |-> {}, unterminated |-> begin + 1]
                                [] OTHER -> [f[end + 1] EXCEPT !.range = @ \cup (begin..end)]]
           found == CHOOSE f : Is(f)
<1>1. n \in Nat
  OBVIOUS
<1>2. \A k \in Nat : Begin_(k) \in {0} \cup (k..n)
  <2> SUFFICES ASSUME NEW k \in Nat PROVE Begin_(k) \in {0} \cup (k..n)
    OBVIOUS
  <2> DEFINE I == {i \in k..n : StartsComment(text[i])}
  <2>1. I \in SUBSET (k..n) /\ n \in Int
    BY <1>1
  <2>2. (IF I # {} THEN Min(I) ELSE 0) \in {0} \cup (k..n)
    <3> HIDE DEF I
    <3> QED BY <2>1, LeastOrZero
  <2> QED BY <2>2 DEF FindNextMultiLineCommentStart, SelectInSubSeq
<1>3. \A k \in Nat : FindNextMultiLineCommentEnd(text, k) \in {0} \cup (k..n)
  <2> SUFFICES ASSUME NEW k \in Nat PROVE FindNextMultiLineCommentEnd(text, k) \in {0} \cup (k..n)
    OBVIOUS
  <2> DEFINE I == {i \in k..n : EndsComment(text[i])}
  <2>1. I \in SUBSET (k..n) /\ n \in Int
    BY <1>1
  <2>2. (IF I # {} THEN Min(I) ELSE 0) \in {0} \cup (k..n)
    <3> HIDE DEF I
    <3> QED BY <2>1, LeastOrZero
  <2> QED BY <2>2 DEF FindNextMultiLineCommentEnd, SelectInSubSeq
<1> HIDE DEF n, Begin_
<1>4. \A k \in 1..(n + 1) : Begin_(k) \in Nat /\ (Begin_(k) # 0 => Begin_(k) \in k..n)
  BY <1>1, <1>2
<1>5. \A k \in 1..(n + 1) : End_(k) \in Nat /\ (Begin_(k) # 0 /\ End_(k) # 0 => End_(k) \in k..n)
  <2> SUFFICES ASSUME NEW k \in 1..(n + 1)
               PROVE  End_(k) \in Nat /\ (Begin_(k) # 0 /\ End_(k) # 0 => End_(k) \in k..n)
    OBVIOUS
  <2>1. End_(k) \in {0} \cup (Begin_(k)..n)
    BY <1>3, <1>4
  <2> HIDE DEF End_
  <2> QED BY <1>1, <1>4, <2>1
<1> HIDE DEF End_
<1>6. \A k \in 1..(n + 1) : next[k] \in {0} \cup ((k + 1)..(n + 1))
  BY <1>1, <1>4, <1>5
<1>7. \A k \in 1..(n + 1) : leaf[k] \in R
  BY <1>4
<1>8. G \in [(1..(n + 1)) \X R -> R]
  <2>1. ASSUME NEW p \in (1..(n + 1)) \X R
        PROVE  [p[2] EXCEPT !.range = @ \cup (Begin_(p[1])..End_(p[1]))] \in R
    <3>1. p[2] \in R /\ p[1] \in 1..(n + 1)
      OBVIOUS
    <3>2. Begin_(p[1])..End_(p[1]) \in SUBSET Nat
      BY <1>4, <1>5, <3>1
    <3>3. p[2].range \cup (Begin_(p[1])..End_(p[1])) \in SUBSET Nat
      BY <3>1, <3>2
    <3> QED BY <3>1, <3>3
  <2> HIDE DEF R
  <2> QED BY <2>1
<1>9. PICK g : IsBackward(g, n + 1, next, leaf, G)
  <2> HIDE DEF next, leaf, R, G
  <2>1. PICK N \in Nat : N = n + 1
    BY <1>1
  <2>2. /\ \A k \in 1..N : next[k] \in {0} \cup ((k + 1)..N)
        /\ \A k \in 1..N : leaf[k] \in R
        /\ G \in [(1..N) \X R -> R]
    BY <1>6, <1>7, <1>8, <2>1
  <2>3. \E g : IsBackward(g, N, next, leaf, G)
    BY <2>2, BackwardExists
  <2> QED BY <2>1, <2>3
<1>10. \A k \in 1..(n + 1) : g[k] \in R
  <2>1. g = [k \in 1..(n + 1) |-> IF next[k] = 0 THEN leaf[k] ELSE G[<<k, g[next[k]]>>]]
    BY <1>9 DEF IsBackward
  <2> HIDE DEF next, leaf, R, G
  <2>2. \A k \in 1..(n + 1) : g[k] = IF next[k] = 0 THEN leaf[k] ELSE G[<<k, g[next[k]]>>]
    BY <2>1
  <2>3. /\ \A k \in 1..(n + 1) : next[k] = 0 => g[k] \in R
        /\ \A k \in 1..(n + 1) : next[k] # 0 /\ g[next[k]] \in R => g[k] \in R
    BY <1>7, <1>8, <2>2
  <2>4. n + 1 \in Nat
    BY <1>1
  <2> QED BY <1>6, <2>3, <2>4, BackwardStays
<1>11. Is(g)
  <2>1. g = [k \in 1..(n + 1) |-> IF next[k] = 0 THEN leaf[k] ELSE G[<<k, g[next[k]]>>]]
    BY <1>9 DEF IsBackward
  <2>2. ASSUME NEW k \in 1..(n + 1)
        PROVE  (IF next[k] = 0 THEN leaf[k] ELSE G[<<k, g[next[k]]>>]) =
                  CASE Begin_(k) = 0                  -> [range |-> {}, unterminated |-> 0]
                    [] Begin_(k) > 0 /\ End_(k) = 0   -> [range |-> {}, unterminated |-> Begin_(k) + 1]
                    [] OTHER -> [g[End_(k) + 1] EXCEPT !.range = @ \cup (Begin_(k)..End_(k))]
    <3>1. CASE Begin_(k) = 0
      BY <3>1
    <3>2. CASE Begin_(k) # 0 /\ End_(k) = 0
      <4>1. Begin_(k) > 0
        BY <1>4, <3>2
      <4> QED BY <3>2, <4>1
    <3>3. CASE Begin_(k) # 0 /\ End_(k) # 0
      <4>1. next[k] = End_(k) + 1 /\ End_(k) + 1 \in 1..(n + 1) /\ next[k] # 0
        BY <1>1, <1>5, <3>3
      <4>2. PICK r : r = g[End_(k) + 1] /\ r \in R
        BY <1>10, <4>1
      <4>3. G[<<k, r>>] = [r EXCEPT !.range = @ \cup (Begin_(k)..End_(k))]
        <5>1. <<k, r>> \in (1..(n + 1)) \X R
          BY <4>2
        <5> HIDE DEF R
        <5> QED BY <5>1
      <4> HIDE DEF G, next
      <4> QED BY <3>3, <4>1, <4>2, <4>3
    <3> QED BY <3>1, <3>2, <3>3
  <2> HIDE DEF next, leaf, G
  <2> QED BY <2>1, <2>2 DEF Begin_, End_
<1>12. Is(found)
  <2> HIDE DEF Is
  <2> QED BY <1>11
<1>13. \A k \in 1..(n + 1) : found[k] \in R
  <2> DEFINE Body(k) == CASE Begin_(k) = 0                  -> [range |-> {}, unterminated |-> 0]
                         [] Begin_(k) > 0 /\ End_(k) = 0   -> [range |-> {}, unterminated |-> Begin_(k) + 1]
                         [] OTHER -> [found[End_(k) + 1] EXCEPT !.range = @ \cup (Begin_(k)..End_(k))]
  <2>1. found = [k \in 1..(n + 1) |-> Body(k)]
    <3> HIDE DEF found
    <3> QED BY <1>12 DEF Begin_, End_
  <2> HIDE DEF found
  <2>2. \A k \in 1..(n + 1) : found[k] = Body(k)
    <3> HIDE DEF Body
    <3> QED BY <2>1
  <2>3. \A k \in 1..(n + 1) : next[k] = 0 => found[k] \in R
    <3> SUFFICES ASSUME NEW k \in 1..(n + 1), next[k] = 0 PROVE found[k] \in R
      OBVIOUS
    <3>1. CASE Begin_(k) = 0
      <4>1. Body(k) = [range |-> {}, unterminated |-> 0]
        BY <3>1
      <4>2. [range |-> {}, unterminated |-> 0] \in R
        OBVIOUS
      <4> HIDE DEF Body, R
      <4> QED BY <2>2, <4>1, <4>2
    <3>2. CASE Begin_(k) # 0 /\ End_(k) = 0
      <4>1. Begin_(k) > 0 /\ Begin_(k) + 1 \in Nat
        BY <1>4, <3>2
      <4>2. Body(k) = [range |-> {}, unterminated |-> Begin_(k) + 1]
        BY <3>2, <4>1
      <4>3. [range |-> {}, unterminated |-> Begin_(k) + 1] \in R
        BY <4>1
      <4> HIDE DEF Body, R
      <4> QED BY <2>2, <4>2, <4>3
    <3>3. CASE Begin_(k) # 0 /\ End_(k) # 0
      BY <1>5, <3>3
    <3> QED BY <3>1, <3>2, <3>3
  <2>4. \A k \in 1..(n + 1) : next[k] # 0 /\ found[next[k]] \in R => found[k] \in R
    <3> SUFFICES ASSUME NEW k \in 1..(n + 1), next[k] # 0, found[next[k]] \in R PROVE found[k] \in R
      OBVIOUS
    <3>1. Begin_(k) # 0 /\ End_(k) # 0 /\ next[k] = End_(k) + 1
      OBVIOUS
    <3>2. PICK r : r = found[End_(k) + 1] /\ r \in R
      BY <3>1
    <3>3. found[k] = [r EXCEPT !.range = @ \cup (Begin_(k)..End_(k))]
      BY <2>2, <3>1, <3>2
    <3>4. r.range \cup (Begin_(k)..End_(k)) \in SUBSET Nat
      <4>1. Begin_(k)..End_(k) \in SUBSET Nat
        BY <1>4, <1>5
      <4> QED BY <3>2, <4>1
    <3> QED BY <3>2, <3>3, <3>4
  <2>5. n + 1 \in Nat
    BY <1>1
  <2> HIDE DEF next, R
  <2> QED BY <1>6, <2>3, <2>4, <2>5, BackwardStays
<1>14. RemoveMultiLineComments(text).unterminated = found[1].unterminated
  BY DEF RemoveMultiLineComments, n
<1> HIDE DEF found
<1>15. 1 \in 1..(n + 1)
  BY <1>1
<1>16. found[1] \in R
  BY <1>13, <1>15
<1> QED BY <1>14, <1>16

=============================================================================
