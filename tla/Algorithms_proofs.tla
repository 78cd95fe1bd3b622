-------------------------- MODULE Algorithms_proofs --------------------------
(***************************************************************************)
(* Proofs about the algorithms.  SseReader: for any characters, any limit  *)
(* and any length of the stream, what is read does not depend on how it    *)
(* was cut.  CanonicalIdentity: for any letters, keys and depth, messages  *)
(* are hashed alike when they mean the same and only then, and are then    *)
(* counted alike against any limit.                                        *)
(***************************************************************************)
EXTENDS SseReader, CanonicalIdentity, DataInduction

-----------------------------------------------------------------------------
(* What the operators return.                                              *)

Unifying == [text : Texts, afterCR : BOOLEAN]
Reading  == [buffer : Texts, events : Events, over : BOOLEAN]
Sending  == [lines : Lines, size : Nat, sizes : SUBSET Int, events : Events]

LEMMA SplitsTyped == Splits \in [Characters -> [Lines -> Lines]]
<1> SUFFICES ASSUME NEW c \in Characters, NEW lines \in Lines
             PROVE  (IF c = LF THEN Append(lines, <<>>)
                     ELSE [lines EXCEPT ![Len(lines)] = Append(@, c)]) \in Lines
  BY DEF Splits
<1>1. CASE c = LF
  <2>1. <<>> \in Texts
    BY EmptySeq DEF Texts
  <2> HIDE DEF Texts
  <2> QED
    BY <1>1, <2>1 DEF Lines
<1>2. CASE c # LF /\ lines = <<>>
  <2>1. [lines EXCEPT ![Len(lines)] = Append(@, c)] = lines
    BY <1>2
  <2> QED
    BY <1>2, <2>1
<1>3. CASE c # LF /\ lines # <<>>
  <2>1. Len(lines) \in 1 .. Len(lines)
    BY <1>3, EmptySeq DEF Lines
  <2>2. lines[Len(lines)] \in Texts
    BY <2>1, ElementOfSeq DEF Lines
  <2>3. Append(lines[Len(lines)], c) \in Texts
    BY <2>2 DEF Texts
  <2> HIDE DEF Texts
  <2>4. [lines EXCEPT ![Len(lines)] = Append(lines[Len(lines)], c)] \in Lines
    BY <2>1, <2>3, ExceptSeq DEF Lines
  <2> QED
    BY <1>3, <2>4
<1> QED
  BY <1>1, <1>2, <1>3

LEMMA OneLine == <<>> \in Texts /\ <<<<>>>> \in Lines
<1>1. <<>> \in Texts
  BY EmptySeq DEF Texts
<1> HIDE DEF Texts
<1> QED
  BY <1>1 DEF Lines

LEMMA SplitTyped ==
  ASSUME NEW text \in Texts
  PROVE  Split(text) \in Lines
BY SplitsTyped, OneLine, ThroughTyped DEF Split, Texts

LEMMA SplitUnfolds ==
  /\ Split(<<>>) = <<<<>>>>
  /\ \A text \in Texts, c \in Characters : Split(Append(text, c)) = Splits[c][Split(text)]
<1>1. Split(<<>>) = <<<<>>>>
  BY SplitsTyped, OneLine, ThroughEmpty DEF Split
<1>2. ASSUME NEW text \in Texts, NEW c \in Characters
      PROVE  Split(Append(text, c)) = Splits[c][Split(text)]
  BY SplitsTyped, OneLine, ThroughAppend DEF Split, Texts
<1> QED
  BY <1>1, <1>2

(* A text that ends in a line end has an empty last line, no other one has *)
(* an empty last line after the first.                                     *)
LEMMA LastLine ==
  ASSUME NEW text \in Texts
  PROVE  /\ Split(text) # <<>>
         /\ (Len(Split(text)) > 1 /\ Last(Split(text)) = <<>>) <=> (text # <<>> /\ Last(text) = LF)
<1> DEFINE Right(t) == /\ Split(t) # <<>>
                       /\ (Len(Split(t)) > 1 /\ Last(Split(t)) = <<>>) <=> (t # <<>> /\ Last(t) = LF)
           T == {t \in Texts : Right(t)}
<1>1. <<>> \in T
  BY SplitUnfolds, OneLine DEF Last
<1>2. ASSUME NEW t \in Seq(Characters), NEW c \in Characters, t \in T PROVE Append(t, c) \in T
  <2> DEFINE lines == Split(t)
             more == Split(Append(t, c))
  <2>1. Append(t, c) \in Texts /\ Append(t, c) # <<>> /\ Last(Append(t, c)) = c
    BY DEF Texts, Last
  <2>2. lines \in Lines /\ more = Splits[c][lines]
    BY SplitTyped, SplitUnfolds DEF Texts
  <2>3. more = IF c = LF THEN Append(lines, <<>>) ELSE [lines EXCEPT ![Len(lines)] = Append(@, c)]
    BY <2>2 DEF Splits
  <2>4. lines # <<>>
    <3>1. Right(t)
      BY <1>2
    <3> QED
      BY <3>1
  <2> HIDE DEF lines, more
  <2>5. Len(lines) \in Nat \ {0} /\ Len(lines) \in 1 .. Len(lines)
    BY <2>2, <2>4, EmptySeq DEF Lines
  <2>6. CASE c = LF
    <3>1. Len(more) = Len(lines) + 1 /\ more[Len(more)] = <<>>
      BY <2>2, <2>3, <2>6, OneLine DEF Lines
    <3>2. more # <<>> /\ Len(more) > 1 /\ Last(more) = <<>>
      BY <2>5, <3>1, EmptySeq DEF Last
    <3> QED
      BY <2>1, <2>6, <3>2 DEF T, Right, more
  <2>7. CASE c # LF
    <3>1. lines[Len(lines)] \in Texts
      BY <2>2, <2>5, ElementOfSeq DEF Lines
    <3>2. Append(lines[Len(lines)], c) \in Texts /\ Append(lines[Len(lines)], c) # <<>>
      <4> DEFINE line == lines[Len(lines)]
      <4>1. line \in Seq(Characters)
        BY <3>1 DEF Texts
      <4> HIDE DEF line
      <4>2. Append(line, c) \in Seq(Characters) /\ Append(line, c) # <<>>
        BY <4>1
      <4> QED
        BY <4>2 DEF Texts, line
    <3>3. Len(more) = Len(lines) /\ more[Len(more)] # <<>>
      <4> HIDE DEF Texts
      <4> QED
        BY <2>2, <2>3, <2>5, <2>7, <3>2, ExceptSeq DEF Lines
    <3> QED
      BY <2>1, <2>5, <2>7, <3>3 DEF Last, T, more
  <2> QED
    BY <2>6, <2>7
<1>3. Seq(Characters) \subseteq T
  <2> HIDE DEF T
  <2> QED
    BY <1>1, <1>2, EverySequence
<1> QED
  <2>1. text \in T
    BY <1>3 DEF Texts
  <2>2. Right(text)
    <3> HIDE DEF Right
    <3> QED
      BY <2>1
  <2> QED
    BY <2>2

LEMMA StartingWithTyped ==
  ASSUME NEW lines \in Lines, NEW prefix
  PROVE  StartingWith(prefix, lines) \in Lines
<1> DEFINE keeps == [line \in Texts |-> [kept \in Lines |->
                       IF line # <<>> /\ Head(line) = prefix THEN Append(kept, Tail(line)) ELSE kept]]
<1>1. ASSUME NEW line \in Texts, NEW kept \in Lines, line # <<>>
      PROVE  Append(kept, Tail(line)) \in Lines
  <2>1. Tail(line) \in Texts
    BY <1>1 DEF Texts
  <2> HIDE DEF Texts
  <2> QED
    BY <2>1 DEF Lines
<1>2. keeps \in [Texts -> [Lines -> Lines]]
  BY <1>1
<1>3. <<>> \in Lines
  BY EmptySeq DEF Lines
<1> HIDE DEF keeps
<1>4. Through(keeps, <<>>, lines) \in Lines
  <2>1. lines \in Seq(Texts)
    BY DEF Lines
  <2> QED
    BY <1>2, <1>3, <2>1, ThroughTyped
<1> QED
  BY <1>4 DEF StartingWith, keeps

LEMMA EventOfTyped ==
  ASSUME NEW lines \in Lines
  PROVE  EventOf(lines) \in Events
<1> DEFINE names == StartingWith("event:", lines)
           data == StartingWith("data:", lines)
           event == IF names = <<>> THEN <<>> ELSE <<Head(names)>>
<1>1. names \in Lines /\ data \in Lines
  BY StartingWithTyped
<1>2. event \in Lines
  <2> HIDE DEF names
  <2>1. names # <<>> => Head(names) \in Texts
    BY <1>1 DEF Lines
  <2> HIDE DEF Texts
  <2>2. CASE names = <<>>
    BY <2>2, EmptySeq DEF Lines
  <2>3. CASE names # <<>>
    BY <2>1, <2>3 DEF Lines
  <2> QED
    BY <2>2, <2>3
<1>3. [event |-> event, data |-> data] \in [event : Lines, data : Lines]
  <2> HIDE DEF event, data
  <2> QED
    BY <1>1, <1>2
<1>4. <<>> \in Events /\ <<[event |-> event, data |-> data]>> \in Events
  <2> HIDE DEF event, data
  <2> QED
    BY <1>3, EmptySeq DEF Events
<1> QED
  BY <1>4 DEF EventOf

LEMMA EventsConcat ==
  /\ <<>> \in Events
  /\ \A a, b \in Events : a \o b \in Events
  /\ \A a, b, c \in Events : (a \o b) \o c = a \o (b \o c)
  /\ \A a \in Events : a \o <<>> = a
<1> DEFINE S == [event : Lines, data : Lines]
<1>1. Events = Seq(S)
  BY DEF Events
<1> HIDE DEF S
<1>2. <<>> \in Events
  BY <1>1, EmptySeq
<1>3. \A a, b \in Events : a \o b \in Events
  BY <1>1, ConcatProperties
<1>4. \A a, b, c \in Events : (a \o b) \o c = a \o (b \o c)
  BY <1>1, ConcatAssociative
<1>5. \A a \in Events : a \o <<>> = a
  BY <1>1, ConcatEmptySeq
<1> QED
  BY <1>2, <1>3, <1>4, <1>5

LEMMA ParseEventTyped ==
  ASSUME NEW block \in Texts
  PROVE  ParseEvent(block) \in Events
BY SplitTyped, EventOfTyped DEF ParseEvent

-----------------------------------------------------------------------------
(* One line end for each that was sent, in whatever parts it came.         *)

NothingUnified == [text |-> <<>>, afterCR |-> FALSE]

LEMMA UnifiesTyped == Unifies \in [Characters -> [Unifying -> Unifying]]
<1> SUFFICES ASSUME NEW c \in Characters, NEW unified \in Unifying
             PROVE  [text |-> IF c = CR THEN Append(unified.text, LF)
                              ELSE IF c = LF /\ unified.afterCR THEN unified.text
                              ELSE Append(unified.text, c),
                     afterCR |-> c = CR] \in Unifying
  BY DEF Unifies, Unifying
<1>1. Append(unified.text, LF) \in Texts /\ unified.text \in Texts /\ Append(unified.text, c) \in Texts
  BY SseReaderAssumption DEF Texts, Unifying
<1> HIDE DEF Texts
<1> QED
  BY <1>1 DEF Unifying

LEMMA NothingUnifiedTyped == NothingUnified \in Unifying
BY OneLine DEF NothingUnified, Unifying

LEMMA UnifiedTyped ==
  ASSUME NEW text \in Texts
  PROVE  Through(Unifies, NothingUnified, text) \in Unifying /\ Unified(text) \in Texts
<1>1. Through(Unifies, NothingUnified, text) \in Unifying
  BY UnifiesTyped, NothingUnifiedTyped, ThroughTyped DEF Texts
<1> QED
  BY <1>1 DEF Unified, NothingUnified, Unifying

LEMMA UnifiedAppend ==
  ASSUME NEW text \in Texts, NEW c \in Characters
  PROVE  Unified(Append(text, c)) = IF c = CR THEN Append(Unified(text), LF)
                                    ELSE IF c = LF /\ EndsInCR(text) THEN Unified(text)
                                    ELSE Append(Unified(text), c)
<1> DEFINE U(t) == Through(Unifies, NothingUnified, t)
           T == {t \in Texts : U(t).afterCR = EndsInCR(t)}
<1>1. ASSUME NEW t \in Seq(Characters), NEW d \in Characters
      PROVE  U(Append(t, d)) = [text |-> IF d = CR THEN Append(U(t).text, LF)
                                         ELSE IF d = LF /\ U(t).afterCR THEN U(t).text
                                         ELSE Append(U(t).text, d),
                                afterCR |-> d = CR]
  <2>1. U(Append(t, d)) = Unifies[d][U(t)]
    BY UnifiesTyped, NothingUnifiedTyped, ThroughAppend
  <2>2. U(t) \in Unifying
    BY UnifiedTyped DEF Texts
  <2> HIDE DEF U
  <2> QED
    BY <2>1, <2>2 DEF Unifies, Unifying
<1>2. <<>> \in T
  <2>1. U(<<>>) = NothingUnified
    BY UnifiesTyped, NothingUnifiedTyped, ThroughEmpty
  <2>2. U(<<>>).afterCR = FALSE /\ EndsInCR(<<>>) = FALSE
    BY <2>1 DEF NothingUnified, EndsInCR
  <2> HIDE DEF U
  <2> QED
    BY <2>2, OneLine
<1>3. ASSUME NEW t \in Seq(Characters), NEW d \in Characters, t \in T PROVE Append(t, d) \in T
  <2>1. Append(t, d) \in Texts /\ Append(t, d) # <<>> /\ Last(Append(t, d)) = d
    BY DEF Texts, Last
  <2>2. U(Append(t, d)).afterCR = (d = CR)
    BY <1>1
  <2> HIDE DEF U
  <2> QED
    BY <2>1, <2>2 DEF EndsInCR
<1>4. Seq(Characters) \subseteq T
  <2> HIDE DEF T
  <2> QED
    BY <1>2, <1>3, EverySequence
<1>5. U(text).afterCR = EndsInCR(text)
  BY <1>4 DEF Texts
<1>6. \A t : Unified(t) = U(t).text
  BY DEF Unified, NothingUnified
<1> HIDE DEF U
<1> QED
  BY <1>1, <1>5, <1>6 DEF Texts

LEMMA UnifiedEmpty == Unified(<<>>) = <<>>
<1>1. Through(Unifies, NothingUnified, <<>>) = NothingUnified
  BY UnifiesTyped, NothingUnifiedTyped, ThroughEmpty
<1> QED
  BY <1>1 DEF Unified, NothingUnified

(* What is new in t after s: not the rest of a line end.                   *)
NewAfter(s, t) == IF EndsInCR(s) /\ t # <<>> /\ Head(t) = LF THEN Tail(t) ELSE t

LEMMA NewAfterEnds ==
  ASSUME NEW s \in Texts, NEW t \in Texts
  PROVE  /\ NewAfter(s, t) \in Texts
         /\ t # <<>> => EndsInCR(NewAfter(s, t)) = EndsInCR(t) /\ EndsInCR(s \o t) = EndsInCR(t)
         /\ t = <<>> => s \o t = s /\ NewAfter(s, t) = t
<1> USE DEF Texts
<1>1. NewAfter(s, t) \in Texts
  BY DEF NewAfter
<1>2. CASE t = <<>>
  BY <1>1, <1>2 DEF NewAfter
<1>3. CASE t # <<>>
  <2>0. Len(t) \in Nat /\ Len(t) >= 1
    BY <1>3, LenPositive
  <2>1. s \o t # <<>> /\ Last(s \o t) = Last(t)
    BY <1>3, EmptySeq, ConcatProperties DEF Last
  <2>2. EndsInCR(s \o t) = EndsInCR(t)
    BY <1>3, <2>1 DEF EndsInCR
  <2>3. CASE Head(t) = LF /\ Len(t) = 1
    <3>1. Last(t) = LF
      BY <1>3, <2>3 DEF Last
    <3>2. Tail(t) \in Seq(Characters) /\ Len(Tail(t)) = 0
      BY <1>3, <2>3, HeadTailProperties
    <3>3. Tail(t) = <<>>
      BY <3>2, EmptySeq
    <3> QED
      BY <1>1, <1>3, <2>2, <3>1, <3>3, SseReaderAssumption DEF NewAfter, EndsInCR
  <2>4. CASE Len(t) > 1
    <3>1. Tail(t) \in Seq(Characters) /\ Len(Tail(t)) = Len(t) - 1
          /\ \A i \in 1 .. Len(Tail(t)) : Tail(t)[i] = t[i + 1]
      BY <1>3, HeadTailProperties
    <3>2. Last(Tail(t)) = Last(t)
      <4>1. Len(t) - 1 \in 1 .. Len(Tail(t)) /\ (Len(t) - 1) + 1 = Len(t)
        BY <2>4, <3>1
      <4> QED
        BY <3>1, <4>1 DEF Last
    <3>3. Tail(t) # <<>>
      <4> DEFINE n == Len(t)
      <4>0. n \in Nat /\ n > 1
        BY <2>0, <2>4
      <4> HIDE DEF n
      <4>1. Len(Tail(t)) # 0
        <5>1. Len(Tail(t)) = n - 1
          BY <3>1 DEF n
        <5>2. n - 1 # 0
          BY <4>0
        <5> QED
          BY <5>1, <5>2
      <4> QED
        BY <4>1, EmptySeq
    <3> QED
      BY <1>1, <1>3, <2>2, <3>2, <3>3 DEF NewAfter, EndsInCR
  <2>5. CASE Head(t) # LF
    BY <1>1, <1>3, <2>2, <2>5 DEF NewAfter
  <2>6. \/ Head(t) = LF /\ Len(t) = 1
        \/ Len(t) > 1
        \/ Head(t) # LF
    <3> DEFINE n == Len(t)
    <3>1. n \in Nat /\ n >= 1
      BY <2>0
    <3> HIDE DEF n
    <3>2. n = 1 \/ n > 1
      BY <3>1
    <3> QED
      BY <3>2 DEF n
  <2> QED
    BY <2>3, <2>4, <2>5, <2>6
<1> QED
  BY <1>2, <1>3

LEMMA UnifiedConcat ==
  ASSUME NEW s \in Texts, NEW t \in Texts
  PROVE  Unified(s \o t) = Unified(s) \o Unified(NewAfter(s, t))
<1> DEFINE T == {u \in Texts : Unified(s \o u) = Unified(s) \o Unified(NewAfter(s, u))}
<1>1. <<>> \in T
  <2>1. s \o <<>> = s /\ Unified(s) \o <<>> = Unified(s) /\ NewAfter(s, <<>>) = <<>>
    BY UnifiedTyped, NewAfterEnds, OneLine, ConcatEmptySeq DEF Texts
  <2> QED
    BY <2>1, OneLine, UnifiedEmpty
<1>2. ASSUME NEW u \in Seq(Characters), NEW c \in Characters, u \in T PROVE Append(u, c) \in T
  <2>1. u \in Texts /\ Append(u, c) \in Texts /\ s \o u \in Texts /\ s \o Append(u, c) = Append(s \o u, c)
    BY DEF Texts
  <2>2. Unified(s) \in Texts /\ NewAfter(s, u) \in Texts /\ Unified(NewAfter(s, u)) \in Texts
    BY <2>1, UnifiedTyped, NewAfterEnds
  <2> DEFINE both == s \o u
  <2>3. Unified(Append(both, c)) = IF c = CR THEN Append(Unified(both), LF)
                                   ELSE IF c = LF /\ EndsInCR(both) THEN Unified(both)
                                   ELSE Append(Unified(both), c)
    <3>1. both \in Texts
      BY <2>1
    <3> HIDE DEF both
    <3> QED
      BY <3>1, UnifiedAppend
  <2>4. \A v \in Texts, d \in Characters : Unified(s) \o Append(v, d) = Append(Unified(s) \o v, d)
    BY <2>2 DEF Texts
  <2>5. CASE u = <<>>
    <3>1. both = s /\ Append(u, c) = <<c>> /\ Append(<<>>, c) = <<c>> /\ ~EndsInCR(<<>>)
      BY <2>1, <2>5, NewAfterEnds DEF EndsInCR
    <3>2. CASE EndsInCR(s) /\ c = LF
      <4>1. NewAfter(s, <<c>>) = <<>>
        BY <3>2 DEF NewAfter
      <4>2. Unified(s) \o <<>> = Unified(s)
        BY <2>2, ConcatEmptySeq DEF Texts
      <4> QED
        BY <2>1, <2>3, <3>1, <3>2, <4>1, <4>2, UnifiedEmpty, SseReaderAssumption
    <3>3. CASE ~(EndsInCR(s) /\ c = LF)
      <4>1. NewAfter(s, <<c>>) = <<c>>
        BY <3>3 DEF NewAfter
      <4>2. Unified(<<c>>) = IF c = CR THEN <<LF>> ELSE <<c>>
        <5>1. Unified(Append(<<>>, c)) = IF c = CR THEN Append(<<>>, LF) ELSE Append(<<>>, c)
          BY <3>1, OneLine, UnifiedAppend, UnifiedEmpty
        <5>2. Append(<<>>, LF) = <<LF>>
          OBVIOUS
        <5> QED
          BY <3>1, <5>1, <5>2
      <4>3. \A d \in Characters : Unified(s) \o <<d>> = Append(Unified(s), d)
        BY <2>2 DEF Texts
      <4> QED
        BY <2>1, <2>3, <3>1, <3>3, <4>1, <4>2, <4>3, SseReaderAssumption
    <3> QED
      BY <3>2, <3>3
  <2>6. CASE u # <<>>
    <3>1. NewAfter(s, Append(u, c)) = Append(NewAfter(s, u), c)
      <4>1. Append(u, c) # <<>> /\ Head(Append(u, c)) = Head(u) /\ Tail(Append(u, c)) = Append(Tail(u), c)
        BY <2>6
      <4> QED
        BY <2>6, <4>1 DEF NewAfter
    <3>2. EndsInCR(both) = EndsInCR(NewAfter(s, u))
      BY <2>1, <2>6, NewAfterEnds
    <3>3. Unified(both) = Unified(s) \o Unified(NewAfter(s, u))
      BY <1>2
    <3> HIDE DEF both
    <3>4. Unified(Append(NewAfter(s, u), c)) =
            IF c = CR THEN Append(Unified(NewAfter(s, u)), LF)
            ELSE IF c = LF /\ EndsInCR(both) THEN Unified(NewAfter(s, u))
            ELSE Append(Unified(NewAfter(s, u)), c)
      BY <2>2, <3>2, UnifiedAppend
    <3>5. Unified(Append(both, c)) = Unified(s) \o Unified(Append(NewAfter(s, u), c))
      BY <2>2, <2>3, <2>4, <3>3, <3>4, SseReaderAssumption
    <3> QED
      BY <2>1, <3>1, <3>5 DEF both
  <2> QED
    BY <2>5, <2>6
<1>3. Seq(Characters) \subseteq T
  <2> HIDE DEF T
  <2> QED
    BY <1>1, <1>2, EverySequence
<1> QED
  BY <1>3 DEF Texts

-----------------------------------------------------------------------------
(* What the reference takes of a text.                                     *)

LEMMA TakesTyped ==
  /\ Takes \in [Characters -> [Sending -> Sending]]
  /\ \A sizes \in SUBSET Int, before \in Events : Begun(sizes, before) \in Sending
<1>1. ASSUME NEW sizes \in SUBSET Int, NEW before \in Events
      PROVE  Begun(sizes, before) \in Sending
  BY OneLine DEF Begun, Sending
<1>2. ASSUME NEW c \in Characters, NEW sent \in Sending
      PROVE  Takes[c][sent] \in Sending
  <2> DEFINE n == Len(sent.lines)
             first == SubSeq(sent.lines, 1, n - 1)
  <2>1. sent.lines \in Lines /\ sent.size \in Nat /\ sent.sizes \in SUBSET Int /\ sent.events \in Events
    BY DEF Sending
  <2>2. Takes[c][sent] = IF c = LF /\ n > 1 /\ sent.lines[n] = <<>>
                         THEN Begun(sent.sizes \cup {sent.size - 1}, sent.events \o EventOf(first))
                         ELSE [sent EXCEPT !.lines = Splits[c][@], !.size = @ + 1]
    BY DEF Takes, Sending
  <2>3. first \in Lines
    <3>1. \A i \in 1 .. n - 1 : sent.lines[i] \in Texts
      BY <2>1, ElementOfSeq DEF Lines
    <3> QED
      BY <2>1, <3>1, SubSeqProperties DEF Lines
  <2> HIDE DEF n, first
  <2>4. sent.events \o EventOf(first) \in Events
    BY <2>1, <2>3, EventOfTyped, ConcatProperties DEF Events
  <2>5. sent.sizes \cup {sent.size - 1} \in SUBSET Int
    BY <2>1
  <2>6. Begun(sent.sizes \cup {sent.size - 1}, sent.events \o EventOf(first)) \in Sending
    BY <1>1, <2>4, <2>5
  <2>7. Splits[c][sent.lines] \in Lines
    BY <2>1, SplitsTyped
  <2>8. [sent EXCEPT !.lines = Splits[c][@], !.size = @ + 1] \in Sending
    <3> DEFINE lines == Splits[c][sent.lines]
               size == sent.size + 1
    <3>1. lines \in Lines /\ size \in Nat
      BY <2>1, <2>7
    <3> HIDE DEF lines, size
    <3>2. [sent EXCEPT !.lines = lines, !.size = size] \in Sending
      BY <3>1 DEF Sending
    <3> QED
      BY <3>2 DEF lines, size
  <2> QED
    BY <2>2, <2>6, <2>8
<1>3. Takes \in [Characters -> [Sending -> Sending]]
  <2>1. Takes = [c \in Characters |-> [sent \in Sending |-> Takes[c][sent]]]
    BY DEF Takes, Sending
  <2> QED
    BY <1>2, <2>1
<1> QED
  BY <1>1, <1>3

TakenFrom(sent, text) == Through(Takes, sent, text)

LEMMA TakenUnfolds ==
  ASSUME NEW sent \in Sending
  PROVE  /\ TakenFrom(sent, <<>>) = sent
         /\ \A text \in Texts : TakenFrom(sent, text) \in Sending
         /\ \A text \in Texts, c \in Characters :
              TakenFrom(sent, Append(text, c)) = Takes[c][TakenFrom(sent, text)]
         /\ \A s \in Texts, t \in Texts : TakenFrom(sent, s \o t) = TakenFrom(TakenFrom(sent, s), t)
<1>1. TakenFrom(sent, <<>>) = sent
  BY TakesTyped, ThroughEmpty DEF TakenFrom
<1>2. ASSUME NEW text \in Texts PROVE TakenFrom(sent, text) \in Sending
  BY TakesTyped, ThroughTyped DEF TakenFrom, Texts
<1>3. ASSUME NEW text \in Texts, NEW c \in Characters
      PROVE  TakenFrom(sent, Append(text, c)) = Takes[c][TakenFrom(sent, text)]
  BY TakesTyped, ThroughAppend DEF TakenFrom, Texts
<1>4. ASSUME NEW s \in Texts, NEW t \in Texts
      PROVE  TakenFrom(sent, s \o t) = TakenFrom(TakenFrom(sent, s), t)
  BY TakesTyped, ThroughConcat DEF TakenFrom, Texts
<1> QED
  BY <1>1, <1>2, <1>3, <1>4

(* What has been sent stays sent.                                          *)
LEMMA TakenGrows ==
  ASSUME NEW sent \in Sending, NEW text \in Texts
  PROVE  /\ \E more \in Events : TakenFrom(sent, text).events = sent.events \o more
         /\ sent.sizes \subseteq TakenFrom(sent, text).sizes
<1> DEFINE Grown(after) == /\ \E more \in Events : after.events = sent.events \o more
                           /\ sent.sizes \subseteq after.sizes
           T == {t \in Texts : Grown(TakenFrom(sent, t))}
<1>1. <<>> \in T
  <2>1. sent.events \in Events /\ <<>> \in Events
    BY EmptySeq DEF Sending, Events
  <2>2. sent.events = sent.events \o <<>>
    BY <2>1, ConcatEmptySeq DEF Events
  <2>3. Grown(sent)
    BY <2>1, <2>2
  <2> HIDE DEF Grown
  <2> QED
    BY <2>3, TakenUnfolds, OneLine
<1>2. ASSUME NEW t \in Seq(Characters), NEW c \in Characters, t \in T PROVE Append(t, c) \in T
  <2> DEFINE after == TakenFrom(sent, t)
             n == Len(after.lines)
             first == SubSeq(after.lines, 1, n - 1)
  <2>1. t \in Texts /\ Append(t, c) \in Texts
    BY DEF Texts
  <2>2. after \in Sending /\ TakenFrom(sent, Append(t, c)) = Takes[c][after] /\ Grown(after)
    BY <1>2, <2>1, TakenUnfolds
  <2> HIDE DEF after
  <2>3. Takes[c][after] = IF c = LF /\ n > 1 /\ after.lines[n] = <<>>
                          THEN Begun(after.sizes \cup {after.size - 1}, after.events \o EventOf(first))
                          ELSE [after EXCEPT !.lines = Splits[c][@], !.size = @ + 1]
    BY <2>2 DEF Takes, Sending
  <2>4. first \in Lines
    <3>1. after.lines \in Lines
      BY <2>2 DEF Sending
    <3>2. \A i \in 1 .. n - 1 : after.lines[i] \in Texts
      BY <3>1, ElementOfSeq DEF Lines
    <3> QED
      BY <3>1, <3>2, SubSeqProperties DEF Lines
  <2> HIDE DEF n, first
  <2>5. CASE c = LF /\ n > 1 /\ after.lines[n] = <<>>
    <3>1. PICK more \in Events : after.events = sent.events \o more
      BY <2>2
    <3>2. EventOf(first) \in Events /\ sent.events \in Events
      BY <2>4, EventOfTyped DEF Sending
    <3>3. more \o EventOf(first) \in Events
          /\ after.events \o EventOf(first) = sent.events \o (more \o EventOf(first))
      <4> DEFINE new == EventOf(first)
      <4>1. new \in Events /\ more \in Events /\ sent.events \in Events
        BY <3>1, <3>2
      <4> HIDE DEF new
      <4>2. (sent.events \o more) \o new = sent.events \o (more \o new)
        BY <4>1, EventsConcat
      <4> QED
        BY <3>1, <4>1, <4>2, EventsConcat DEF new
    <3>4. Takes[c][after].events = after.events \o EventOf(first) /\ after.sizes \subseteq Takes[c][after].sizes
      BY <2>3, <2>5 DEF Begun
    <3>5. Grown(Takes[c][after])
      BY <2>2, <3>3, <3>4
    <3> HIDE DEF Grown
    <3> QED
      BY <2>1, <2>2, <3>5
  <2>6. CASE ~(c = LF /\ n > 1 /\ after.lines[n] = <<>>)
    <3>1. Takes[c][after].events = after.events /\ Takes[c][after].sizes = after.sizes
      BY <2>2, <2>3, <2>6 DEF Sending
    <3>2. Grown(Takes[c][after])
      BY <2>2, <3>1
    <3> HIDE DEF Grown
    <3> QED
      BY <2>1, <2>2, <3>2
  <2> QED
    BY <2>5, <2>6
<1>3. Seq(Characters) \subseteq T
  <2> HIDE DEF T
  <2> QED
    BY <1>1, <1>2, EverySequence
<1> QED
  BY <1>3 DEF Texts

(* What is at the limit: *)
LEMMA AtTheLimit ==
  ASSUME NEW sent \in Sending
  PROVE  (\E size \in sent.sizes \cup {sent.size} : size > MaxEvent)
           <=> TooLong(sent) \/ CutAtItsEnd(sent)
<1>1. sent.size \in Nat /\ sent.sizes \in SUBSET Int /\ MaxEvent \in Nat
  BY SseReaderAssumption DEF Sending
<1>2. Reached(sent) \in {sent.size - 1, sent.size}
  BY DEF Reached
<1>3. sent.size > MaxEvent <=> Reached(sent) > MaxEvent \/ CutAtItsEnd(sent)
  BY <1>1, <1>2 DEF CutAtItsEnd
<1> QED
  BY <1>3 DEF TooLong

(* and what is over it stays so.                                           *)
LEMMA TooLongStays ==
  ASSUME NEW sent \in Sending, NEW text \in Texts, TooLong(sent)
  PROVE  TooLong(TakenFrom(sent, text))
<1> DEFINE T == {t \in Texts : TooLong(TakenFrom(sent, t))}
<1>1. <<>> \in T
  BY TakenUnfolds, OneLine
<1>2. ASSUME NEW t \in Seq(Characters), NEW c \in Characters, t \in T PROVE Append(t, c) \in T
  <2> DEFINE after == TakenFrom(sent, t)
             next == Takes[c][after]
             n == Len(after.lines)
             first == SubSeq(after.lines, 1, n - 1)
  <2>1. /\ t \in Texts /\ Append(t, c) \in Texts
        /\ after \in Sending /\ TakenFrom(sent, Append(t, c)) = next /\ TooLong(after)
    BY <1>2, TakenUnfolds DEF Texts
  <2> HIDE DEF after
  <2>2. next = IF c = LF /\ n > 1 /\ after.lines[n] = <<>>
               THEN Begun(after.sizes \cup {after.size - 1}, after.events \o EventOf(first))
               ELSE [after EXCEPT !.lines = Splits[c][@], !.size = @ + 1]
    BY <2>1 DEF Takes, Sending
  <2>3. after.size \in Nat /\ after.sizes \in SUBSET Int /\ MaxEvent \in Nat
    BY <2>1, SseReaderAssumption DEF Sending
  <2>4. PICK size \in after.sizes \cup {Reached(after)} : size > MaxEvent
    BY <2>1 DEF TooLong
  <2> HIDE DEF n, first, next
  <2>5. CASE c = LF /\ n > 1 /\ after.lines[n] = <<>>
    <3>1. next.sizes = after.sizes \cup {Reached(after)}
      BY <2>2, <2>5 DEF Begun, Reached, n
    <3>2. TooLong(next)
      BY <2>4, <3>1 DEF TooLong
    <3> QED
      BY <2>1, <3>2
  <2>6. CASE ~(c = LF /\ n > 1 /\ after.lines[n] = <<>>)
    <3>1. next.sizes = after.sizes /\ next.size = after.size + 1
      BY <2>1, <2>2, <2>6 DEF Sending
    <3>2. Reached(next) \in {after.size, after.size + 1} /\ Reached(after) \in {after.size - 1, after.size}
      BY <2>3, <3>1 DEF Reached
    <3>3. Reached(after) > MaxEvent => Reached(next) > MaxEvent
      BY <2>3, <3>2
    <3>4. TooLong(next)
      BY <2>4, <3>1, <3>3 DEF TooLong
    <3> QED
      BY <2>1, <3>4
  <2> QED
    BY <2>5, <2>6
<1>3. Seq(Characters) \subseteq T
  <2> HIDE DEF T
  <2> QED
    BY <1>1, <1>2, EverySequence
<1> QED
  BY <1>3 DEF Texts

-----------------------------------------------------------------------------
(* A block, and the text after it.                                         *)

(* Without a blank line nothing but lines is taken.                        *)
LEMMA NoBlankTaken ==
  ASSUME NEW text \in Texts, BlankLines(text) = {}, NEW sizes \in SUBSET Int, NEW before \in Events
  PROVE  TakenFrom(Begun(sizes, before), text)
           = [lines |-> Split(text), size |-> Len(text), sizes |-> sizes, events |-> before]
<1> DEFINE begun == Begun(sizes, before)
           OneBlock(t) == [lines |-> Split(t), size |-> Len(t), sizes |-> sizes, events |-> before]
           T == {t \in Texts : BlankLines(t) = {} => TakenFrom(begun, t) = OneBlock(t)}
<1>1. begun \in Sending
  BY TakesTyped
<1>2. <<>> \in T
  <2>1. TakenFrom(begun, <<>>) = begun
    BY <1>1, TakenUnfolds
  <2>2. OneBlock(<<>>) = begun
    BY SplitUnfolds, EmptySeq DEF Begun
  <2> QED
    BY <2>1, <2>2, OneLine
<1> HIDE DEF begun
<1>3. ASSUME NEW t \in Seq(Characters), NEW c \in Characters, t \in T PROVE Append(t, c) \in T
  <2> SUFFICES ASSUME BlankLines(Append(t, c)) = {}
               PROVE  TakenFrom(begun, Append(t, c)) = OneBlock(Append(t, c))
    BY DEF Texts
  <2> DEFINE lines == Split(t)
  <2>1. t \in Texts /\ Append(t, c) \in Texts /\ Len(t) \in Nat /\ Len(Append(t, c)) = Len(t) + 1
        /\ Append(t, c)[Len(t) + 1] = c /\ \A i \in 1 .. Len(t) : Append(t, c)[i] = t[i]
    BY DEF Texts
  <2>2. BlankLines(t) = {}
    BY <2>1 DEF BlankLines
  <2>3. ~(c = LF /\ t # <<>> /\ Last(t) = LF)
    <3> SUFFICES ASSUME c = LF, t # <<>>, Last(t) = LF PROVE FALSE
      OBVIOUS
    <3>1. Len(t) \in 1 .. Len(Append(t, c)) - 1
      BY <2>1, LenPositive DEF Texts
    <3>2. Append(t, c)[Len(t)] = LF /\ Append(t, c)[Len(t) + 1] = LF
      BY <2>1, <3>1 DEF Last
    <3> QED
      BY <3>1, <3>2 DEF BlankLines
  <2>4. TakenFrom(begun, t) = OneBlock(t) /\ OneBlock(t) \in Sending
    BY <1>1, <1>3, <2>1, <2>2, TakenUnfolds
  <2>5. ~(c = LF /\ Len(lines) > 1 /\ lines[Len(lines)] = <<>>)
    BY <2>1, <2>3, LastLine DEF Last
  <2>6. Takes[c][OneBlock(t)] = [OneBlock(t) EXCEPT !.lines = Splits[c][@], !.size = @ + 1]
    BY <2>4, <2>5 DEF Takes, Sending
  <2>7. Splits[c][lines] = Split(Append(t, c))
    BY <2>1, SplitUnfolds
  <2>8. Takes[c][OneBlock(t)] = OneBlock(Append(t, c))
    BY <2>1, <2>6, <2>7
  <2> HIDE DEF OneBlock
  <2> QED
    BY <1>1, <2>1, <2>4, <2>8, TakenUnfolds
<1>4. Seq(Characters) \subseteq T
  <2> HIDE DEF T
  <2> QED
    BY <1>2, <1>3, EverySequence
<1> QED
  BY <1>4 DEF Texts, begun

LEMMA FirstBlank ==
  ASSUME NEW text \in Texts, BlankLines(text) # {}
  PROVE  /\ Min(BlankLines(text)) \in Nat /\ Min(BlankLines(text)) \in BlankLines(text)
         /\ \A i \in BlankLines(text) : Min(BlankLines(text)) <= i
<1>1. BlankLines(text) \in SUBSET Nat
  BY LenProperties DEF BlankLines, Texts
<1>2. \E least \in BlankLines(text) : \A i \in BlankLines(text) : least <= i
  BY <1>1, LeastNumber
<1> DEFINE ends == BlankLines(text)
<1>3. \E least \in ends : \A i \in ends : least <= i
  BY <1>2
<1> HIDE DEF ends
<1>4. Min(ends) \in ends /\ \A i \in ends : Min(ends) <= i
  BY <1>3, Zenon DEF Min
<1> QED
  BY <1>1, <1>4 DEF ends

LEMMA PartOf ==
  ASSUME NEW text \in Texts, NEW m \in Int, NEW n \in Int, 1 <= m, m <= n + 1, n <= Len(text)
  PROVE  /\ SubSeq(text, m, n) \in Texts
         /\ Len(SubSeq(text, m, n)) = n - m + 1
         /\ \A i \in 1 .. n - m + 1 : SubSeq(text, m, n)[i] = text[m + i - 1]
<1>1. \A i \in m .. n : text[i] \in Characters
  <2>1. \A i \in m .. n : i \in 1 .. Len(text)
    BY LenProperties DEF Texts
  <2> QED
    BY <2>1, ElementOfSeq DEF Texts
<1>2. /\ SubSeq(text, m, n) \in Seq(Characters)
      /\ Len(SubSeq(text, m, n)) = (IF m <= n THEN n - m + 1 ELSE 0)
      /\ \A i \in 1 .. n - m + 1 : SubSeq(text, m, n)[i] = text[m + i - 1]
  BY <1>1, SubSeqProperties
<1>3. n - m + 1 = IF m <= n THEN n - m + 1 ELSE 0
  OBVIOUS
<1> QED
  BY <1>2, <1>3 DEF Texts

BlockOf(text) == SubSeq(text, 1, Min(BlankLines(text)) - 1)
AfterBlock(text) == SubSeq(text, Min(BlankLines(text)) + 2, Len(text))

(* A text with a blank line is its first block, two line ends and the rest. *)
LEMMA BlockAndRest ==
  ASSUME NEW text \in Texts, BlankLines(text) # {}
  PROVE  /\ BlockOf(text) \in Texts /\ AfterBlock(text) \in Texts
         /\ text = Append(Append(BlockOf(text), LF), LF) \o AfterBlock(text)
         /\ BlankLines(Append(BlockOf(text), LF)) = {}
         /\ Len(AfterBlock(text)) < Len(text)
<1> DEFINE index == Min(BlankLines(text))
           block == BlockOf(text)
           rest == AfterBlock(text)
           head == Append(Append(block, LF), LF)
<1>1. index \in 1 .. Len(text) - 1 /\ text[index] = LF /\ text[index + 1] = LF
      /\ \A i \in 1 .. index - 1 : ~(text[i] = LF /\ text[i + 1] = LF)
      /\ Len(text) \in Nat
  <2>1. index \in BlankLines(text) /\ (\A i \in BlankLines(text) : index <= i) /\ Len(text) \in Nat
    BY FirstBlank, LenProperties DEF Texts
  <2> HIDE DEF index
  <2> QED
    BY <2>1 DEF BlankLines
<1>2. \A i \in 1 .. Len(text) : text[i] \in Characters
  BY ElementOfSeq DEF Texts
<1>3. block = SubSeq(text, 1, index - 1) /\ rest = SubSeq(text, index + 2, Len(text))
  BY DEF BlockOf, AfterBlock
<1> HIDE DEF index, block, rest, head
<1>4. block \in Texts /\ Len(block) = index - 1 /\ \A i \in 1 .. index - 1 : block[i] = text[i]
  <2>1. 1 \in Int /\ index - 1 \in Int /\ 1 <= (index - 1) + 1 /\ index - 1 <= Len(text)
    BY <1>1
  <2>2. /\ SubSeq(text, 1, index - 1) \in Texts
        /\ Len(SubSeq(text, 1, index - 1)) = (index - 1) - 1 + 1
        /\ \A i \in 1 .. (index - 1) - 1 + 1 : SubSeq(text, 1, index - 1)[i] = text[1 + i - 1]
    BY <2>1, PartOf
  <2> QED
    BY <1>1, <1>3, <2>2
<1>5. rest \in Texts /\ Len(rest) = Len(text) - (index + 1)
      /\ \A i \in 1 .. Len(rest) : rest[i] = text[index + 1 + i]
  <2>1. index + 2 \in Int /\ Len(text) \in Int /\ 1 <= index + 2 /\ index + 2 <= Len(text) + 1
    BY <1>1
  <2>2. /\ SubSeq(text, index + 2, Len(text)) \in Texts
        /\ Len(SubSeq(text, index + 2, Len(text))) = Len(text) - (index + 2) + 1
        /\ \A i \in 1 .. Len(text) - (index + 2) + 1 :
             SubSeq(text, index + 2, Len(text))[i] = text[(index + 2) + i - 1]
    BY <2>1, <1>1, PartOf
  <2> QED
    BY <1>1, <1>3, <2>2
<1>6. head \in Texts /\ Len(head) = index + 1 /\ head[index] = LF /\ head[index + 1] = LF
      /\ \A i \in 1 .. index - 1 : head[i] = text[i]
  BY <1>1, <1>4, SseReaderAssumption DEF Texts, head
<1>7. text = head \o rest
  <2>0. /\ head \o rest \in Texts
        /\ Len(head \o rest) = Len(head) + Len(rest)
        /\ \A i \in 1 .. Len(head) + Len(rest) :
             (head \o rest)[i] = IF i <= Len(head) THEN head[i] ELSE rest[i - Len(head)]
    BY <1>5, <1>6, ConcatProperties DEF Texts
  <2>1. /\ head \o rest \in Texts
        /\ Len(head \o rest) = Len(text)
        /\ \A i \in 1 .. Len(text) :
             (head \o rest)[i] = IF i <= index + 1 THEN head[i] ELSE rest[i - (index + 1)]
    BY <1>1, <1>5, <1>6, <2>0
  <2>2. ASSUME NEW i \in 1 .. Len(text) PROVE text[i] = (head \o rest)[i]
    <3>1. CASE i <= index - 1
      BY <1>1, <1>5, <1>6, <2>1, <3>1
    <3>2. CASE i = index \/ i = index + 1
      BY <1>1, <1>5, <1>6, <2>1, <3>2
    <3>3. CASE i > index + 1
      <4>1. (head \o rest)[i] = rest[i - (index + 1)]
        BY <1>1, <1>5, <1>6, <2>1, <3>3
      <4>2. i - (index + 1) \in 1 .. Len(rest) /\ index + 1 + (i - (index + 1)) = i
        BY <1>1, <1>5, <3>3
      <4> QED
        BY <1>5, <4>1, <4>2
    <3>4. index \in Int /\ i \in Int
      BY <1>1
    <3>5. i <= index - 1 \/ (i = index \/ i = index + 1) \/ i > index + 1
      BY <3>4
    <3> QED
      BY <3>1, <3>2, <3>3, <3>5
  <2> QED
    BY <2>1, <2>2, SeqEqual DEF Texts
<1>8. BlankLines(Append(block, LF)) = {}
  <2> SUFFICES ASSUME NEW i \in BlankLines(Append(block, LF)) PROVE FALSE
    OBVIOUS
  <2>1. Len(Append(block, LF)) = index /\ Append(block, LF)[index] = LF
        /\ \A j \in 1 .. index - 1 : Append(block, LF)[j] = text[j]
    BY <1>1, <1>4 DEF Texts
  <2>2. i \in 1 .. index - 1 /\ Append(block, LF)[i] = LF /\ Append(block, LF)[i + 1] = LF
    BY <2>1 DEF BlankLines
  <2>3. text[i] = LF
    BY <2>1, <2>2
  <2>4. text[i + 1] = LF
    BY <1>1, <2>1, <2>2
  <2> QED
    BY <1>1, <2>2, <2>3, <2>4
<1> QED
  <2>1. Len(rest) < Len(text)
    BY <1>1, <1>5
  <2> QED
    BY <1>4, <1>5, <1>7, <1>8, <2>1 DEF head, block, rest

(* The reference takes a block as the loop does.                           *)
LEMMA BlockTaken ==
  ASSUME NEW text \in Texts, BlankLines(text) # {}, NEW sizes \in SUBSET Int, NEW before \in Events
  PROVE  TakenFrom(Begun(sizes, before), text)
           = TakenFrom(Begun(sizes \cup {Len(BlockOf(text))}, before \o ParseEvent(BlockOf(text))),
                       AfterBlock(text))
<1> DEFINE block == BlockOf(text)
           line == Append(block, LF)
           begun == Begun(sizes, before)
           plain == [lines |-> Split(line), size |-> Len(line), sizes |-> sizes, events |-> before]
<1>1. block \in Texts /\ AfterBlock(text) \in Texts /\ BlankLines(line) = {}
      /\ text = Append(line, LF) \o AfterBlock(text)
  BY BlockAndRest
<1>2. line \in Texts /\ line # <<>> /\ Last(line) = LF /\ Len(line) = Len(block) + 1
      /\ Append(line, LF) \in Texts /\ Len(block) \in Nat
  <2>1. LF \in Characters
    BY SseReaderAssumption
  <2> HIDE DEF block
  <2>2. block \in Seq(Characters)
    BY <1>1 DEF Texts
  <2>3. line \in Seq(Characters) /\ Len(line) = Len(block) + 1 /\ line[Len(line)] = LF /\ Len(block) \in Nat
    BY <2>1, <2>2
  <2>4. line # <<>>
    BY <2>3, EmptySeq
  <2> HIDE DEF line
  <2> QED
    BY <2>1, <2>3, <2>4 DEF Texts, Last
<1>3. begun \in Sending /\ LF \in Characters
  BY TakesTyped, SseReaderAssumption
<1>4. Split(line) = Append(Split(block), <<>>) /\ Split(block) \in Lines
  <2>1. Split(block) \in Lines /\ Split(line) = Splits[LF][Split(block)]
    BY <1>1, <1>3, SplitTyped, SplitUnfolds
  <2> QED
    BY <1>3, <2>1 DEF Splits
<1> HIDE DEF block, line, begun
<1>5. TakenFrom(begun, line) = plain /\ plain \in Sending
  BY <1>1, <1>2, <1>3, NoBlankTaken, TakenUnfolds DEF begun
<1>6. Len(Split(line)) = Len(Split(block)) + 1 /\ Len(Split(block)) \in Nat
      /\ Len(Split(line)) > 1 /\ Split(line)[Len(Split(line))] = <<>>
  BY <1>2, <1>4, LastLine DEF Last, Lines
<1>7. SubSeq(Split(line), 1, Len(Split(line)) - 1) = Split(block)
  <2>1. Len(Split(line)) - 1 = Len(Split(block))
    BY <1>6
  <2>2. SubSeq(Append(Split(block), <<>>), 1, Len(Split(block))) = Split(block)
    BY <1>4, OneLine DEF Lines
  <2> QED
    BY <1>4, <2>1, <2>2
<1>8. Takes[LF][plain] = Begun(sizes \cup {Len(block)}, before \o ParseEvent(block))
  <2>1. Takes[LF][plain] = Begun(plain.sizes \cup {plain.size - 1},
                                 plain.events \o EventOf(SubSeq(plain.lines, 1, Len(plain.lines) - 1)))
    BY <1>3, <1>5, <1>6 DEF Takes, Sending
  <2>2. plain.size - 1 = Len(block)
    BY <1>2
  <2> QED
    BY <1>7, <2>1, <2>2 DEF ParseEvent
<1>9. TakenFrom(begun, Append(line, LF)) = Begun(sizes \cup {Len(block)}, before \o ParseEvent(block))
  BY <1>2, <1>3, <1>5, <1>8, TakenUnfolds
<1>10. TakenFrom(begun, Append(line, LF) \o AfterBlock(text))
         = TakenFrom(TakenFrom(begun, Append(line, LF)), AfterBlock(text))
  BY <1>1, <1>2, <1>3, TakenUnfolds
<1> QED
  BY <1>1, <1>9, <1>10 DEF block, begun

-----------------------------------------------------------------------------
(* The loop.                                                               *)

Stuck(reader) == reader.over \/ BlankLines(reader.buffer) = {}

(* What the reference makes of what the loop still has to do.              *)
Ahead(sizes, reader) == TakenFrom(Begun(sizes, reader.events), reader.buffer)

Limited(sizes) == sizes \in SUBSET Int /\ \A size \in sizes : size <= MaxEvent

(* A loop that gives up has a block over the limit in front of it.         *)
GivesUp(reader) ==
  reader.over => /\ BlankLines(reader.buffer) # {}
                 /\ Len(BlockOf(reader.buffer)) > MaxEvent

LEMMA TurnTaken ==
  ASSUME NEW reader \in Reading, GivesUp(reader), NEW sizes, Limited(sizes)
  PROVE  /\ Turn[reader] \in Reading /\ GivesUp(Turn[reader])
         /\ \E more : Limited(more) /\ Ahead(more, Turn[reader]) = Ahead(sizes, reader)
         /\ Stuck(reader) => Turn[reader] = reader
         /\ Stuck(Turn[reader]) \/ Len(Turn[reader].buffer) < Len(reader.buffer)
<1> DEFINE block == BlockOf(reader.buffer)
           rest == AfterBlock(reader.buffer)
           yielded == reader.events \o ParseEvent(block)
<1>1. reader.buffer \in Texts /\ reader.events \in Events /\ reader.over \in BOOLEAN
  BY DEF Reading
<1>2. Turn[reader] = IF Stuck(reader) THEN reader
                     ELSE IF Over(block) THEN [reader EXCEPT !.over = TRUE]
                     ELSE [reader EXCEPT !.buffer = rest, !.events = yielded]
  BY DEF Turn, Reading, Stuck, BlockOf, AfterBlock
<1>3. CASE Stuck(reader)
  BY <1>2, <1>3
<1>4. CASE ~Stuck(reader)
  <2>1. BlankLines(reader.buffer) # {} /\ reader.over = FALSE
    BY <1>1, <1>4 DEF Stuck
  <2>2. block \in Texts /\ rest \in Texts /\ Len(rest) < Len(reader.buffer)
    BY <1>1, <2>1, BlockAndRest
  <2>3. Len(block) \in Nat /\ yielded \in Events
    BY <1>1, <2>2, ParseEventTyped, EventsConcat DEF Texts
  <2>4. Ahead(sizes, reader) = TakenFrom(Begun(sizes \cup {Len(block)}, yielded), rest)
    BY <1>1, <2>1, BlockTaken DEF Ahead, Limited
  <2> HIDE DEF block, rest, yielded
  <2>5. CASE Over(block)
    <3>1. Turn[reader] = [buffer |-> reader.buffer, events |-> reader.events, over |-> TRUE]
      BY <1>2, <1>4, <2>5 DEF Reading
    <3>2. Turn[reader] \in Reading /\ Stuck(Turn[reader])
      BY <1>1, <3>1 DEF Reading, Stuck
    <3>3. GivesUp(Turn[reader])
      BY <2>1, <2>5, <3>1 DEF GivesUp, Over, block
    <3>4. Ahead(sizes, Turn[reader]) = Ahead(sizes, reader)
      BY <3>1 DEF Ahead
    <3> QED
      BY <1>4, <3>2, <3>3, <3>4
  <2>6. CASE ~Over(block)
    <3>1. Turn[reader] = [buffer |-> rest, events |-> yielded, over |-> FALSE]
      BY <1>2, <1>4, <2>1, <2>6 DEF Reading
    <3>2. Turn[reader] \in Reading /\ GivesUp(Turn[reader])
      BY <2>2, <2>3, <3>1 DEF Reading, GivesUp
    <3>3. Limited(sizes \cup {Len(block)})
      <4> DEFINE size == Len(block)
      <4>1. size \in Int /\ ~(size > MaxEvent) /\ MaxEvent \in Int
        BY <2>3, <2>6, SseReaderAssumption DEF Over
      <4> HIDE DEF size
      <4>2. size <= MaxEvent
        BY <4>1
      <4>3. Limited(sizes \cup {size})
        BY <4>1, <4>2 DEF Limited
      <4> QED
        BY <4>3 DEF size
    <3>4. Ahead(sizes \cup {Len(block)}, Turn[reader]) = Ahead(sizes, reader)
      BY <2>4, <3>1 DEF Ahead
    <3>5. Len(Turn[reader].buffer) < Len(reader.buffer)
      BY <2>2, <3>1
    <3> QED
      BY <1>4, <3>2, <3>3, <3>4, <3>5
  <2> QED
    BY <2>5, <2>6
<1> QED
  BY <1>3, <1>4

LEMMA TurnTyped == [c \in Characters |-> Turn] \in [Characters -> [Reading -> Reading]]
<1>1. ASSUME NEW reader \in Reading PROVE Turn[reader] \in Reading
  <2> DEFINE block == BlockOf(reader.buffer)
             rest == AfterBlock(reader.buffer)
             yielded == reader.events \o ParseEvent(block)
  <2>1. reader.buffer \in Texts /\ reader.events \in Events /\ reader.over \in BOOLEAN
    BY DEF Reading
  <2>2. Turn[reader] = IF Stuck(reader) THEN reader
                       ELSE IF Over(block) THEN [reader EXCEPT !.over = TRUE]
                       ELSE [reader EXCEPT !.buffer = rest, !.events = yielded]
    BY DEF Turn, Reading, Stuck, BlockOf, AfterBlock
  <2>3. ~Stuck(reader) => block \in Texts /\ rest \in Texts /\ yielded \in Events
    BY <2>1, BlockAndRest, ParseEventTyped, EventsConcat DEF Stuck
  <2> HIDE DEF block, rest, yielded
  <2> QED
    BY <2>1, <2>2, <2>3 DEF Reading
<1>2. Turn = [reader \in Reading |-> Turn[reader]]
  BY DEF Turn, Reading
<1>3. Turn \in [Reading -> Reading]
  BY <1>1, <1>2
<1> QED
  BY <1>3

(* The loop comes to rest, and has not lost anything on the way.           *)
LEMMA DrainedTaken ==
  ASSUME NEW text \in Texts, NEW before \in Events, NEW sizes, Limited(sizes)
  PROVE  LET start == [buffer |-> text, events |-> before, over |-> FALSE]
             reader == Through([c \in Characters |-> Turn], start, text)
         IN  /\ reader \in Reading /\ Stuck(reader) /\ GivesUp(reader)
             /\ \E more : Limited(more) /\ Ahead(more, reader) = Ahead(sizes, start)
<1> DEFINE start == [buffer |-> text, events |-> before, over |-> FALSE]
           step == [c \in Characters |-> Turn]
           After(t) == Through(step, start, t)
           Good(reader, n) ==
             /\ reader \in Reading /\ GivesUp(reader)
             /\ \E more : Limited(more) /\ Ahead(more, reader) = Ahead(sizes, start)
             /\ Stuck(reader) \/ Len(reader.buffer) + n <= Len(text)
           T == {t \in Texts : Good(After(t), Len(t))}
<1>1. start \in Reading /\ step \in [Characters -> [Reading -> Reading]] /\ Len(text) \in Nat
  BY TurnTyped DEF Reading, Texts
<1>2. Good(start, 0)
  BY <1>1 DEF GivesUp
<1> HIDE DEF start, step
<1>3. <<>> \in T
  <2>1. After(<<>>) = start /\ Len(<<>>) = 0
    BY <1>1, ThroughEmpty, EmptySeq
  <2> HIDE DEF Good
  <2> QED
    BY <1>2, <2>1, OneLine
<1>4. ASSUME NEW t \in Seq(Characters), NEW c \in Characters, t \in T PROVE Append(t, c) \in T
  <2> DEFINE reader == After(t)
             n == Len(t)
  <2>1. Good(reader, n) /\ n \in Nat /\ Append(t, c) \in Texts /\ Len(Append(t, c)) = n + 1
    <3>1. Good(reader, n)
      BY <1>4
    <3> HIDE DEF Good, reader
    <3> QED
      BY <3>1 DEF Texts
  <2>2. After(Append(t, c)) = Turn[reader]
    BY <1>1, ThroughAppend DEF step
  <2> HIDE DEF reader, After, n
  <2>3. PICK more : Limited(more) /\ Ahead(more, reader) = Ahead(sizes, start)
    BY <2>1
  <2>4. /\ Turn[reader] \in Reading /\ GivesUp(Turn[reader])
        /\ \E m : Limited(m) /\ Ahead(m, Turn[reader]) = Ahead(more, reader)
        /\ Stuck(reader) => Turn[reader] = reader
        /\ Stuck(Turn[reader]) \/ Len(Turn[reader].buffer) < Len(reader.buffer)
    BY <2>1, <2>3, TurnTaken
  <2>5. Stuck(Turn[reader]) \/ Len(Turn[reader].buffer) + (n + 1) <= Len(text)
    <3>1. CASE Stuck(reader)
      BY <2>4, <3>1
    <3>2. CASE ~Stuck(reader) /\ ~Stuck(Turn[reader])
      <4>1. Len(reader.buffer) \in Nat /\ Len(Turn[reader].buffer) \in Nat
        BY <2>1, <2>4, LenProperties DEF Reading, Texts
      <4>2. Len(reader.buffer) + n <= Len(text) /\ Len(Turn[reader].buffer) < Len(reader.buffer)
        BY <2>1, <2>4, <3>2
      <4> DEFINE now == Len(reader.buffer)
                 then == Len(Turn[reader].buffer)
                 last == Len(text)
      <4>3. now \in Nat /\ then \in Nat /\ last \in Nat /\ n \in Nat /\ now + n <= last /\ then < now
        BY <1>1, <2>1, <4>1, <4>2
      <4> HIDE DEF now, then, last
      <4>4. then + (n + 1) <= last
        BY <4>3
      <4> QED
        BY <4>4 DEF then, last
    <3> QED
      BY <3>1, <3>2
  <2>6. Good(Turn[reader], n + 1)
    BY <2>3, <2>4, <2>5
  <2> HIDE DEF Good
  <2> QED
    BY <2>1, <2>2, <2>6
<1>5. Seq(Characters) \subseteq T
  <2> HIDE DEF T
  <2> QED
    BY <1>3, <1>4, EverySequence
<1> DEFINE reader == After(text)
<1>6. Good(reader, Len(text))
  <2> HIDE DEF Good, reader
  <2> QED
    BY <1>5 DEF Texts, reader
<1>7. Stuck(reader)
  <2> HIDE DEF reader
  <2> SUFFICES ASSUME ~Stuck(reader) PROVE FALSE
    OBVIOUS
  <2>1. reader.buffer \in Texts /\ Len(reader.buffer) + Len(text) <= Len(text)
    BY <1>6 DEF Reading
  <2>2. Len(reader.buffer) \in Nat
    BY <2>1, LenProperties DEF Texts
  <2>3. Len(reader.buffer) = 0
    BY <1>1, <2>1, <2>2
  <2>4. BlankLines(reader.buffer) = {}
    BY <2>3 DEF BlankLines
  <2> QED
    BY <2>4 DEF Stuck
<1> HIDE DEF After
<1> QED
  <2>1. reader \in Reading /\ Stuck(reader) /\ GivesUp(reader)
        /\ \E more : Limited(more) /\ Ahead(more, reader) = Ahead(sizes, start)
    BY <1>6, <1>7
  <2> QED
    BY <2>1 DEF After, start, step

-----------------------------------------------------------------------------
(* The invariant.                                                          *)

LEMMA SentIsTaken ==
  Begun({}, <<>>) \in Sending /\ Sent = TakenFrom(Begun({}, <<>>), Unified(received))
<1>1. Begun({}, <<>>) \in Sending
  BY TakesTyped, EventsConcat
<1> QED
  BY <1>1 DEF Sent, TakenFrom

LEMMA PrefixOfConcat ==
  ASSUME NEW a \in Events, NEW b \in Events
  PROVE  IsPrefix(a, a \o b)
<1> DEFINE S == [event : Lines, data : Lines]
<1>1. a \in Seq(S) /\ b \in Seq(S)
  BY DEF Events
<1> HIDE DEF S
<1>2. a \o b \in Seq(S) /\ Len(a \o b) = Len(a) + Len(b) /\ Len(a) \in Nat /\ Len(b) \in Nat
      /\ \A i \in 1 .. Len(a) : (a \o b)[i] = a[i]
  BY <1>1, ConcatProperties
<1>3. Len(a) <= Len(a \o b)
  BY <1>2
<1>4. SubSeq(a, 1, Len(a)) = a
  BY <1>1, SubSeqFull
<1>5. SubSeq(a \o b, 1, Len(a)) = a
  BY <1>1, <1>2
<1> QED
  BY <1>3, <1>4, <1>5 DEF IsPrefix

LEMMA PrefixGrows ==
  ASSUME NEW a \in Events, NEW b \in Events, NEW c \in Events, IsPrefix(a, b)
  PROVE  IsPrefix(a, b \o c)
<1> DEFINE S == [event : Lines, data : Lines]
<1>1. a \in Seq(S) /\ b \in Seq(S) /\ c \in Seq(S)
  BY DEF Events
<1> HIDE DEF S
<1>2. Len(a) <= Len(b) /\ SubSeq(a, 1, Len(a)) = SubSeq(b, 1, Len(a))
  BY DEF IsPrefix
<1>3. /\ b \o c \in Seq(S) /\ Len(b \o c) = Len(b) + Len(c)
      /\ Len(a) \in Nat /\ Len(b) \in Nat /\ Len(c) \in Nat
      /\ \A i \in 1 .. Len(b) : (b \o c)[i] = b[i]
  BY <1>1, ConcatProperties
<1>4. SubSeq(b \o c, 1, Len(a)) = SubSeq(b, 1, Len(a))
  BY <1>1, <1>2, <1>3
<1> QED
  BY <1>2, <1>3, <1>4 DEF IsPrefix

(* While the reader reads, no block is over the limit.                     *)
LEMMA WithinTheLimit ==
  ASSUME Holds, status = "reading", Sent \in Sending
  PROVE  ~TooLong(Sent) /\ ~CutAtItsEnd(Sent) /\ ~parted
<1>1. (\A size \in Sent.sizes \cup {Sent.size} : size <= MaxEvent) /\ ~parted
  BY DEF Holds
<1>2. Sent.sizes \cup {Sent.size} \in SUBSET Int /\ MaxEvent \in Nat
  BY SseReaderAssumption DEF Sending
<1>3. ~ \E size \in Sent.sizes \cup {Sent.size} : size > MaxEvent
  BY <1>1, <1>2
<1> QED
  BY <1>1, <1>3, AtTheLimit

LEMMA InitInvariant == Init => IInv
<1> SUFFICES ASSUME Init PROVE IInv
  OBVIOUS
<1> USE DEF Init
<1>1. TypeOK
  BY OneLine, EventsConcat DEF TypeOK
<1>2. Sent = Begun({}, <<>>)
  BY SentIsTaken, UnifiedEmpty, TakenUnfolds
<1>3. Split(buffer) = <<<<>>>> /\ Len(buffer) = 0 /\ BlankLines(buffer) = {} /\ ~EndsInCR(received)
  BY SplitUnfolds DEF BlankLines, EndsInCR
<1>4. Holds
  <2>1. Sent = [lines |-> <<<<>>>>, size |-> 0, sizes |-> {}, events |-> <<>>]
    BY <1>2 DEF Begun
  <2>2. Sent = [lines |-> Split(buffer), size |-> Len(buffer), sizes |-> Sent.sizes, events |-> events]
    BY <1>3, <2>1
  <2>3. \A size \in Sent.sizes \cup {Sent.size} : size <= MaxEvent
    BY <2>1, SseReaderAssumption
  <2>4. pendingCarriageReturn = EndsInCR(received)
    BY DEF EndsInCR
  <2> QED
    BY <1>3, <2>2, <2>3, <2>4 DEF Holds
<1>5. ReadsWhatWasSent
  BY <1>4 DEF Holds, ReadsWhatWasSent
<1>6. GivesUpAtTheLimit
  <2>1. Sent \in Sending
    BY <1>2, SentIsTaken
  <2> QED
    BY <1>4, <2>1, WithinTheLimit DEF GivesUpAtTheLimit
<1> QED
  BY <1>1, <1>4, <1>5, <1>6 DEF IInv

(* What append adds to the text, and whether a carriage return is pending. *)
LEMMA AppendTaken ==
  ASSUME TypeOK, Holds, status = "reading", NEW chunk \in Texts
  PROVE  /\ Rest(chunk) \in Texts
         /\ Unified(received \o chunk) = Unified(received) \o Unified(Rest(chunk))
         /\ StaysPending(chunk) = EndsInCR(received \o chunk)
         /\ received \o chunk \in Texts
         /\ StaysPending(chunk) \in BOOLEAN
<1>1. received \in Texts /\ pendingCarriageReturn = EndsInCR(received)
  BY DEF TypeOK, Holds
<1>2. Rest(chunk) = NewAfter(received, chunk)
  BY <1>1 DEF Rest, NewAfter
<1>3. /\ NewAfter(received, chunk) \in Texts
      /\ chunk # <<>> => EndsInCR(NewAfter(received, chunk)) = EndsInCR(chunk)
                         /\ EndsInCR(received \o chunk) = EndsInCR(chunk)
      /\ chunk = <<>> => received \o chunk = received
  BY <1>1, NewAfterEnds
<1>4. StaysPending(chunk) = EndsInCR(received \o chunk)
  BY <1>1, <1>2, <1>3 DEF StaysPending
<1>5. received \o chunk \in Texts
  BY <1>1, ConcatProperties DEF Texts
<1>6. EndsInCR(received \o chunk) \in BOOLEAN
  BY DEF EndsInCR
<1> QED
  BY <1>1, <1>2, <1>3, <1>4, <1>5, <1>6, UnifiedConcat

(* What is held is what the reference has not yet ended.                   *)
LEMMA HeldTaken ==
  ASSUME TypeOK, Holds, status = "reading", NEW more \in Texts
  PROVE  /\ Sent \in Sending /\ Limited(Sent.sizes) /\ Sent.events = events
         /\ TakenFrom(Sent, more) = TakenFrom(Begun(Sent.sizes, events), buffer \o more)
<1>1. buffer \in Texts /\ events \in Events /\ received \in Texts
  BY DEF TypeOK
<1>2. Sent \in Sending
  BY <1>1, SentIsTaken, UnifiedTyped, TakenUnfolds
<1>3. Sent.sizes \in SUBSET Int /\ Limited(Sent.sizes)
  BY <1>2 DEF Sending, Limited, Holds
<1>4. Sent = [lines |-> Split(buffer), size |-> Len(buffer), sizes |-> Sent.sizes, events |-> events]
      /\ BlankLines(buffer) = {}
  BY DEF Holds
<1>5. TakenFrom(Begun(Sent.sizes, events), buffer) = Sent
  BY <1>1, <1>3, <1>4, NoBlankTaken
<1>6. Begun(Sent.sizes, events) \in Sending
  BY <1>1, <1>3, TakesTyped
<1>7. TakenFrom(Begun(Sent.sizes, events), buffer \o more) = TakenFrom(Sent, more)
  BY <1>1, <1>5, <1>6, TakenUnfolds
<1>8. Sent.events = events
  BY <1>4
<1> QED
  BY <1>2, <1>3, <1>7, <1>8

LEMMA ReceiveInvariant ==
  ASSUME IInv, NEW chunk \in Texts, Receive(chunk)
  PROVE  IInv'
<1> DEFINE new == Unified(Rest(chunk))
           text == buffer \o new
           start == [buffer |-> text, events |-> events, over |-> FALSE]
           drained == Drained(text)
<1>1. status = "reading" /\ TypeOK /\ Holds
  BY DEF Receive, IInv
<1>2. buffer \in Texts /\ events \in Events /\ received \in Texts /\ new \in Texts /\ text \in Texts
  BY <1>1, AppendTaken, UnifiedTyped, ConcatProperties DEF TypeOK, Texts
<1>3. /\ Unified(received \o chunk) = Unified(received) \o new
      /\ StaysPending(chunk) = EndsInCR(received \o chunk)
      /\ received \o chunk \in Texts /\ StaysPending(chunk) \in BOOLEAN
  BY <1>1, AppendTaken
<1> HIDE DEF new
<1>4. Sent \in Sending /\ Limited(Sent.sizes)
      /\ TakenFrom(Sent, new) = TakenFrom(Begun(Sent.sizes, events), text)
  BY <1>1, <1>2, HeldTaken
<1>5. Sent' = TakenFrom(Sent, new)
  <2>1. received' = received \o chunk
    BY DEF Receive
  <2>2. Sent' = TakenFrom(Begun({}, <<>>), Unified(received \o chunk))
    BY <2>1 DEF Sent, TakenFrom
  <2>3. Begun({}, <<>>) \in Sending /\ Unified(received) \in Texts
        /\ Sent = TakenFrom(Begun({}, <<>>), Unified(received))
    BY <1>2, SentIsTaken, UnifiedTyped
  <2> QED
    BY <1>2, <1>3, <2>2, <2>3, TakenUnfolds
<1>6. /\ drained \in Reading /\ Stuck(drained) /\ GivesUp(drained)
      /\ \E more : Limited(more) /\ Ahead(more, drained) = Ahead(Sent.sizes, start)
  <2> HIDE DEF text
  <2>1. drained = Through([c \in Characters |-> Turn], start, text)
    BY DEF Drained
  <2> QED
    BY <1>2, <1>4, <2>1, DrainedTaken
<1>7. PICK more : Limited(more) /\ Ahead(more, drained) = Sent'
  BY <1>4, <1>5, <1>6 DEF Ahead
<1>8. /\ received' = received \o chunk /\ pendingCarriageReturn' = StaysPending(chunk)
      /\ buffer' = drained.buffer /\ events' = drained.events
      /\ status' = IF drained.over \/ Len(drained.buffer) > MaxEvent THEN "failed" ELSE "reading"
      /\ parted' = (parted \/ CutAtItsEnd(Sent'))
  BY DEF Receive, new
<1> HIDE DEF drained, text, start
<1>9. TypeOK' /\ ~parted /\ Sent' \in Sending
  <2>1. ~parted
    BY <1>1 DEF Holds
  <2>2. Sent' \in Sending
    BY <1>2, <1>4, <1>5, TakenUnfolds
  <2>3. CutAtItsEnd(Sent') \in BOOLEAN
    BY DEF CutAtItsEnd
  <2> QED
    BY <1>3, <1>6, <1>8, <2>1, <2>2, <2>3 DEF TypeOK, Reading
<1>10. drained.buffer \in Texts /\ drained.events \in Events /\ more \in SUBSET Int
       /\ Begun(more, drained.events) \in Sending
  BY <1>6, <1>7, TakesTyped DEF Reading, Limited
<1>11. CASE drained.over
  <2>1. BlankLines(drained.buffer) # {} /\ Len(BlockOf(drained.buffer)) > MaxEvent
    BY <1>6, <1>11 DEF GivesUp
  <2> DEFINE block == BlockOf(drained.buffer)
             after == Begun(more \cup {Len(block)}, drained.events \o ParseEvent(block))
             rest == AfterBlock(drained.buffer)
  <2>2. block \in Texts /\ rest \in Texts /\ Len(block) \in Int
    BY <1>10, <2>1, BlockAndRest, LenProperties DEF Texts
  <2>3. Sent' = TakenFrom(after, rest)
    BY <1>7, <1>10, <2>1, BlockTaken DEF Ahead
  <2>4. ParseEvent(block) \in Events /\ drained.events \o ParseEvent(block) \in Events
    BY <1>10, <2>2, ParseEventTyped, EventsConcat
  <2>5. after \in Sending
    BY <1>10, <2>2, <2>4, TakesTyped
  <2>6. after.events = drained.events \o ParseEvent(block) /\ Len(block) \in after.sizes
    BY DEF Begun
  <2> HIDE DEF block, after, rest
  <2>7. (\E m \in Events : Sent'.events = after.events \o m) /\ after.sizes \subseteq Sent'.sizes
    BY <2>2, <2>3, <2>5, TakenGrows
  <2>8. PICK m \in Events : Sent'.events = (drained.events \o ParseEvent(block)) \o m
    BY <2>6, <2>7
  <2>9. Sent'.events = drained.events \o (ParseEvent(block) \o m) /\ ParseEvent(block) \o m \in Events
    BY <1>10, <2>4, <2>8, EventsConcat
  <2>10. IsPrefix(drained.events, Sent'.events)
    BY <1>10, <2>9, PrefixOfConcat
  <2>11. Len(block) \in Sent'.sizes /\ Len(block) > MaxEvent
    BY <2>1, <2>6, <2>7 DEF block
  <2>12. status' = "failed" /\ events' = drained.events
    BY <1>8, <1>11
  <2>13. TooLong(Sent')
    BY <2>11 DEF TooLong
  <2> QED
    BY <1>9, <2>10, <2>12, <2>13 DEF IInv, Holds, ReadsWhatWasSent, GivesUpAtTheLimit
<1>12. CASE ~drained.over
  <2>1. BlankLines(drained.buffer) = {}
    BY <1>6, <1>12 DEF Stuck
  <2>2. Sent' = [lines |-> Split(drained.buffer), size |-> Len(drained.buffer),
                 sizes |-> more, events |-> drained.events]
    BY <1>7, <1>10, <2>1, NoBlankTaken DEF Ahead
  <2>3. Sent'.sizes = more /\ Sent'.size = Len(drained.buffer) /\ Sent'.events = drained.events
    BY <2>2
  <2>4. Len(drained.buffer) \in Nat /\ \A size \in more : size <= MaxEvent
    BY <1>7, <1>10, LenProperties DEF Limited, Texts
  <2>5. CASE Len(drained.buffer) > MaxEvent
    <3>1. status' = "failed" /\ events' = Sent'.events
      BY <1>8, <2>3, <2>5
    <3>2. IsPrefix(events', Sent'.events)
      <4>1. <<>> \in Events /\ drained.events \o <<>> = drained.events
        BY <1>10, EventsConcat
      <4> QED
        BY <1>8, <1>10, <2>3, <4>1, PrefixOfConcat
    <3>3. TooLong(Sent') \/ parted'
      <4>1. \E size \in Sent'.sizes \cup {Sent'.size} : size > MaxEvent
        BY <2>3, <2>5
      <4> QED
        BY <1>8, <1>9, <4>1, AtTheLimit
    <3> QED
      BY <1>9, <3>1, <3>2, <3>3 DEF IInv, Holds, ReadsWhatWasSent, GivesUpAtTheLimit
  <2>6. CASE ~(Len(drained.buffer) > MaxEvent)
    <3>1. status' = "reading" /\ events' = drained.events /\ buffer' = drained.buffer
      BY <1>8, <1>12, <2>6
    <3>2. Len(drained.buffer) <= MaxEvent
      BY <2>4, <2>6, SseReaderAssumption
    <3>3. \A size \in Sent'.sizes \cup {Sent'.size} : size <= MaxEvent
      BY <2>3, <2>4, <3>2
    <3>4. ~TooLong(Sent') /\ ~parted'
      <4>1. Sent'.sizes \cup {Sent'.size} \in SUBSET Int /\ MaxEvent \in Nat
        BY <1>9, SseReaderAssumption DEF Sending
      <4>2. ~ \E size \in Sent'.sizes \cup {Sent'.size} : size > MaxEvent
        BY <3>3, <4>1
      <4> QED
        BY <1>8, <1>9, <4>2, AtTheLimit
    <3>5. Holds'
      BY <1>3, <1>8, <2>1, <2>2, <2>3, <3>1, <3>3, <3>4 DEF Holds
    <3> QED
      BY <1>9, <2>3, <3>1, <3>4, <3>5 DEF IInv, ReadsWhatWasSent, GivesUpAtTheLimit
  <2> QED
    BY <2>5, <2>6
<1> QED
  BY <1>11, <1>12

LEMMA EndInvariant ==
  ASSUME IInv, NEW flushed \in {<<>>, <<Replacement>>}, End(flushed)
  PROVE  IInv'
<1>1. status = "reading" /\ TypeOK /\ Holds
  BY DEF End, IInv
<1>2. flushed \in Texts /\ Unified(flushed) = flushed /\ BlankLines(buffer \o flushed) = {}
      /\ Rest(flushed) = flushed /\ buffer \o flushed \in Texts /\ buffer \in Texts
  <2>1. buffer \in Texts /\ BlankLines(buffer) = {}
    BY <1>1 DEF TypeOK, Holds
  <2>2. CASE flushed = <<>>
    <3>1. buffer \o <<>> = buffer
      BY <2>1, ConcatEmptySeq DEF Texts
    <3> QED
      BY <2>1, <2>2, <3>1, OneLine, UnifiedEmpty DEF Rest
  <2>3. CASE flushed = <<Replacement>>
    <3>1. Replacement \in Characters /\ Replacement # CR /\ Replacement # LF
      BY SseReaderAssumption
    <3>2. flushed \in Texts /\ flushed # <<>> /\ Head(flushed) # LF
      BY <2>3, <3>1 DEF Texts
    <3>3. Unified(Append(<<>>, Replacement)) = Append(<<>>, Replacement)
      BY <3>1, OneLine, UnifiedAppend, UnifiedEmpty DEF EndsInCR
    <3>4. Append(<<>>, Replacement) = flushed
      BY <2>3
    <3>5. buffer \o flushed \in Texts /\ Len(buffer \o flushed) = Len(buffer) + 1 /\ Len(buffer) \in Nat
          /\ (buffer \o flushed)[Len(buffer) + 1] = Replacement
          /\ \A i \in 1 .. Len(buffer) : (buffer \o flushed)[i] = buffer[i]
      BY <2>1, <2>3, <3>1 DEF Texts
    <3>6. BlankLines(buffer \o flushed) = {}
      <4> SUFFICES ASSUME NEW i \in BlankLines(buffer \o flushed) PROVE FALSE
        OBVIOUS
      <4>1. i \in 1 .. Len(buffer) /\ (buffer \o flushed)[i] = LF /\ (buffer \o flushed)[i + 1] = LF
        BY <3>5 DEF BlankLines
      <4>2. i # Len(buffer)
        BY <3>1, <3>5, <4>1
      <4>3. i \in 1 .. Len(buffer) - 1 /\ buffer[i] = LF /\ buffer[i + 1] = LF
        BY <3>5, <4>1, <4>2
      <4> QED
        BY <2>1, <4>3 DEF BlankLines
    <3> QED
      BY <2>1, <3>2, <3>3, <3>4, <3>5, <3>6 DEF Rest
  <2> QED
    BY <2>2, <2>3
<1>3. /\ Unified(received \o flushed) = Unified(received) \o flushed
      /\ received \o flushed \in Texts /\ StaysPending(flushed) \in BOOLEAN
  BY <1>1, <1>2, AppendTaken
<1>4. Sent \in Sending /\ Limited(Sent.sizes) /\ Sent.events = events
      /\ TakenFrom(Sent, flushed) = TakenFrom(Begun(Sent.sizes, events), buffer \o flushed)
  BY <1>1, <1>2, HeldTaken
<1>5. received \in Texts /\ events \in Events
  BY <1>1 DEF TypeOK
<1>6. Sent' = TakenFrom(Sent, flushed)
  <2>1. received' = received \o flushed
    BY DEF End
  <2>2. Sent' = TakenFrom(Begun({}, <<>>), Unified(received \o flushed))
    BY <2>1 DEF Sent, TakenFrom
  <2>3. Begun({}, <<>>) \in Sending /\ Unified(received) \in Texts
        /\ Sent = TakenFrom(Begun({}, <<>>), Unified(received))
    BY <1>5, SentIsTaken, UnifiedTyped
  <2> QED
    BY <1>2, <1>3, <2>2, <2>3, TakenUnfolds
<1>7. Sent' = [lines |-> Split(buffer \o flushed), size |-> Len(buffer \o flushed),
               sizes |-> Sent.sizes, events |-> events]
  BY <1>2, <1>4, <1>5, <1>6, NoBlankTaken DEF Limited
<1>8. Sent'.lines = Split(buffer \o flushed) /\ Sent'.sizes = Sent.sizes /\ Sent'.events = events
  BY <1>7
<1>9. /\ status' = "ended" /\ received' = received \o flushed /\ buffer' = buffer \o flushed
      /\ pendingCarriageReturn' = StaysPending(flushed)
      /\ events' = events \o EventOf(Split(buffer \o flushed)) /\ parted' = parted /\ ~parted
  BY <1>1 DEF End, ParseEvent, Holds
<1>10. events' \in Events
  BY <1>2, <1>5, <1>9, SplitTyped, EventOfTyped, EventsConcat
<1>11. TypeOK'
  BY <1>1, <1>2, <1>3, <1>9, <1>10 DEF TypeOK
<1>12. ReadsWhatWasSent' /\ GivesUpAtTheLimit'
  BY <1>4, <1>8, <1>9 DEF ReadsWhatWasSent, GivesUpAtTheLimit, Limited
<1> QED
  BY <1>9, <1>11, <1>12 DEF IInv, Holds

(* What follows changes neither what was yielded nor why the reader failed. *)
LEMMA UnreadInvariant ==
  ASSUME IInv, NEW chunk \in Texts, Unread(chunk)
  PROVE  IInv'
<1> DEFINE more == NewAfter(received, chunk)
<1>1. /\ TypeOK /\ status = "failed" /\ received' = received \o chunk
      /\ IsPrefix(events, Sent.events) /\ (TooLong(Sent) \/ parted)
      /\ UNCHANGED <<buffer, pendingCarriageReturn, events, status, parted>>
  BY DEF Unread, IInv, ReadsWhatWasSent, GivesUpAtTheLimit
<1>2. received \in Texts /\ events \in Events /\ received \o chunk \in Texts
  BY <1>1, ConcatProperties DEF TypeOK, Texts
<1>3. more \in Texts
  BY <1>2, NewAfterEnds
<1>4. Unified(received \o chunk) = Unified(received) \o Unified(more)
  BY <1>2, UnifiedConcat
<1> HIDE DEF more
<1>5. /\ Unified(received) \in Texts /\ Unified(more) \in Texts
      /\ Begun({}, <<>>) \in Sending /\ Sent = TakenFrom(Begun({}, <<>>), Unified(received))
      /\ Sent \in Sending
  BY <1>2, <1>3, UnifiedTyped, SentIsTaken, TakenUnfolds
<1>6. Sent' = TakenFrom(Sent, Unified(more))
  <2>1. Sent' = TakenFrom(Begun({}, <<>>), Unified(received \o chunk))
    BY <1>1 DEF Sent, TakenFrom
  <2> QED
    BY <1>4, <1>5, <2>1, TakenUnfolds
<1>7. TooLong(Sent) => TooLong(Sent')
  BY <1>5, <1>6, TooLongStays
<1>8. IsPrefix(events, Sent'.events)
  <2>1. PICK new \in Events : Sent'.events = Sent.events \o new
    BY <1>5, <1>6, TakenGrows
  <2>2. Sent.events \in Events
    BY <1>5 DEF Sending
  <2> QED
    BY <1>1, <1>2, <2>1, <2>2, PrefixGrows
<1>9. TypeOK'
  BY <1>1, <1>2 DEF TypeOK
<1> QED
  BY <1>1, <1>7, <1>8, <1>9 DEF IInv, Holds, ReadsWhatWasSent, GivesUpAtTheLimit

LEMMA NextInvariant == IInv /\ [Next]_vars => IInv'
<1> SUFFICES ASSUME IInv, [Next]_vars PROVE IInv'
  OBVIOUS
<1>1. ASSUME NEW chunk \in BoundedSeq(Characters, MaxText - Len(received)), Receive(chunk) \/ Unread(chunk)
      PROVE  IInv'
  <2>1. PICK n \in 0 .. MaxText - Len(received) : chunk \in [1 .. n -> Characters]
    BY DEF BoundedSeq, SeqOf
  <2>2. chunk \in Texts
    <3>1. Len(received) \in Nat /\ MaxText \in Nat
      BY SseReaderAssumption, LenProperties DEF IInv, TypeOK, Texts
    <3>2. n \in Nat
      BY <2>1, <3>1
    <3> QED
      BY <2>1, <3>2, SeqDef DEF Texts
  <2> QED
    BY <1>1, <2>2, ReceiveInvariant, UnreadInvariant
<1>2. ASSUME NEW flushed \in {<<>>, <<Replacement>>}, End(flushed)
      PROVE  IInv'
  BY <1>2, EndInvariant
<1>3. CASE UNCHANGED vars
  <2>1. Sent' = Sent
    BY <1>3 DEF vars, Sent
  <2> QED
    BY <1>3, <2>1 DEF vars, IInv, TypeOK, Holds, ReadsWhatWasSent, GivesUpAtTheLimit
<1> QED
  BY <1>1, <1>2, <1>3 DEF Next

(* The invariant that makes the properties inductive.                      *)
THEOREM Inductive == Spec => []IInv
<1>1. Init => IInv
  BY InitInvariant
<1>2. IInv /\ [Next]_vars => IInv'
  BY NextInvariant
<1> QED
  BY <1>1, <1>2, PTL DEF Spec

(* However a stream of any length is cut into chunks, readSseEvents yields *)
(* the events of the whole text, or a first part of them if it gives up.   *)
(* It gives up on every text with a block over the limit, whatever the     *)
(* chunks, and on no other, except one with a block of just the limit of   *)
(* which a chunk ended amid the line ends that end it.                     *)
THEOREM ReadsAnyChunks == Spec => []ChunksMatterAtTheLimitOnly
<1>1. IInv => ChunksMatterAtTheLimitOnly
  BY DEF IInv, ChunksMatterAtTheLimitOnly
<1> QED
  BY <1>1, Inductive, PTL

-----------------------------------------------------------------------------
(* What is written.                                                        *)

Words == Seq(Symbols)

LEMMA WordsJoin ==
  ASSUME NEW s \in Words, NEW t \in Words
  PROVE  s \o t \in Words
BY ConcatTyped DEF Words

LEMMA WordsAssociate ==
  ASSUME NEW s \in Words, NEW t \in Words, NEW u \in Words
  PROVE  Regroups(s, t, u)
BY Associative DEF Words

LEMMA NoWord ==
  /\ <<>> \in Words
  /\ \A s \in Words : s \o <<>> = s /\ <<>> \o s = s
<1>1. <<>> \in Seq(Symbols)
  BY EmptySeq
<1>2. ASSUME NEW s \in Seq(Symbols) PROVE s \o <<>> = s /\ <<>> \o s = s
  BY ConcatEmptySeq
<1> QED
  BY <1>1, <1>2 DEF Words

LEMMA WordsCancel ==
  ASSUME NEW s \in Words, NEW t \in Words, NEW u \in Words, s \o t = s \o u
  PROVE  t = u
BY Cancel DEF Words

LEMMA FirstOfWords ==
  ASSUME NEW s \in Words, NEW t \in Words, s # <<>>
  PROVE  (s \o t)[1] = s[1] /\ s \o t # <<>> /\ s[1] \in Symbols
BY FirstOfConcat DEF Words

LEMMA OneSymbol ==
  ASSUME NEW x \in Symbols
  PROVE  <<x>> \in Words /\ Len(<<x>>) = 1 /\ <<x>>[1] = x /\ <<x>> # <<>>
BY SingletonIs DEF Words

(* The words of a sequence as one word.                                    *)
LEMMA WordsFlattened ==
  /\ <<>> \in Seq(Words)
  /\ Flattened(Symbols, <<>>) = <<>>
  /\ \A parts \in Seq(Words) : Flattened(Symbols, parts) \in Words
  /\ \A parts \in Seq(Words), part \in Words :
       /\ <<part>> \o parts \in Seq(Words)
       /\ Flattened(Symbols, <<part>> \o parts) = part \o Flattened(Symbols, parts)
BY FlattenedUnfolds, FlattenedBefore DEF Words

ReadOneWay(W) ==
  \A p, q \in W : \A s, t \in Words : p \o s = q \o t => p = q

NoneLike(W, Ends) == \A w \in W, s \in Words : w \o s \notin Ends

(* A list of words is read in one way, before an end no word begins like.  *)
LEMMA WordListsAreRead ==
  ASSUME NEW W, W \subseteq Words, ReadOneWay(W), NEW Ends, Ends \subseteq Words, NoneLike(W, Ends)
  PROVE  ListsRead(W, Symbols, Ends)
<1>1. PrefixFree(W, Symbols) /\ NoneBegins(W, Symbols, Ends)
  BY DEF PrefixFree, ReadOneWay, Words, NoneBegins, NoneLike
<1>2. W \subseteq Seq(Symbols) /\ Ends \subseteq Seq(Symbols)
  BY DEF Words
<1> QED
  BY <1>1, <1>2, ListsAreRead

CommaMark == <<Mark(",")>>

(* The pieces with a comma before each.                                    *)
Commaed(pieces) == [i \in DOMAIN pieces |-> CommaMark \o pieces[i]]

LEMMA MarksAreSymbols ==
  ASSUME NEW m \in {"quote", "null", "[", "]", "{", "}", ",", ":"}
  PROVE  Mark(m) \in Symbols /\ <<Mark(m)>> \in Words /\ <<Mark(m)>> # <<>>
<1>1. Mark(m) \in Symbols
  BY DEF Symbols
<1> HIDE DEF Symbols
<1> QED
  BY <1>1, OneSymbol

(* A list whose first piece is told from the others, which have commas.    *)
LEMMA CommaedBefore ==
  ASSUME NEW p \in Words, NEW rest \in Seq(Words)
  PROVE  /\ Commaed(rest) \in Seq(Words)
         /\ CommaMark \o p \in Words
         /\ <<p>> \o rest \in Seq(Words)
         /\ Commaed(<<p>> \o rest) = <<CommaMark \o p>> \o Commaed(rest)
         /\ Listed(<<p>> \o rest) = p \o Flattened(Symbols, Commaed(rest))
<1> DEFINE n == Len(rest)
           P == <<p>> \o rest
<1>1. n \in Nat /\ DOMAIN rest = 1 .. n /\ \A i \in 1 .. n : rest[i] \in Words
  OBVIOUS
<1>2. CommaMark \in Words
  BY MarksAreSymbols DEF CommaMark
<1>3. \A q \in Words : CommaMark \o q \in Words
  BY <1>2, WordsJoin
<1>4. Commaed(rest) \in Seq(Words) /\ Len(Commaed(rest)) = n
  BY <1>1, <1>3 DEF Commaed
<1>5. /\ P \in Seq(Words) /\ Len(P) = n + 1 /\ DOMAIN P = 1 .. n + 1 /\ P[1] = p
      /\ \A i \in 1 .. n : P[1 + i] = rest[i]
  <2> DEFINE one == <<p>>
  <2>1. one \in Seq(Words) /\ Len(one) = 1 /\ one[1] = p /\ rest \in Seq(Words)
    OBVIOUS
  <2> HIDE DEF one
  <2>2. /\ one \o rest \in Seq(Words) /\ Len(one \o rest) = Len(one) + n
    BY <2>1, ConcatFacts
  <2>3. /\ \A i \in 1 .. Len(one) : (one \o rest)[i] = one[i]
        /\ \A i \in 1 .. n : (one \o rest)[Len(one) + i] = rest[i]
    <3>1. one \in Seq(Words) /\ rest \in Seq(Words)
      BY <2>1
    <3> QED
      BY <3>1, ConcatAt
  <2>4. DOMAIN (one \o rest) = 1 .. Len(one \o rest)
    BY <2>2
  <2> HIDE DEF n
  <2> QED
    BY <2>1, <2>2, <2>3, <2>4, <1>1 DEF one
<1>6. ASSUME NEW head \in Words, NEW list, list = [i \in 1 .. n + 1 |-> IF i = 1 THEN head ELSE CommaMark \o P[i]]
      PROVE  list = <<head>> \o Commaed(rest)
  <2> DEFINE one == <<head>>
             tail == Commaed(rest)
  <2>1. one \in Seq(Words) /\ Len(one) = 1 /\ one[1] = head /\ tail \in Seq(Words) /\ Len(tail) = n
    BY <1>4
  <2>2. \A i \in 1 .. n : tail[i] = CommaMark \o rest[i]
    BY <1>1 DEF Commaed
  <2> HIDE DEF one, tail, P, n
  <2>3. one \o tail \in Seq(Words) /\ Len(one \o tail) = Len(one) + Len(tail)
    BY <2>1, ConcatFacts
  <2>4. /\ \A i \in 1 .. Len(one) : (one \o tail)[i] = one[i]
        /\ \A i \in 1 .. Len(tail) : (one \o tail)[Len(one) + i] = tail[i]
    <3>1. one \in Seq(Words) /\ tail \in Seq(Words)
      BY <2>1
    <3> QED
      BY <3>1, ConcatAt
  <2>5. ASSUME NEW i \in 1 .. n + 1 PROVE (one \o tail)[i] = list[i]
    <3>1. CASE i = 1
      BY <3>1, <1>1, <1>6, <2>1, <2>4
    <3>2. CASE i # 1
      <4>1. i - 1 \in 1 .. n /\ 1 + (i - 1) = i
        BY <3>2, <1>1
      <4>2. (one \o tail)[1 + (i - 1)] = CommaMark \o P[1 + (i - 1)]
        BY <4>1, <2>1, <2>2, <2>4, <1>5
      <4>3. list[i] = CommaMark \o P[i]
        BY <3>2, <1>6
      <4> QED
        BY <4>1, <4>2, <4>3
    <3> QED
      BY <3>1, <3>2
  <2>6. list \in Seq(Words) /\ Len(list) = n + 1
    <3>1. \A i \in 1 .. n + 1 : P[i] \in Words
      BY <1>5
    <3>2. \A i \in 1 .. n + 1 : (IF i = 1 THEN head ELSE CommaMark \o P[i]) \in Words
      BY <1>3, <3>1
    <3> QED
      BY <3>2, <1>1, <1>6
  <2>7. Len(one \o tail) = n + 1
    BY <2>1, <2>3, <1>1
  <2> QED
    BY <2>3, <2>5, <2>6, <2>7, SeqEqual DEF one, tail
<1>7. Commaed(P) = <<CommaMark \o p>> \o Commaed(rest)
  <2>1. Commaed(P) = [i \in 1 .. n + 1 |-> IF i = 1 THEN CommaMark \o p ELSE CommaMark \o P[i]]
    BY <1>5 DEF Commaed
  <2>2. CommaMark \o p \in Words
    BY <1>3
  <2> HIDE DEF P, n
  <2> QED
    BY <1>6, <2>1, <2>2
<1>8. Listed(P) = p \o Flattened(Symbols, Commaed(rest))
  <2> DEFINE list == [i \in DOMAIN P |-> IF i = 1 THEN P[i] ELSE <<Mark(",")>> \o P[i]]
  <2>1. list = [i \in 1 .. n + 1 |-> IF i = 1 THEN p ELSE CommaMark \o P[i]]
    BY <1>5 DEF CommaMark
  <2>2. Listed(P) = Flattened(Symbols, list)
    BY DEF Listed
  <2>3. p \in Words
    OBVIOUS
  <2> HIDE DEF P, n, list
  <2>4. list = <<p>> \o Commaed(rest)
    BY <1>6, <2>1, <2>3
  <2>5. Flattened(Symbols, <<p>> \o Commaed(rest)) = p \o Flattened(Symbols, Commaed(rest))
    BY <1>4, WordsFlattened
  <2> QED
    BY <2>2, <2>4, <2>5
<1> QED
  BY <1>3, <1>4, <1>5, <1>7, <1>8

LEMMA ListedTyped ==
  ASSUME NEW P \in Seq(Words)
  PROVE  Listed(P) \in Words /\ Listed(<<>>) = <<>>
<1>1. Listed(<<>>) = <<>>
  BY WordsFlattened DEF Listed
<1>2. CASE P = <<>>
  BY <1>1, <1>2, NoWord
<1>3. CASE P # <<>>
  <2>1. PICK p \in Words, rest \in Seq(Words) : P = <<p>> \o rest /\ Len(rest) = Len(P) - 1
    BY <1>3, FirstAndRest
  <2>2. Listed(P) = p \o Flattened(Symbols, Commaed(rest)) /\ Commaed(rest) \in Seq(Words)
    BY <2>1, CommaedBefore
  <2>3. Flattened(Symbols, Commaed(rest)) \in Words
    BY <2>2, WordsFlattened
  <2> QED
    BY <1>1, <2>2, <2>3, WordsJoin
<1> QED
  BY <1>2, <1>3

(* What is listed is read in one way.                                      *)
LEMMA ListedIsRead ==
  ASSUME NEW W \in SUBSET Words, ReadOneWay(W), NEW close \in Symbols,
         close # Mark(","), \A w \in W : w # <<>> /\ w[1] # close,
         NEW P \in Seq(W), NEW Q \in Seq(W), NEW s \in Words, NEW t \in Words,
         Listed(P) \o (<<close>> \o s) = Listed(Q) \o (<<close>> \o t)
  PROVE  P = Q
<1> DEFINE CW == {CommaMark \o w : w \in W}
           Ends == {<<close>> \o u : u \in Words}
<1>1. CommaMark \in Words /\ CommaMark # <<>> /\ CommaMark[1] = Mark(",")
  BY MarksAreSymbols DEF CommaMark
<1>2. <<close>> \in Words /\ <<close>> # <<>> /\ <<close>>[1] = close
  BY OneSymbol
<1>3. \A u \in Words : (<<close>> \o u)[1] = close /\ <<close>> \o u \in Words
  <2> TAKE u \in Words
  <2> DEFINE one == <<close>>
  <2>1. one \in Words /\ one # <<>> /\ one[1] = close
    BY <1>2
  <2> HIDE DEF one
  <2>2. (one \o u)[1] = one[1]
    BY <2>1, FirstOfWords
  <2>3. one \o u \in Words
    BY <2>1, WordsJoin
  <2> QED
    BY <2>1, <2>2, <2>3 DEF one
<1>4. \A w \in Words : CommaMark \o w \in Words /\ CommaMark \o w # <<>> /\ (CommaMark \o w)[1] = Mark(",")
  <2> TAKE w \in Words
  <2>1. CommaMark \o w \in Words
    BY <1>1, WordsJoin
  <2>2. CommaMark \o w # <<>> /\ (CommaMark \o w)[1] = CommaMark[1]
    BY <1>1, FirstOfWords
  <2> QED
    BY <1>1, <2>1, <2>2
<1>5. CW \in SUBSET Words /\ Ends \in SUBSET Words
  BY <1>3, <1>4
<1>6. \A w \in CW, u \in Words : w \o u \notin Ends
  <2> TAKE w \in CW, u \in Words
  <2>1. w \in Words /\ w # <<>> /\ w[1] = Mark(",")
    BY <1>4
  <2>2. (w \o u)[1] = Mark(",")
    BY <2>1, FirstOfWords
  <2> QED
    BY <1>3, <2>2
<1>20. Seq(W) \subseteq Seq(Words) /\ W \subseteq Words
  BY WiderElements
<1>7. ReadOneWay(CW)
  <2>1. ASSUME NEW p \in W, NEW q \in W, NEW u \in Words, NEW v \in Words,
               (CommaMark \o p) \o u = (CommaMark \o q) \o v
        PROVE  p = q
    <3>1. p \in Words /\ q \in Words /\ CommaMark \in Words
      BY <1>1, <1>20
    <3>2. (CommaMark \o p) \o u = CommaMark \o (p \o u) /\ (CommaMark \o q) \o v = CommaMark \o (q \o v)
      <4>1. Regroups(CommaMark, p, u) /\ Regroups(CommaMark, q, v)
        BY <3>1, WordsAssociate
      <4> QED
        BY ONLY <4>1 DEF Regroups
    <3>3. p \o u \in Words /\ q \o v \in Words
      BY <3>1, WordsJoin
    <3>4. p \o u = q \o v
      BY <2>1, <3>1, <3>2, <3>3, WordsCancel
    <3> QED
      BY ONLY <3>4, ReadOneWay(W), p \in W, q \in W, u \in Words, v \in Words DEF ReadOneWay
  <2>2. ASSUME NEW x \in CW, NEW y \in CW, NEW u \in Words, NEW v \in Words, x \o u = y \o v
        PROVE  x = y
    <3>1. PICK p \in W : x = CommaMark \o p
      OBVIOUS
    <3>2. PICK q \in W : y = CommaMark \o q
      OBVIOUS
    <3>3. (CommaMark \o p) \o u = (CommaMark \o q) \o v
      BY <2>2, <3>1, <3>2
    <3>4. p = q
      BY ONLY <2>1, <3>3
    <3> QED
      BY <3>1, <3>2, <3>4
  <2> HIDE DEF CW
  <2> QED
    BY <2>2 DEF ReadOneWay
<1>8. ASSUME NEW R \in Seq(W)
      PROVE  /\ Commaed(R) \in Seq(CW)
             /\ R # <<>> => CommaMark \o Listed(R) = Flattened(Symbols, Commaed(R))
  <2>1. Commaed(R) \in Seq(CW)
    <3>1. Len(R) \in Nat /\ DOMAIN R = 1 .. Len(R) /\ \A i \in 1 .. Len(R) : R[i] \in W
      BY SequenceIsFunction
    <3>2. Commaed(R) = [i \in 1 .. Len(R) |-> CommaMark \o R[i]]
      BY <3>1 DEF Commaed
    <3>3. \A i \in 1 .. Len(R) : CommaMark \o R[i] \in CW
      BY <3>1
    <3> HIDE DEF CW
    <3>4. Commaed(R) \in [1 .. Len(R) -> CW]
      BY <3>2, <3>3
    <3> QED
      BY <3>1, <3>4, FunctionIsSequence
  <2>2. ASSUME R # <<>> PROVE CommaMark \o Listed(R) = Flattened(Symbols, Commaed(R))
    <3>1. PICK p \in W, rest \in Seq(W) : R = <<p>> \o rest /\ Len(rest) = Len(R) - 1
      BY <2>2, FirstAndRest
    <3>2. p \in Words /\ rest \in Seq(Words)
      BY <1>20
    <3>3. /\ Commaed(rest) \in Seq(Words)
          /\ CommaMark \o p \in Words
          /\ Commaed(<<p>> \o rest) = <<CommaMark \o p>> \o Commaed(rest)
          /\ Listed(<<p>> \o rest) = p \o Flattened(Symbols, Commaed(rest))
      BY <3>2, CommaedBefore
    <3> DEFINE list == Flattened(Symbols, Commaed(rest))
    <3>4. list \in Words
      BY <3>3, WordsFlattened
    <3>5. Flattened(Symbols, <<CommaMark \o p>> \o Commaed(rest)) = (CommaMark \o p) \o list
      BY <3>3, WordsFlattened
    <3> HIDE DEF list
    <3>6. (CommaMark \o p) \o list = CommaMark \o (p \o list)
      <4>1. Regroups(CommaMark, p, list)
        BY <1>1, <3>2, <3>4, WordsAssociate
      <4> QED
        BY ONLY <4>1 DEF Regroups
    <3> QED
      BY <3>1, <3>3, <3>5, <3>6 DEF list
  <2> QED
    BY <2>1, <2>2
<1>9. ASSUME NEW R \in Seq(W), NEW a \in Words, NEW b \in Words, R # <<>>,
             Listed(R) \o (<<close>> \o a) = <<close>> \o b
      PROVE  FALSE
  <2>1. PICK p \in W, rest \in Seq(W) : R = <<p>> \o rest /\ Len(rest) = Len(R) - 1
    BY <1>9, FirstAndRest
  <2>2. p \in Words /\ rest \in Seq(Words)
    BY <1>20
  <2> DEFINE list == Flattened(Symbols, Commaed(rest))
             end == <<close>> \o a
  <2>3. Listed(R) = p \o list /\ list \in Words
    BY <2>1, <2>2, CommaedBefore, WordsFlattened
  <2>4. end \in Words
    BY <1>3
  <2> HIDE DEF list, end
  <2>5. (p \o list) \o end = p \o (list \o end) /\ list \o end \in Words
    <3>1. p \in Words /\ list \in Words /\ end \in Words
      BY <2>2, <2>3, <2>4
    <3>2. (p \o list) \o end = p \o (list \o end)
      <4>1. Regroups(p, list, end)
        BY <3>1, WordsAssociate
      <4> QED
        BY ONLY <4>1 DEF Regroups
    <3>3. list \o end \in Words
      BY <3>1, WordsJoin
    <3> QED
      BY <3>2, <3>3
  <2>6. (p \o (list \o end))[1] = p[1]
    BY <2>2, <2>5, FirstOfWords
  <2>7. p[1] = close
    BY <1>3, <1>9, <2>3, <2>5, <2>6 DEF end
  <2> QED
    BY <2>7
<1>10. Listed(P) \in Words /\ Listed(Q) \in Words /\ Listed(<<>>) = <<>>
  BY <1>20, ListedTyped
<1>11. CASE P = <<>>
  <2>1. <<>> \o (<<close>> \o s) = <<close>> \o s
    BY <1>3, NoWord
  <2>2. Listed(Q) \o (<<close>> \o t) = <<close>> \o s
    BY <1>10, <1>11, <2>1
  <2> QED
    BY <1>9, <1>11, <2>2
<1>12. CASE Q = <<>>
  <2>1. <<>> \o (<<close>> \o t) = <<close>> \o t
    BY <1>3, NoWord
  <2>2. Listed(P) \o (<<close>> \o s) = <<close>> \o t
    BY <1>10, <1>12, <2>1
  <2> QED
    BY <1>9, <1>12, <2>2
<1>13. CASE P # <<>> /\ Q # <<>>
  <2> DEFINE e == <<close>> \o s
             f == <<close>> \o t
             LP == Listed(P)
             LQ == Listed(Q)
  <2>1. e \in Ends /\ f \in Ends /\ e \in Words /\ f \in Words /\ LP \in Words /\ LQ \in Words /\ LP \o e = LQ \o f
    BY <1>3, <1>10
  <2>2. CommaMark \o LP = Flattened(Symbols, Commaed(P)) /\ CommaMark \o LQ = Flattened(Symbols, Commaed(Q))
        /\ Commaed(P) \in Seq(CW) /\ Commaed(Q) \in Seq(CW)
    BY <1>8, <1>13
  <2> HIDE DEF e, f, LP, LQ, CW, Ends
  <2>3. (CommaMark \o LP) \o e = CommaMark \o (LP \o e) /\ (CommaMark \o LQ) \o f = CommaMark \o (LQ \o f)
    <3>1. Regroups(CommaMark, LP, e) /\ Regroups(CommaMark, LQ, f)
      BY <1>1, <2>1, WordsAssociate
    <3> QED
      BY ONLY <3>1 DEF Regroups
  <2>4. Commaed(P) = Commaed(Q)
    <3>1. Flattened(Symbols, Commaed(P)) \o e = Flattened(Symbols, Commaed(Q)) \o f
      BY <2>1, <2>2, <2>3
    <3>2. CW \subseteq Words /\ ReadOneWay(CW) /\ Ends \subseteq Words /\ NoneLike(CW, Ends)
      BY <1>5, <1>6, <1>7 DEF CW, Ends, NoneLike
    <3>5. ListsRead(CW, Symbols, Ends)
      BY <3>2, WordListsAreRead
    <3> DEFINE CP == Commaed(P)
               CQ == Commaed(Q)
    <3>3. CP \in Seq(CW) /\ CQ \in Seq(CW) /\ Flattened(Symbols, CP) \o e = Flattened(Symbols, CQ) \o f
      BY <2>2, <3>1
    <3> HIDE DEF CP, CQ
    <3>4. CP = CQ
      BY ONLY <2>1, <3>3, <3>5 DEF ListsRead
    <3> QED
      BY <3>4 DEF CP, CQ
  <2>5. Len(P) = Len(Q) /\ Len(P) \in Nat /\ DOMAIN P = 1 .. Len(P) /\ DOMAIN Q = 1 .. Len(P)
    <3>1. DOMAIN Commaed(P) = DOMAIN P /\ DOMAIN Commaed(Q) = DOMAIN Q
      BY DEF Commaed
    <3>2. DOMAIN P = 1 .. Len(P) /\ DOMAIN Q = 1 .. Len(Q) /\ Len(P) \in Nat /\ Len(Q) \in Nat
      BY LenProperties
    <3>3. 1 .. Len(P) = 1 .. Len(Q)
      BY ONLY <2>4, <3>1, <3>2, Zenon
    <3>4. Len(P) = Len(Q)
      BY <3>2, <3>3, SameDomain
    <3> QED
      BY <3>2, <3>4
  <2>6. ASSUME NEW i \in 1 .. Len(P) PROVE P[i] = Q[i]
    <3>1. CommaMark \o P[i] = CommaMark \o Q[i]
      BY <2>4, <2>5 DEF Commaed
    <3>2. P[i] \in Words /\ Q[i] \in Words
      <4>1. i \in 1 .. Len(P) /\ i \in 1 .. Len(Q) /\ P \in Seq(Words) /\ Q \in Seq(Words)
        BY <1>20, <2>5
      <4> QED
        BY <4>1, ElementOfSeq
    <3> QED
      BY <1>1, <3>1, <3>2, WordsCancel
  <2> QED
    BY <2>5, <2>6, SeqEqual
<1> QED
  BY <1>11, <1>12, <1>13

(* No word of W is the mark that closes the list, or begins with it.       *)
NoneOpens(W, close) == \A w \in W : w # <<>> /\ w[1] # close

ListedOnce(W, close) ==
  \A P, Q \in Seq(W) : \A s, t \in Words :
    Listed(P) \o (<<close>> \o s) = Listed(Q) \o (<<close>> \o t) => P = Q

(* A list can be read in one way if each of its pieces can, and none       *)
(* begins like what closes the list.                                       *)
LEMMA ListsAreReadOnce ==
  ASSUME NEW W, W \subseteq Words, ReadOneWay(W), NEW close \in Symbols,
         close # Mark(","), NoneOpens(W, close)
  PROVE  ListedOnce(W, close)
<1>1. W \in SUBSET Words /\ \A w \in W : w # <<>> /\ w[1] # close
  BY DEF NoneOpens
<1>2. \A P, Q \in Seq(W) : \A s, t \in Words :
        Listed(P) \o (<<close>> \o s) = Listed(Q) \o (<<close>> \o t) => P = Q
  BY <1>1, ListedIsRead
<1> QED
  BY ONLY <1>2 DEF ListedOnce

-----------------------------------------------------------------------------
(* The kinds of values.                                                    *)

IsNull(v) == v = Null
IsNumber(v) == v.is = "number" /\ v.n \in Nat /\ v = Number(v.n)
IsText(v) == v.is = "string" /\ v.parts \in Seq(Seq(Letters)) /\ v = JoinedText(v.parts)
IsArray(v, B) == v.is = "array" /\ v.items \in Seq(B) /\ v = Array(v.items)
IsObject(v, B) == v.is = "object" /\ v.fields \in FieldsOver(B) /\ v = Object(v.fields)

(* Every value is of one of the kinds.                                     *)
LEMMA LevelCases ==
  ASSUME NEW B, NEW v \in Level(B)
  PROVE  IsNull(v) \/ IsNumber(v) \/ IsText(v) \/ IsArray(v, B) \/ IsObject(v, B)
<1> DEFINE T == Seq(Seq(Letters))
           A == Seq(B)
           F == FieldsOver(B)
<1>1. \/ v = Null
      \/ v \in [is : {"number"}, n : Nat]
      \/ v \in [is : {"string"}, parts : T]
      \/ v \in [is : {"array"}, items : A]
      \/ v \in [is : {"object"}, fields : F]
  BY DEF Level, Leaves
<1> HIDE DEF T, A, F
<1>2. \/ v = Null
      \/ v.is = "number" /\ v.n \in Nat /\ v = Number(v.n)
      \/ v.is = "string" /\ v.parts \in T /\ v = JoinedText(v.parts)
      \/ v.is = "array" /\ v.items \in A /\ v = Array(v.items)
      \/ v.is = "object" /\ v.fields \in F /\ v = Object(v.fields)
  BY <1>1 DEF Number, JoinedText, Array, Object
<1> QED
  BY <1>2 DEF T, A, F, IsNull, IsNumber, IsText, IsArray, IsObject

(* Each kind of value is a value.                                          *)
LEMMA KindsAreValues ==
  ASSUME NEW B
  PROVE  /\ Null \in Level(B)
         /\ \A n \in Nat : Number(n) \in Level(B)
         /\ \A parts \in Seq(Seq(Letters)) : JoinedText(parts) \in Level(B)
         /\ \A items \in Seq(B) : Array(items) \in Level(B)
         /\ \A fields \in FieldsOver(B) : Object(fields) \in Level(B)
<1> DEFINE T == Seq(Seq(Letters))
           A == Seq(B)
           F == FieldsOver(B)
<1> HIDE DEF T, A, F
<1>1. Level(B) = {Null} \cup [is : {"number"}, n : Nat] \cup [is : {"string"}, parts : T]
                 \cup [is : {"array"}, items : A] \cup [is : {"object"}, fields : F]
  BY DEF Level, Leaves, T, A, F
<1>2. /\ Null \in Level(B)
      /\ \A n \in Nat : Number(n) \in Level(B)
      /\ \A parts \in T : JoinedText(parts) \in Level(B)
      /\ \A items \in A : Array(items) \in Level(B)
      /\ \A fields \in F : Object(fields) \in Level(B)
  BY <1>1 DEF Number, JoinedText, Array, Object
<1> QED
  BY <1>2 DEF T, A, F

(* The fields of an object by their keys.                                  *)
LEMMA FieldsAreValues ==
  ASSUME NEW B, NEW v, IsObject(v, B)
  PROVE  /\ Len(v.fields) \in Nat /\ DOMAIN v.fields = 1 .. Len(v.fields)
         /\ \A i \in DOMAIN v.fields : /\ v.fields[i].key \in Keys
                                       /\ v.fields[i].value \in B
                                       /\ v.fields[i] = Field(v.fields[i].key, v.fields[i].value)
         /\ \A i, j \in DOMAIN v.fields : v.fields[i].key = v.fields[j].key => i = j
<1> DEFINE R == [key : Keys, value : B]
           f == v.fields
<1>1. f \in Seq(R) /\ \A i, j \in DOMAIN f : f[i].key = f[j].key => i = j
  BY DEF IsObject, FieldsOver
<1>2. \A r \in R : r.key \in Keys /\ r.value \in B /\ r = Field(r.key, r.value)
  BY DEF Field
<1> HIDE DEF R, f
<1>3. Len(f) \in Nat /\ DOMAIN f = 1 .. Len(f) /\ \A i \in 1 .. Len(f) : f[i] \in R
  BY <1>1, SequenceIsFunction
<1> QED
  BY <1>1, <1>2, <1>3 DEF f

(* A key leads to its one field.                                           *)
LEMMA ValuesByKey ==
  ASSUME NEW B, NEW v, IsObject(v, B)
  PROVE  /\ KeysOf(v) \subseteq Keys
         /\ \A i \in DOMAIN v.fields : /\ v.fields[i].key \in KeysOf(v)
                                       /\ ValueOf(v, v.fields[i].key) = v.fields[i].value
         /\ \A key \in KeysOf(v) : /\ ValueOf(v, key) \in B
                                   /\ \E i \in DOMAIN v.fields : v.fields[i] = Field(key, ValueOf(v, key))
<1> DEFINE f == v.fields
<1>1. /\ \A i \in DOMAIN f : f[i].key \in Keys /\ f[i].value \in B /\ f[i] = Field(f[i].key, f[i].value)
      /\ \A i, j \in DOMAIN f : f[i].key = f[j].key => i = j
  BY FieldsAreValues
<1>2. KeysOf(v) = {f[i].key : i \in DOMAIN f}
  BY DEF KeysOf
<1>3. \A key : ValueOf(v, key) = f[CHOOSE i \in DOMAIN f : f[i].key = key].value
  BY DEF ValueOf
<1> HIDE DEF f
<1>4. ASSUME NEW i \in DOMAIN f PROVE ValueOf(v, f[i].key) = f[i].value
  <2> DEFINE j == CHOOSE k \in DOMAIN f : f[k].key = f[i].key
  <2>1. j \in DOMAIN f /\ f[j].key = f[i].key
    OBVIOUS
  <2>2. ValueOf(v, f[i].key) = f[j].value
    BY <1>3
  <2> HIDE DEF j
  <2> QED
    BY <1>1, <2>1, <2>2
<1>5. ASSUME NEW key \in KeysOf(v)
      PROVE  ValueOf(v, key) \in B /\ \E i \in DOMAIN f : f[i] = Field(key, ValueOf(v, key))
  <2>1. PICK i \in DOMAIN f : f[i].key = key
    BY <1>2
  <2> QED
    BY <1>1, <1>4, <2>1
<1> QED
  BY <1>1, <1>2, <1>4, <1>5 DEF f

(* The keys in their order.                                                *)
LEMMA KeysInOrderAre ==
  ASSUME NEW v, KeysOf(v) \subseteq Keys
  PROVE  /\ KeysInOrder(v) \in Seq(Keys)
         /\ Elements(KeysInOrder(v)) = KeysOf(v)
         /\ OccursOnce(KeysInOrder(v))
<1> DEFINE omitted == Keys \ KeysOf(v)
<1>1. KeyOrder \in Seq(Keys) /\ OccursOnce(KeyOrder)
  BY CanonicalAssumption DEF OccursOnce
<1>2. Elements(KeyOrder) = Keys
  BY DEF Elements, Keys
<1>3. KeysInOrder(v) = Dropping(Keys, KeyOrder, omitted)
  BY DEF KeysInOrder
<1>4. Elements(KeyOrder) \ omitted = KeysOf(v)
  BY <1>2
<1> HIDE DEF omitted
<1>5. /\ Dropping(Keys, KeyOrder, omitted) \in Seq(Keys)
      /\ Elements(Dropping(Keys, KeyOrder, omitted)) = Elements(KeyOrder) \ omitted
      /\ OccursOnce(KeyOrder) => OccursOnce(Dropping(Keys, KeyOrder, omitted))
  BY <1>1, DroppingLeaves
<1> QED
  BY <1>1, <1>3, <1>4, <1>5

-----------------------------------------------------------------------------
(* What is emitted is read in one way.                                     *)

LEMMA WordsIndexed ==
  ASSUME NEW s \in Words, NEW t \in Words
  PROVE  /\ s \o t \in Words /\ Len(s \o t) = Len(s) + Len(t)
         /\ \A i \in 1 .. Len(s) : (s \o t)[i] = s[i]
         /\ \A i \in 1 .. Len(t) : (s \o t)[Len(s) + i] = t[i]
<1>1. s \in Seq(Symbols) /\ t \in Seq(Symbols)
  BY DEF Words
<1>2. s \o t \in Seq(Symbols) /\ Len(s \o t) = Len(s) + Len(t)
  BY <1>1, ConcatFacts
<1>3. /\ \A i \in 1 .. Len(s) : (s \o t)[i] = s[i]
      /\ \A i \in 1 .. Len(t) : (s \o t)[Len(s) + i] = t[i]
  BY <1>1, ConcatAt
<1> QED
  BY <1>2, <1>3 DEF Words

(* What a quoted text is, symbol by symbol.                                *)
LEMMA QuotedAt ==
  ASSUME NEW text \in Seq(Letters)
  PROVE  /\ Quoted(text) \in Words /\ Quoted(text) # <<>>
         /\ Len(Quoted(text)) = Len(text) + 2
         /\ Quoted(text)[1] = Mark("quote")
         /\ \A i \in 1 .. Len(text) : Quoted(text)[1 + i] = <<"letter", text[i]>>
         /\ Quoted(text)[Len(text) + 2] = Mark("quote")
<1> DEFINE n == Len(text)
           quote == <<Mark("quote")>>
           letters == [i \in DOMAIN text |-> <<"letter", text[i]>>]
           opened == quote \o letters
<1>1. n \in Nat /\ DOMAIN text = 1 .. n /\ \A i \in 1 .. n : text[i] \in Letters
  BY SequenceIsFunction
<1>2. quote \in Words /\ Len(quote) = 1 /\ quote[1] = Mark("quote") /\ quote # <<>>
  BY MarksAreSymbols, OneSymbol
<1>3. letters \in Words /\ Len(letters) = n /\ \A i \in 1 .. n : letters[i] = <<"letter", text[i]>>
  <2>1. \A i \in 1 .. n : <<"letter", text[i]>> \in Symbols
    BY <1>1 DEF Symbols
  <2>2. letters \in [1 .. n -> Symbols] /\ \A i \in 1 .. n : letters[i] = <<"letter", text[i]>>
    BY <1>1, <2>1
  <2> HIDE DEF letters, n
  <2>3. letters \in Seq(Symbols) /\ Len(letters) = n
    BY <1>1, <2>2, FunctionIsSequence
  <2> QED
    BY <2>2, <2>3 DEF Words
<1>4. Quoted(text) = opened \o quote
  BY DEF Quoted
<1> HIDE DEF n, quote, letters
<1>5. /\ opened \in Words /\ Len(opened) = Len(quote) + Len(letters)
      /\ \A i \in 1 .. Len(quote) : opened[i] = quote[i]
      /\ \A i \in 1 .. Len(letters) : opened[Len(quote) + i] = letters[i]
  <2>1. quote \in Words /\ letters \in Words
    BY <1>2, <1>3
  <2> QED
    BY <2>1, WordsIndexed
<1>6. Len(opened) = n + 1
  BY <1>1, <1>2, <1>3, <1>5
<1> HIDE DEF opened
<1>7. /\ opened \o quote \in Words /\ Len(opened \o quote) = Len(opened) + Len(quote)
      /\ \A i \in 1 .. Len(opened) : (opened \o quote)[i] = opened[i]
      /\ \A i \in 1 .. Len(quote) : (opened \o quote)[Len(opened) + i] = quote[i]
  <2>1. quote \in Words /\ opened \in Words
    BY <1>2, <1>5
  <2> QED
    BY <2>1, WordsIndexed
<1>8. Len(Quoted(text)) = n + 2
  BY <1>1, <1>2, <1>4, <1>6, <1>7
<1>9. Quoted(text)[1] = Mark("quote")
  <2>1. 1 \in 1 .. Len(opened) /\ 1 \in 1 .. Len(quote)
    BY <1>1, <1>2, <1>6
  <2> QED
    BY <1>2, <1>4, <1>5, <1>7, <2>1
<1>10. ASSUME NEW i \in 1 .. n PROVE Quoted(text)[1 + i] = <<"letter", text[i]>>
  <2>1. 1 + i \in 1 .. Len(opened) /\ i \in 1 .. Len(letters)
    BY <1>1, <1>3, <1>6
  <2>2. opened[1 + i] = letters[i]
    BY <1>2, <1>5, <2>1
  <2> QED
    BY <1>3, <1>4, <1>7, <2>1, <2>2
<1>11. Quoted(text)[n + 2] = Mark("quote")
  <2>1. 1 \in 1 .. Len(quote) /\ Len(opened) + 1 = n + 2
    BY <1>1, <1>2, <1>6
  <2> QED
    BY <1>2, <1>4, <1>7, <2>1
<1>12. Quoted(text) # <<>>
  <2>1. Len(Quoted(text)) # 0
    BY <1>1, <1>8
  <2> QED
    BY <2>1
<1> QED
  BY <1>4, <1>7, <1>8, <1>9, <1>10, <1>11, <1>12 DEF n

(* A quoted text ends at its second quote: of two that begin alike,        *)
(* neither is the longer.                                                  *)
LEMMA QuotedIsNotLonger ==
  ASSUME NEW a \in Seq(Letters), NEW b \in Seq(Letters), NEW s \in Words, NEW t \in Words,
         Quoted(a) \o s = Quoted(b) \o t
  PROVE  Len(b) <= Len(a) /\ (Len(a) = Len(b) => a = b)
<1> DEFINE n == Len(a)
           m == Len(b)
           whole == Quoted(a) \o s
<1>1. n \in Nat /\ m \in Nat
  BY LenProperties
<1>2. /\ Quoted(a) \in Words /\ Len(Quoted(a)) = n + 2
      /\ \A i \in 1 .. n : Quoted(a)[1 + i] = <<"letter", a[i]>>
      /\ Quoted(a)[n + 2] = Mark("quote")
  BY QuotedAt
<1>3. /\ Quoted(b) \in Words /\ Len(Quoted(b)) = m + 2
      /\ \A i \in 1 .. m : Quoted(b)[1 + i] = <<"letter", b[i]>>
  BY QuotedAt
<1>4. \A i \in 1 .. n + 2 : whole[i] = Quoted(a)[i]
  BY <1>2, ConcatAt DEF Words
<1>5. \A i \in 1 .. m + 2 : whole[i] = Quoted(b)[i]
  <2>1. \A i \in 1 .. Len(Quoted(b)) : (Quoted(b) \o t)[i] = Quoted(b)[i]
    BY <1>3, ConcatAt DEF Words
  <2> QED
    BY <1>3, <2>1
<1> HIDE DEF n, m, whole
<1>6. m <= n
  <2> SUFFICES ASSUME ~(m <= n) PROVE FALSE
    OBVIOUS
  <2>1. n + 1 \in 1 .. m /\ n + 2 \in 1 .. m + 2 /\ n + 2 \in 1 .. n + 2 /\ n + 2 = 1 + (n + 1)
    BY <1>1
  <2>2. whole[n + 2] = Mark("quote")
    BY <1>2, <1>4, <2>1
  <2>3. whole[n + 2] = <<"letter", b[n + 1]>>
    BY <1>3, <1>5, <2>1
  <2>4. <<"letter", b[n + 1]>>[1] # Mark("quote")[1]
    BY DEF Mark
  <2> QED
    BY <2>2, <2>3, <2>4
<1>7. ASSUME n = m PROVE a = b
  <2>1. ASSUME NEW i \in 1 .. n PROVE a[i] = b[i]
    <3>1. i \in 1 .. m /\ 1 + i \in 1 .. n + 2 /\ 1 + i \in 1 .. m + 2
      BY <1>1, <1>7
    <3>2. <<"letter", a[i]>> = <<"letter", b[i]>>
      BY <1>2, <1>3, <1>4, <1>5, <3>1
    <3> QED
      BY <3>2
  <2> QED
    BY <1>7, <2>1, SeqEqual DEF n, m
<1> QED
  BY <1>6, <1>7 DEF n, m

(* Where a quoted text ends is told by its second quote.                   *)
LEMMA QuotedIsRead ==
  ASSUME NEW a \in Seq(Letters), NEW b \in Seq(Letters), NEW s \in Words, NEW t \in Words,
         Quoted(a) \o s = Quoted(b) \o t
  PROVE  a = b
<1>1. Len(b) <= Len(a) /\ (Len(a) = Len(b) => a = b)
  BY QuotedIsNotLonger
<1>2. Len(a) <= Len(b)
  BY QuotedIsNotLonger
<1>3. Len(a) \in Nat /\ Len(b) \in Nat
  BY LenProperties
<1> QED
  BY <1>1, <1>2, <1>3

(* What E gives for the values of B can be read.                           *)
Readable(E, B) ==
  /\ \A v \in B : E[v] \in Words /\ E[v] # <<>> /\ E[v][1] # Mark("]")
  /\ \A v, w \in B : \A s, t \in Words : E[v] \o s = E[w] \o t => E[v] = E[w]

ItemWords(E, B) == {E[v] : v \in B}

FieldWords(E, B) == {Named(key) \o E[v] : key \in Keys, v \in B}

(* What is emitted of items can be listed and read again.                  *)
LEMMA ItemWordsAreRead ==
  ASSUME NEW B, NEW E, Readable(E, B)
  PROVE  /\ ItemWords(E, B) \subseteq Words
         /\ ReadOneWay(ItemWords(E, B))
         /\ NoneOpens(ItemWords(E, B), Mark("]"))
         /\ ListedOnce(ItemWords(E, B), Mark("]"))
<1> DEFINE W == ItemWords(E, B)
<1>1. W \subseteq Words
  BY DEF ItemWords, Readable
<1>2. ReadOneWay(W)
  <2> SUFFICES ASSUME NEW x \in W, NEW y \in W, NEW s \in Words, NEW t \in Words, x \o s = y \o t
               PROVE  x = y
    BY DEF ReadOneWay
  <2>1. PICK v \in B : x = E[v]
    BY DEF ItemWords
  <2>2. PICK w \in B : y = E[w]
    BY DEF ItemWords
  <2>3. E[v] \o s = E[w] \o t
    BY <2>1, <2>2
  <2> QED
    BY <2>1, <2>2, <2>3 DEF Readable
<1>3. NoneOpens(W, Mark("]"))
  BY DEF ItemWords, Readable, NoneOpens
<1>4. Mark("]") \in Symbols /\ Mark("]") # Mark(",")
  BY MarksAreSymbols DEF Mark
<1> HIDE DEF W
<1>5. ListedOnce(W, Mark("]"))
  BY <1>1, <1>2, <1>3, <1>4, ListsAreReadOnce
<1> QED
  BY <1>1, <1>2, <1>3, <1>5 DEF W

LEMMA NamedIs ==
  ASSUME NEW key \in Keys
  PROVE  /\ Named(key) \in Words /\ Len(Named(key)) = 4 /\ Named(key) # <<>>
         /\ Named(key)[1] = Mark("quote") /\ Named(key)[2] = <<"key", key>>
<1>1. Mark("quote") \in Symbols /\ Mark(":") \in Symbols /\ <<"key", key>> \in Symbols
  BY DEF Symbols
<1> HIDE DEF Mark, Symbols
<1>2. Named(key) \in Seq(Symbols)
  BY <1>1 DEF Named
<1> QED
  BY <1>2 DEF Named, Words

(* A name tells its key, and where the value begins.                       *)
LEMMA NamesAreRead ==
  ASSUME NEW key \in Keys, NEW other \in Keys, NEW s \in Words, NEW t \in Words,
         Named(key) \o s = Named(other) \o t
  PROVE  key = other /\ s = t
<1>1. /\ Named(key) \in Words /\ Len(Named(key)) = 4 /\ Named(key)[2] = <<"key", key>>
      /\ Named(other) \in Words /\ Len(Named(other)) = 4 /\ Named(other)[2] = <<"key", other>>
  BY NamedIs
<1>2. (Named(key) \o s)[2] = Named(key)[2]
  <2>1. \A i \in 1 .. Len(Named(key)) : (Named(key) \o s)[i] = Named(key)[i]
    BY <1>1, WordsIndexed
  <2>2. 2 \in 1 .. Len(Named(key))
    BY <1>1
  <2> QED
    BY <2>1, <2>2
<1>3. (Named(other) \o t)[2] = Named(other)[2]
  <2>1. \A i \in 1 .. Len(Named(other)) : (Named(other) \o t)[i] = Named(other)[i]
    BY <1>1, WordsIndexed
  <2>2. 2 \in 1 .. Len(Named(other))
    BY <1>1
  <2> QED
    BY <2>1, <2>2
<1>4. <<"key", key>> = <<"key", other>>
  BY <1>1, <1>2, <1>3
<1>5. key = other
  BY <1>4
<1>6. s = t
  BY <1>1, <1>5, WordsCancel
<1> QED
  BY <1>5, <1>6

LEMMA FieldWord ==
  ASSUME NEW B, NEW E, NEW word
  PROVE  word \in FieldWords(E, B) <=> \E key \in Keys : \E v \in B : word = Named(key) \o E[v]
BY DEF FieldWords

(* What is emitted of fields can be listed and read again.                 *)
LEMMA FieldWordsAreRead ==
  ASSUME NEW B, NEW E, Readable(E, B)
  PROVE  /\ FieldWords(E, B) \subseteq Words
         /\ ReadOneWay(FieldWords(E, B))
         /\ NoneOpens(FieldWords(E, B), Mark("}"))
         /\ ListedOnce(FieldWords(E, B), Mark("}"))
<1> DEFINE W == FieldWords(E, B)
<1>1. ASSUME NEW key \in Keys, NEW v \in B
      PROVE  /\ Named(key) \o E[v] \in Words /\ Named(key) \o E[v] # <<>>
             /\ (Named(key) \o E[v])[1] = Mark("quote")
  <2>1. Named(key) \in Words /\ E[v] \in Words /\ Named(key) # <<>> /\ Named(key)[1] = Mark("quote")
    BY NamedIs DEF Readable
  <2>2. Named(key) \o E[v] \in Words
    BY <2>1, WordsJoin
  <2>3. (Named(key) \o E[v])[1] = Named(key)[1] /\ Named(key) \o E[v] # <<>>
    BY <2>1, FirstOfWords
  <2> QED
    BY <2>1, <2>2, <2>3
<1>8. \A x \in W : \E key \in Keys : \E v \in B : x = Named(key) \o E[v]
  BY FieldWord
<1>2. W \subseteq Words
  BY <1>1, <1>8
<1>3. Mark("}") \in Symbols /\ Mark("}") # Mark(",") /\ Mark("quote") # Mark("}")
  BY MarksAreSymbols DEF Mark
<1>4. NoneOpens(W, Mark("}"))
  <2> HIDE DEF W
  <2> QED
    BY <1>1, <1>3, <1>8 DEF NoneOpens
<1>6. ReadOneWay(W)
  <2> SUFFICES ASSUME NEW x \in W, NEW y \in W, NEW s \in Words, NEW t \in Words, x \o s = y \o t
               PROVE  x = y
    BY DEF ReadOneWay
  <2>1. PICK key \in Keys, v \in B : x = Named(key) \o E[v]
    BY <1>8
  <2>2. PICK other \in Keys, w \in B : y = Named(other) \o E[w]
    BY <1>8
  <2> DEFINE vs == E[v] \o s
             wt == E[w] \o t
  <2>3. Named(key) \in Words /\ E[v] \in Words /\ Named(other) \in Words /\ E[w] \in Words
    BY NamedIs DEF Readable
  <2>4. x \o s = Named(key) \o vs
    <3>1. Regroups(Named(key), E[v], s)
      BY <2>3, WordsAssociate
    <3>2. (Named(key) \o E[v]) \o s = Named(key) \o (E[v] \o s)
      BY ONLY <3>1 DEF Regroups
    <3> QED
      BY ONLY <2>1, <3>2, Zenon
  <2>5. y \o t = Named(other) \o wt
    <3>1. Regroups(Named(other), E[w], t)
      BY <2>3, WordsAssociate
    <3>2. (Named(other) \o E[w]) \o t = Named(other) \o (E[w] \o t)
      BY ONLY <3>1 DEF Regroups
    <3> QED
      BY ONLY <2>2, <3>2, Zenon
  <2>6. vs \in Words /\ wt \in Words
    BY <2>3, WordsJoin
  <2>7. key = other /\ vs = wt
    <3>1. Named(key) \o vs = Named(other) \o wt
      BY <2>4, <2>5
    <3>2. vs \in Words
      BY <2>6
    <3>3. wt \in Words
      BY <2>6
    <3> HIDE DEF vs, wt
    <3>4. key = other
      BY ONLY <3>1, <3>2, <3>3, NamesAreRead
    <3>5. vs = wt
      <4>1. Named(key) \in Words /\ Named(key) \o vs = Named(key) \o wt
        BY <2>3, <3>1, <3>4
      <4> QED
        BY <3>2, <3>3, <4>1, WordsCancel
    <3> QED
      BY <3>4, <3>5
  <2>8. E[v] = E[w]
    BY <2>7 DEF Readable
  <2> QED
    BY <2>1, <2>2, <2>7, <2>8
<1> HIDE DEF W
<1>7. ListedOnce(W, Mark("}"))
  BY <1>2, <1>3, <1>4, <1>6, ListsAreReadOnce
<1> QED
  BY <1>2, <1>4, <1>6, <1>7 DEF W

-----------------------------------------------------------------------------
(* The pieces that are listed.                                             *)

ItemPieces(E, v) == [i \in DOMAIN v.items |-> E[v.items[i]]]

FieldPieces(E, v) ==
  [i \in DOMAIN KeysInOrder(v) |-> Named(KeysInOrder(v)[i]) \o E[ValueOf(v, KeysInOrder(v)[i])]]

Enclosed(open, pieces, close) == <<Mark(open)>> \o Listed(pieces) \o <<Mark(close)>>

(* What is emitted of a value, by its kind.                                *)
LEMMA EmissionIs ==
  ASSUME NEW E, NEW v
  PROVE  /\ v.is = "string" => Emission(E, v) = Quoted(Text(v))
         /\ v = Null => Emission(E, v) = <<Mark("null")>>
         /\ v.is = "number" => Emission(E, v) = <<<<"number", v.n>>>>
         /\ v.is = "array" => Emission(E, v) = Enclosed("[", ItemPieces(E, v), "]")
         /\ v.is = "object" => Emission(E, v) = Enclosed("{", FieldPieces(E, v), "}")
<1>1. v.is = "string" => Emission(E, v) = Quoted(Text(v))
  BY DEF Emission
<1>2. v = Null => Emission(E, v) = <<Mark("null")>>
  BY DEF Emission, Null
<1>3. v.is = "number" => Emission(E, v) = <<<<"number", v.n>>>>
  BY DEF Emission
<1>4. v.is = "array" => Emission(E, v) = Enclosed("[", ItemPieces(E, v), "]")
  BY DEF Emission, Enclosed, ItemPieces
<1>5. v.is = "object" => Emission(E, v) = Enclosed("{", FieldPieces(E, v), "}")
  BY DEF Emission, Enclosed, FieldPieces
<1> QED
  BY <1>1, <1>2, <1>3, <1>4, <1>5

ItemPiecesRight(E, B, v) ==
  /\ ItemPieces(E, v) \in Seq(ItemWords(E, B))
  /\ Len(ItemPieces(E, v)) = Len(v.items) /\ Len(v.items) \in Nat
  /\ \A i \in 1 .. Len(v.items) : v.items[i] \in B /\ ItemPieces(E, v)[i] = E[v.items[i]]

LEMMA ItemPiecesTyped ==
  ASSUME NEW B, NEW E, NEW v, IsArray(v, B)
  PROVE  ItemPiecesRight(E, B, v)
<1> DEFINE n == Len(v.items)
           W == ItemWords(E, B)
<1>1. n \in Nat /\ DOMAIN v.items = 1 .. n /\ \A i \in 1 .. n : v.items[i] \in B
  BY SequenceIsFunction DEF IsArray
<1>2. \A i \in 1 .. n : E[v.items[i]] \in W
  BY <1>1 DEF ItemWords
<1> HIDE DEF n, W
<1>3. ItemPieces(E, v) \in [1 .. n -> W] /\ \A i \in 1 .. n : ItemPieces(E, v)[i] = E[v.items[i]]
  BY <1>1, <1>2 DEF ItemPieces
<1>4. ItemPieces(E, v) \in Seq(W) /\ Len(ItemPieces(E, v)) = n
  BY <1>1, <1>3, FunctionIsSequence
<1> QED
  BY <1>1, <1>3, <1>4 DEF n, W, ItemPiecesRight

FieldPiecesRight(E, B, v) ==
  /\ FieldPieces(E, v) \in Seq(FieldWords(E, B))
  /\ Len(FieldPieces(E, v)) = Len(KeysInOrder(v)) /\ Len(KeysInOrder(v)) \in Nat
  /\ \A i \in 1 .. Len(KeysInOrder(v)) :
       /\ KeysInOrder(v)[i] \in KeysOf(v)
       /\ KeysInOrder(v)[i] \in Keys
       /\ ValueOf(v, KeysInOrder(v)[i]) \in B
       /\ FieldPieces(E, v)[i] = Named(KeysInOrder(v)[i]) \o E[ValueOf(v, KeysInOrder(v)[i])]

LEMMA FieldPiecesTyped ==
  ASSUME NEW B, NEW E, NEW v, IsObject(v, B)
  PROVE  FieldPiecesRight(E, B, v)
<1> DEFINE keys == KeysInOrder(v)
           n == Len(keys)
           W == FieldWords(E, B)
<1>1. KeysOf(v) \subseteq Keys /\ \A key \in KeysOf(v) : ValueOf(v, key) \in B
  BY ValuesByKey
<1>2. keys \in Seq(Keys) /\ Elements(keys) = KeysOf(v)
  BY <1>1, KeysInOrderAre
<1>3. n \in Nat /\ DOMAIN keys = 1 .. n /\ \A i \in 1 .. n : keys[i] \in Keys
  BY <1>2, SequenceIsFunction
<1>4. \A i \in 1 .. n : keys[i] \in KeysOf(v)
  BY <1>2, <1>3 DEF Elements
<1>5. \A i \in 1 .. n : Named(keys[i]) \o E[ValueOf(v, keys[i])] \in W
  BY <1>1, <1>3, <1>4 DEF FieldWords
<1>6. FieldPieces(E, v) = [i \in 1 .. n |-> Named(keys[i]) \o E[ValueOf(v, keys[i])]]
  BY <1>3 DEF FieldPieces
<1> HIDE DEF n, keys, W
<1>7. FieldPieces(E, v) \in Seq(W) /\ Len(FieldPieces(E, v)) = n
  <2>1. FieldPieces(E, v) \in [1 .. n -> W]
    BY <1>5, <1>6
  <2> QED
    BY <1>3, <2>1, FunctionIsSequence
<1> QED
  BY <1>1, <1>3, <1>4, <1>6, <1>7 DEF n, keys, W, FieldPiecesRight

LEMMA EnclosedTyped ==
  ASSUME NEW open \in {"[", "{"}, NEW close \in {"]", "}"}, NEW P \in Seq(Words)
  PROVE  /\ Enclosed(open, P, close) \in Words /\ Enclosed(open, P, close) # <<>>
         /\ Enclosed(open, P, close)[1] = Mark(open)
<1> DEFINE o == <<Mark(open)>>
           c == <<Mark(close)>>
           l == Listed(P)
           ol == o \o l
<1>1. o \in Words /\ o # <<>> /\ o[1] = Mark(open) /\ c \in Words
  BY MarksAreSymbols, OneSymbol
<1>2. l \in Words
  BY ListedTyped DEF Words
<1>3. Enclosed(open, P, close) = ol \o c
  BY DEF Enclosed
<1> HIDE DEF o, c, l
<1>4. ol \in Words /\ ol # <<>> /\ ol[1] = Mark(open)
  BY <1>1, <1>2, WordsJoin, FirstOfWords
<1> HIDE DEF ol
<1>5. ol \o c \in Words /\ ol \o c # <<>> /\ (ol \o c)[1] = Mark(open)
  BY <1>1, <1>4, WordsJoin, FirstOfWords
<1> QED
  BY <1>3, <1>5

EnclosesBefore(open, P, close, s) ==
  /\ Listed(P) \o (<<Mark(close)>> \o s) \in Words
  /\ Enclosed(open, P, close) \o s = <<Mark(open)>> \o (Listed(P) \o (<<Mark(close)>> \o s))

LEMMA EnclosedBefore ==
  ASSUME NEW open \in {"[", "{"}, NEW close \in {"]", "}"}, NEW P \in Seq(Words), NEW s \in Words
  PROVE  EnclosesBefore(open, P, close, s)
<1> DEFINE o == <<Mark(open)>>
           c == <<Mark(close)>>
           l == Listed(P)
           ol == o \o l
           cs == c \o s
<1>1. o \in Words /\ c \in Words
  BY MarksAreSymbols, OneSymbol
<1>2. l \in Words
  BY ListedTyped DEF Words
<1>3. Enclosed(open, P, close) = ol \o c
  BY DEF Enclosed
<1> HIDE DEF o, c, l
<1>4. ol \in Words /\ cs \in Words
  BY <1>1, <1>2, WordsJoin
<1>5. ol \o cs = o \o (l \o cs)
  <2> HIDE DEF cs
  <2> QED
    <3>1. Regroups(o, l, cs)
      BY <1>1, <1>2, <1>4, WordsAssociate
    <3> QED
      BY ONLY <3>1 DEF Regroups, ol
<1> HIDE DEF ol
<1>6. (ol \o c) \o s = ol \o cs
  <2>1. Regroups(ol, c, s)
    BY <1>1, <1>4, WordsAssociate
  <2> QED
    BY ONLY <2>1 DEF Regroups, cs
<1> HIDE DEF cs
<1>7. l \o cs \in Words
  BY <1>2, <1>4, WordsJoin
<1> QED
  BY <1>3, <1>5, <1>6, <1>7 DEF o, c, l, cs, EnclosesBefore

EnclosedOnce(W, open, close) ==
  \A P, Q \in Seq(W) : \A s, t \in Words :
    Enclosed(open, P, close) \o s = Enclosed(open, Q, close) \o t => P = Q

(* An array or object that is emitted tells what is listed in it.          *)
LEMMA EnclosedIsRead ==
  ASSUME NEW open \in {"[", "{"}, NEW close \in {"]", "}"}, NEW W, W \subseteq Words,
         ListedOnce(W, Mark(close))
  PROVE  EnclosedOnce(W, open, close)
<1> SUFFICES ASSUME NEW P \in Seq(W), NEW Q \in Seq(W), NEW s \in Words, NEW t \in Words,
                    Enclosed(open, P, close) \o s = Enclosed(open, Q, close) \o t
             PROVE  P = Q
  BY DEF EnclosedOnce
<1> DEFINE p == Listed(P) \o (<<Mark(close)>> \o s)
           q == Listed(Q) \o (<<Mark(close)>> \o t)
           o == <<Mark(open)>>
<1>1. P \in Seq(Words) /\ Q \in Seq(Words)
  BY WiderElements
<1>2. p \in Words /\ Enclosed(open, P, close) \o s = o \o p
  <2>1. EnclosesBefore(open, P, close, s)
    BY <1>1, EnclosedBefore
  <2> QED
    BY ONLY <2>1 DEF EnclosesBefore
<1>3. q \in Words /\ Enclosed(open, Q, close) \o t = o \o q
  <2>1. EnclosesBefore(open, Q, close, t)
    BY <1>1, EnclosedBefore
  <2> QED
    BY ONLY <2>1 DEF EnclosesBefore
<1>4. o \in Words
  BY MarksAreSymbols, OneSymbol
<1>5. p = q
  <2>1. o \o p = o \o q
    BY <1>2, <1>3
  <2> HIDE DEF o, p, q
  <2> QED
    BY <1>2, <1>3, <1>4, <2>1, WordsCancel
<1> QED
  BY ONLY <1>5, ListedOnce(W, Mark(close)) DEF ListedOnce

-----------------------------------------------------------------------------
(* What values have in common that are emitted alike.                      *)

AlikeArrays(E, v, w) ==
  Len(v.items) = Len(w.items) /\ \A i \in 1 .. Len(v.items) : E[v.items[i]] = E[w.items[i]]

AlikeObjects(E, v, w) ==
  KeysOf(v) = KeysOf(w) /\ \A key \in KeysOf(v) : E[ValueOf(v, key)] = E[ValueOf(w, key)]

Alike(E, v, w) ==
  /\ v.is = w.is
  /\ v.is = "string" => Text(v) = Text(w)
  /\ v.is = "number" => v.n = w.n
  /\ v.is = "array" => AlikeArrays(E, v, w)
  /\ v.is = "object" => AlikeObjects(E, v, w)

ArraysRead(E, v, w) ==
  /\ Enclosed("[", ItemPieces(E, v), "]") = Enclosed("[", ItemPieces(E, w), "]") <=> AlikeArrays(E, v, w)
  /\ \A s, t \in Words :
       Enclosed("[", ItemPieces(E, v), "]") \o s = Enclosed("[", ItemPieces(E, w), "]") \o t
         => AlikeArrays(E, v, w)

(* Arrays are emitted alike when their items are, and whatever follows.    *)
LEMMA ArraysAreRead ==
  ASSUME NEW B, NEW E, Readable(E, B), NEW v, IsArray(v, B), NEW w, IsArray(w, B)
  PROVE  ArraysRead(E, v, w)
<1> DEFINE P == ItemPieces(E, v)
           Q == ItemPieces(E, w)
           W == ItemWords(E, B)
<1>1. W \subseteq Words /\ ListedOnce(W, Mark("]"))
  BY ItemWordsAreRead
<1>2. /\ P \in Seq(W) /\ Len(P) = Len(v.items) /\ Len(v.items) \in Nat
      /\ \A i \in 1 .. Len(v.items) : P[i] = E[v.items[i]]
  <2>1. ItemPiecesRight(E, B, v)
    BY ItemPiecesTyped
  <2> QED
    BY ONLY <2>1 DEF ItemPiecesRight
<1>3. /\ Q \in Seq(W) /\ Len(Q) = Len(w.items) /\ Len(w.items) \in Nat
      /\ \A i \in 1 .. Len(w.items) : Q[i] = E[w.items[i]]
  <2>1. ItemPiecesRight(E, B, w)
    BY ItemPiecesTyped
  <2> QED
    BY ONLY <2>1 DEF ItemPiecesRight
<1> HIDE DEF P, Q, W
<1>4. ASSUME P = Q PROVE AlikeArrays(E, v, w)
  BY <1>2, <1>3, <1>4 DEF AlikeArrays
<1>5. ASSUME AlikeArrays(E, v, w) PROVE P = Q
  <2>1. Len(P) = Len(Q) /\ \A i \in 1 .. Len(P) : P[i] = Q[i]
    BY <1>2, <1>3, <1>5 DEF AlikeArrays
  <2> QED
    BY <1>2, <1>3, <2>1, SeqEqual
<1>6. ASSUME NEW s \in Words, NEW t \in Words, Enclosed("[", P, "]") \o s = Enclosed("[", Q, "]") \o t
      PROVE  P = Q
  <2>1. EnclosedOnce(W, "[", "]")
    BY <1>1, EnclosedIsRead
  <2> QED
    BY <1>2, <1>3, <1>6, <2>1 DEF EnclosedOnce
<1>7. ASSUME Enclosed("[", P, "]") = Enclosed("[", Q, "]") PROVE P = Q
  BY <1>6, <1>7, NoWord
<1> QED
  BY <1>4, <1>5, <1>6, <1>7 DEF P, Q, ArraysRead

ObjectsRead(E, v, w) ==
  /\ Enclosed("{", FieldPieces(E, v), "}") = Enclosed("{", FieldPieces(E, w), "}") <=> AlikeObjects(E, v, w)
  /\ \A s, t \in Words :
       Enclosed("{", FieldPieces(E, v), "}") \o s = Enclosed("{", FieldPieces(E, w), "}") \o t
         => AlikeObjects(E, v, w)

(* Objects are emitted alike when they have the same keys, in any order,   *)
(* and what stands under each key is.                                      *)
LEMMA ObjectsAreRead ==
  ASSUME NEW B, NEW E, Readable(E, B), NEW v, IsObject(v, B), NEW w, IsObject(w, B)
  PROVE  ObjectsRead(E, v, w)
<1> DEFINE P == FieldPieces(E, v)
           Q == FieldPieces(E, w)
           W == FieldWords(E, B)
           k == KeysInOrder(v)
           l == KeysInOrder(w)
           m == Len(k)
           n == Len(l)
<1>1. W \subseteq Words /\ ListedOnce(W, Mark("}"))
  BY FieldWordsAreRead
<1>2. /\ P \in Seq(W) /\ Len(P) = m /\ m \in Nat
      /\ \A i \in 1 .. m : /\ k[i] \in KeysOf(v) /\ k[i] \in Keys /\ ValueOf(v, k[i]) \in B
                           /\ P[i] = Named(k[i]) \o E[ValueOf(v, k[i])]
  <2>1. FieldPiecesRight(E, B, v)
    BY FieldPiecesTyped
  <2> QED
    BY ONLY <2>1 DEF FieldPiecesRight
<1>3. /\ Q \in Seq(W) /\ Len(Q) = n /\ n \in Nat
      /\ \A i \in 1 .. n : /\ l[i] \in KeysOf(w) /\ l[i] \in Keys /\ ValueOf(w, l[i]) \in B
                           /\ Q[i] = Named(l[i]) \o E[ValueOf(w, l[i])]
  <2>1. FieldPiecesRight(E, B, w)
    BY FieldPiecesTyped
  <2> QED
    BY ONLY <2>1 DEF FieldPiecesRight
<1>4. /\ k \in Seq(Keys) /\ Elements(k) = KeysOf(v)
      /\ l \in Seq(Keys) /\ Elements(l) = KeysOf(w)
  BY ValuesByKey, KeysInOrderAre
<1>5. KeysOf(v) = KeysOf(w) => k = l
  BY DEF KeysInOrder
<1>6. DOMAIN k = 1 .. m
  BY <1>4, SequenceIsFunction
<1> HIDE DEF P, Q, W, k, l, m, n
<1>7. ASSUME P = Q PROVE AlikeObjects(E, v, w)
  <2>1. m = n
    BY <1>2, <1>3, <1>7
  <2>2. ASSUME NEW i \in 1 .. m
        PROVE  k[i] = l[i] /\ E[ValueOf(v, k[i])] = E[ValueOf(w, l[i])]
    <3> DEFINE x == E[ValueOf(v, k[i])]
               y == E[ValueOf(w, l[i])]
    <3>1. k[i] \in Keys /\ l[i] \in Keys /\ x \in Words /\ y \in Words
      BY <1>2, <1>3, <2>1 DEF Readable
    <3>2. Named(k[i]) \o x = Named(l[i]) \o y
      BY <1>2, <1>3, <1>7, <2>1
    <3> HIDE DEF x, y
    <3>3. k[i] = l[i]
      BY <3>1, <3>2, NamesAreRead
    <3>4. Named(k[i]) \in Words /\ Named(k[i]) \o x = Named(k[i]) \o y
      BY <3>1, <3>2, <3>3, NamedIs
    <3>5. x = y
      BY <3>1, <3>4, WordsCancel
    <3> QED
      BY <3>3, <3>5 DEF x, y
  <2>3. k = l
    <3>1. Len(k) = Len(l) /\ \A i \in 1 .. Len(k) : k[i] = l[i]
      BY <2>1, <2>2 DEF m, n
    <3> QED
      BY <1>4, <3>1, SeqEqual
  <2>4. KeysOf(v) = KeysOf(w)
    BY <1>4, <2>3
  <2>5. ASSUME NEW key \in KeysOf(v) PROVE E[ValueOf(v, key)] = E[ValueOf(w, key)]
    <3>1. PICK i \in 1 .. m : k[i] = key
      BY <1>4, <1>6 DEF Elements
    <3> QED
      BY <2>2, <2>3, <3>1
  <2> QED
    BY <2>4, <2>5 DEF AlikeObjects
<1>8. ASSUME AlikeObjects(E, v, w) PROVE P = Q
  <2>1. k = l /\ m = n
    BY <1>5, <1>8 DEF AlikeObjects, m, n
  <2>2. \A i \in 1 .. m : E[ValueOf(v, k[i])] = E[ValueOf(w, k[i])]
    BY <1>2, <1>8 DEF AlikeObjects
  <2>3. Len(P) = Len(Q) /\ \A i \in 1 .. Len(P) : P[i] = Q[i]
    <3>1. Len(P) = m /\ Len(Q) = m
      BY ONLY <1>2, <1>3, <2>1
    <3>2. ASSUME NEW i \in 1 .. m PROVE P[i] = Q[i]
      <4>1. P[i] = Named(k[i]) \o E[ValueOf(v, k[i])]
        BY <1>2
      <4>2. Q[i] = Named(k[i]) \o E[ValueOf(w, k[i])]
        BY <1>3, <2>1
      <4> QED
        BY ONLY <2>2, <4>1, <4>2, i \in 1 .. m, Zenon
    <3> QED
      BY ONLY <3>1, <3>2, Zenon
  <2> QED
    BY <1>2, <1>3, <2>3, SeqEqual
<1>9. ASSUME NEW s \in Words, NEW t \in Words, Enclosed("{", P, "}") \o s = Enclosed("{", Q, "}") \o t
      PROVE  P = Q
  <2>1. EnclosedOnce(W, "{", "}")
    BY <1>1, EnclosedIsRead
  <2>2. P \in Seq(W) /\ Q \in Seq(W)
    BY <1>2, <1>3
  <2> QED
    BY ONLY <1>9, <2>1, <2>2, s \in Words, t \in Words DEF EnclosedOnce
<1>10. ASSUME Enclosed("{", P, "}") = Enclosed("{", Q, "}") PROVE P = Q
  BY <1>9, <1>10, NoWord
<1> QED
  BY <1>7, <1>8, <1>9, <1>10 DEF P, Q, ObjectsRead

(* The symbol that a value is emitted with first.                          *)
Opening(v) ==
  CASE v.is = "string" -> Mark("quote")
    [] v.is = "null"   -> Mark("null")
    [] v.is = "number" -> <<"number", v.n>>
    [] v.is = "array"  -> Mark("[")
    [] v.is = "object" -> Mark("{")

(* What is emitted of a value tells at once of which kind it is.           *)
LEMMA OpeningsDiffer ==
  ASSUME NEW B, NEW v \in Level(B), NEW w \in Level(B)
  PROVE  /\ Opening(v) # Mark("]")
         /\ Opening(v) = Opening(w) => v.is = w.is /\ (v.is = "number" => v.n = w.n)
         /\ v.is \in {"string", "null", "number", "array", "object"}
<1>1. /\ v.is \in {"string", "null", "number", "array", "object"}
      /\ w.is \in {"string", "null", "number", "array", "object"}
  BY LevelCases DEF IsNull, IsNumber, IsText, IsArray, IsObject, Null
<1>2. ASSUME NEW x \in {v, w}
      PROVE  \/ x.is = "string" /\ Opening(x)[1] = "mark" /\ Opening(x)[2] = "quote"
             \/ x.is = "null" /\ Opening(x)[1] = "mark" /\ Opening(x)[2] = "null"
             \/ x.is = "number" /\ Opening(x)[1] = "number" /\ Opening(x)[2] = x.n
             \/ x.is = "array" /\ Opening(x)[1] = "mark" /\ Opening(x)[2] = "["
             \/ x.is = "object" /\ Opening(x)[1] = "mark" /\ Opening(x)[2] = "{"
  <2>1. x.is = "string" => Opening(x)[1] = "mark" /\ Opening(x)[2] = "quote"
    <3>1. x.is = "string" => Opening(x) = Mark("quote")
      BY DEF Opening
    <3> QED
      BY <3>1 DEF Mark
  <2>2. x.is = "null" => Opening(x)[1] = "mark" /\ Opening(x)[2] = "null"
    <3>1. x.is = "null" => Opening(x) = Mark("null")
      BY DEF Opening
    <3> QED
      BY <3>1 DEF Mark
  <2>3. x.is = "number" => Opening(x)[1] = "number" /\ Opening(x)[2] = x.n
    <3>1. x.is = "number" => Opening(x) = <<"number", x.n>>
      BY DEF Opening
    <3> QED
      BY <3>1 DEF Mark
  <2>4. x.is = "array" => Opening(x)[1] = "mark" /\ Opening(x)[2] = "["
    <3>1. x.is = "array" => Opening(x) = Mark("[")
      BY DEF Opening
    <3> QED
      BY <3>1 DEF Mark
  <2>5. x.is = "object" => Opening(x)[1] = "mark" /\ Opening(x)[2] = "{"
    <3>1. x.is = "object" => Opening(x) = Mark("{")
      BY DEF Opening
    <3>2. Mark("{")[1] = "mark" /\ Mark("{")[2] = "{"
      BY DEF Mark
    <3> QED
      BY <3>1, <3>2
  <2>6. x.is \in {"string", "null", "number", "array", "object"}
    BY <1>1
  <2> QED
    BY <2>1, <2>2, <2>3, <2>4, <2>5, <2>6
<1>3. Mark("]")[1] = "mark" /\ Mark("]")[2] = "]"
  BY DEF Mark
<1> HIDE DEF Mark, Opening
<1>4. Opening(v) # Mark("]")
  BY <1>2, <1>3
<1>5. ASSUME Opening(v) = Opening(w) PROVE v.is = w.is /\ (v.is = "number" => v.n = w.n)
  <2> DEFINE tag == Opening(v)[1]
             what == Opening(v)[2]
  <2>1. \/ v.is = "string" /\ tag = "mark" /\ what = "quote"
        \/ v.is = "null" /\ tag = "mark" /\ what = "null"
        \/ v.is = "number" /\ tag = "number" /\ what = v.n
        \/ v.is = "array" /\ tag = "mark" /\ what = "["
        \/ v.is = "object" /\ tag = "mark" /\ what = "{"
    BY <1>2
  <2>2. \/ w.is = "string" /\ tag = "mark" /\ what = "quote"
        \/ w.is = "null" /\ tag = "mark" /\ what = "null"
        \/ w.is = "number" /\ tag = "number" /\ what = w.n
        \/ w.is = "array" /\ tag = "mark" /\ what = "["
        \/ w.is = "object" /\ tag = "mark" /\ what = "{"
    BY <1>2, <1>5
  <2> HIDE DEF tag, what
  <2> QED
    BY <2>1, <2>2
<1> QED
  BY <1>1, <1>4, <1>5

LEMMA TextTyped ==
  ASSUME NEW v, IsText(v)
  PROVE  Text(v) \in Seq(Letters)
BY FlattenedUnfolds DEF IsText, Text

(* The first symbol tells the kind of a value.                             *)
LEMMA EmissionOpens ==
  ASSUME NEW B, NEW E, Readable(E, B), NEW v \in Level(B)
  PROVE  /\ Emission(E, v) \in Words /\ Emission(E, v) # <<>>
         /\ Emission(E, v)[1] = Opening(v)
<1>1. CASE IsNull(v)
  <2>1. v = Null /\ v.is = "null"
    BY <1>1 DEF IsNull, Null
  <2>2. Emission(E, v) = <<Mark("null")>> /\ Opening(v) = Mark("null")
    BY <2>1, EmissionIs DEF Opening
  <2> QED
    BY <2>2, MarksAreSymbols, OneSymbol
<1>2. CASE IsNumber(v)
  <2>1. v.is = "number" /\ <<"number", v.n>> \in Symbols
    BY <1>2 DEF IsNumber, Symbols
  <2>2. Emission(E, v) = <<<<"number", v.n>>>> /\ Opening(v) = <<"number", v.n>>
    BY <2>1, EmissionIs DEF Opening
  <2> QED
    BY <2>1, <2>2, OneSymbol
<1>3. CASE IsText(v)
  <2>1. v.is = "string" /\ Text(v) \in Seq(Letters)
    BY <1>3, TextTyped DEF IsText
  <2>2. Emission(E, v) = Quoted(Text(v)) /\ Opening(v) = Mark("quote")
    BY <2>1, EmissionIs DEF Opening
  <2>3. Quoted(Text(v)) \in Words /\ Quoted(Text(v)) # <<>> /\ Quoted(Text(v))[1] = Mark("quote")
    BY <2>1, QuotedAt
  <2> QED
    BY <2>2, <2>3
<1>4. CASE IsArray(v, B)
  <2>1. v.is = "array"
    BY <1>4 DEF IsArray
  <2>2. Emission(E, v) = Enclosed("[", ItemPieces(E, v), "]") /\ Opening(v) = Mark("[")
    BY <2>1, EmissionIs DEF Opening
  <2>3. ItemPieces(E, v) \in Seq(ItemWords(E, B)) /\ ItemWords(E, B) \subseteq Words
    BY <1>4, ItemPiecesTyped, ItemWordsAreRead DEF ItemPiecesRight
  <2>4. ItemPieces(E, v) \in Seq(Words)
    BY <2>3, WiderElements
  <2> QED
    BY <2>2, <2>4, EnclosedTyped
<1>5. CASE IsObject(v, B)
  <2>1. v.is = "object"
    BY <1>5 DEF IsObject
  <2>2. Emission(E, v) = Enclosed("{", FieldPieces(E, v), "}") /\ Opening(v) = Mark("{")
    BY <2>1, EmissionIs DEF Opening
  <2>3. FieldPieces(E, v) \in Seq(FieldWords(E, B)) /\ FieldWords(E, B) \subseteq Words
    BY <1>5, FieldPiecesTyped, FieldWordsAreRead DEF FieldPiecesRight
  <2>4. FieldPieces(E, v) \in Seq(Words)
    BY <2>3, WiderElements
  <2> QED
    BY <2>2, <2>4, EnclosedTyped
<1> QED
  BY <1>1, <1>2, <1>3, <1>4, <1>5, LevelCases

(* Of which kind a value is shows in the field "is".                       *)
LEMMA KindIs ==
  ASSUME NEW B, NEW v \in Level(B)
  PROVE  /\ v.is = "null" => v = Null
         /\ v.is = "number" => IsNumber(v)
         /\ v.is = "string" => IsText(v)
         /\ v.is = "array" => IsArray(v, B)
         /\ v.is = "object" => IsObject(v, B)
<1>1. IsNull(v) => v.is = "null"
  BY DEF IsNull, Null
<1>2. IsNumber(v) => v.is = "number"
  BY DEF IsNumber
<1>3. IsText(v) => v.is = "string"
  BY DEF IsText
<1>4. IsArray(v, B) => v.is = "array"
  BY DEF IsArray
<1>5. IsObject(v, B) => v.is = "object"
  BY DEF IsObject
<1> QED
  BY <1>1, <1>2, <1>3, <1>4, <1>5, LevelCases DEF IsNull

(* A value is emitted like another only if they are alike, whatever        *)
(* follows.                                                                *)
LEMMA EmissionIsRead ==
  ASSUME NEW B, NEW E, Readable(E, B), NEW v \in Level(B), NEW w \in Level(B)
  PROVE  /\ Emission(E, v) = Emission(E, w) <=> Alike(E, v, w)
         /\ \A s, t \in Words : Emission(E, v) \o s = Emission(E, w) \o t => Alike(E, v, w)
<1> DEFINE x == Emission(E, v)
           y == Emission(E, w)
<1>1. x \in Words /\ x # <<>> /\ x[1] = Opening(v) /\ y \in Words /\ y # <<>> /\ y[1] = Opening(w)
  BY EmissionOpens
<1>2. ASSUME NEW s \in Words, NEW t \in Words, x \o s = y \o t
      PROVE  v.is = w.is /\ (v.is = "number" => v.n = w.n)
  <2>1. (x \o s)[1] = x[1]
    BY <1>1, FirstOfWords
  <2>2. (y \o t)[1] = y[1]
    BY <1>1, FirstOfWords
  <2>3. Opening(v) = Opening(w)
    BY <1>1, <1>2, <2>1, <2>2
  <2> QED
    BY <2>3, OpeningsDiffer
<1>3. ASSUME NEW s \in Words, NEW t \in Words, x \o s = y \o t
      PROVE  Alike(E, v, w)
  <2>1. v.is = w.is /\ (v.is = "number" => v.n = w.n)
    BY <1>2, <1>3
  <2>2. ASSUME v.is = "string" PROVE Text(v) = Text(w)
    <3>1. x = Quoted(Text(v)) /\ y = Quoted(Text(w))
      BY <2>1, <2>2, EmissionIs
    <3>2. Text(v) \in Seq(Letters) /\ Text(w) \in Seq(Letters)
      BY <2>1, <2>2, KindIs, TextTyped
    <3> QED
      BY <1>3, <3>1, <3>2, QuotedIsRead
  <2>3. ASSUME v.is = "array" PROVE AlikeArrays(E, v, w)
    <3>1. x = Enclosed("[", ItemPieces(E, v), "]") /\ y = Enclosed("[", ItemPieces(E, w), "]")
      BY <2>1, <2>3, EmissionIs
    <3>2. IsArray(v, B) /\ IsArray(w, B)
      BY <2>1, <2>3, KindIs
    <3>3. ArraysRead(E, v, w)
      BY <3>2, ArraysAreRead
    <3> QED
      BY <1>3, <3>1, <3>3 DEF ArraysRead
  <2>4. ASSUME v.is = "object" PROVE AlikeObjects(E, v, w)
    <3>1. x = Enclosed("{", FieldPieces(E, v), "}") /\ y = Enclosed("{", FieldPieces(E, w), "}")
      BY <2>1, <2>4, EmissionIs
    <3>2. IsObject(v, B) /\ IsObject(w, B)
      BY <2>1, <2>4, KindIs
    <3>3. ObjectsRead(E, v, w)
      BY <3>2, ObjectsAreRead
    <3> QED
      BY <1>3, <3>1, <3>3 DEF ObjectsRead
  <2> QED
    BY <2>1, <2>2, <2>3, <2>4 DEF Alike
<1>4. ASSUME x = y PROVE Alike(E, v, w)
  <2>1. <<>> \in Words /\ x \o <<>> = y \o <<>>
    BY <1>4, NoWord
  <2> HIDE DEF x, y
  <2> QED
    BY <1>3, <2>1
<1>5. ASSUME Alike(E, v, w) PROVE x = y
  <2>1. v.is = w.is /\ v.is \in {"string", "null", "number", "array", "object"}
    BY <1>5, OpeningsDiffer DEF Alike
  <2>2. CASE v.is = "null"
    <3>1. v = Null /\ w = Null
      BY <2>1, <2>2, KindIs
    <3> QED
      BY <3>1
  <2>3. CASE v.is = "number"
    BY <1>5, <2>1, <2>3, EmissionIs DEF Alike
  <2>4. CASE v.is = "string"
    BY <1>5, <2>1, <2>4, EmissionIs DEF Alike
  <2>5. CASE v.is = "array"
    <3>1. x = Enclosed("[", ItemPieces(E, v), "]") /\ y = Enclosed("[", ItemPieces(E, w), "]")
      BY <2>1, <2>5, EmissionIs
    <3>2. IsArray(v, B) /\ IsArray(w, B) /\ AlikeArrays(E, v, w)
      BY <1>5, <2>1, <2>5, KindIs DEF Alike
    <3>3. ArraysRead(E, v, w)
      BY <3>2, ArraysAreRead
    <3> QED
      BY <3>1, <3>2, <3>3 DEF ArraysRead
  <2>6. CASE v.is = "object"
    <3>1. x = Enclosed("{", FieldPieces(E, v), "}") /\ y = Enclosed("{", FieldPieces(E, w), "}")
      BY <2>1, <2>6, EmissionIs
    <3>2. IsObject(v, B) /\ IsObject(w, B) /\ AlikeObjects(E, v, w)
      BY <1>5, <2>1, <2>6, KindIs DEF Alike
    <3>3. ObjectsRead(E, v, w)
      BY <3>2, ObjectsAreRead
    <3> QED
      BY <3>1, <3>2, <3>3 DEF ObjectsRead
  <2> QED
    BY <2>1, <2>2, <2>3, <2>4, <2>5, <2>6
<1> QED
  BY <1>3, <1>4, <1>5

-----------------------------------------------------------------------------
(* What the recursive functions are at each depth.                         *)

LEMMA NestedUnfolds ==
  Nested[0] = {} /\ \A d \in 1 .. Deepest : Nested[d] = Level(Nested[d - 1])
<1> DEFINE Defines(f, n) == f = [d \in 0 .. n |-> IF d = 0 THEN {} ELSE Level(f[d - 1])]
           T == {n \in Nat : \E f : Defines(f, n)}
<1>1. 0 \in T
  <2> DEFINE f == [d \in 0 .. 0 |-> {}]
  <2>1. Defines(f, 0)
    OBVIOUS
  <2> QED
    BY <2>1
<1>2. ASSUME NEW n \in Nat, n \in T PROVE n + 1 \in T
  <2>1. PICK f : Defines(f, n)
    BY <1>2
  <2> DEFINE g == [d \in 0 .. n + 1 |-> IF d = n + 1 THEN Level(f[n]) ELSE f[d]]
  <2>2. \A d \in 0 .. n : f[d] = IF d = 0 THEN {} ELSE Level(f[d - 1])
    BY <2>1
  <2>3. \A d \in 0 .. n : g[d] = f[d]
    OBVIOUS
  <2>4. g[n + 1] = Level(f[n])
    OBVIOUS
  <2>5. ASSUME NEW d \in 0 .. n + 1 PROVE g[d] = IF d = 0 THEN {} ELSE Level(g[d - 1])
    <3> HIDE DEF g
    <3>1. CASE d = n + 1
      BY <2>3, <2>4, <3>1
    <3>2. CASE d \in 0 .. n
      <4>1. d # 0 => d - 1 \in 0 .. n
        BY <3>2
      <4> QED
        BY <2>2, <2>3, <3>2, <4>1
    <3> QED
      BY <3>1, <3>2
  <2>6. Defines(g, n + 1)
    <3>1. g = [d \in 0 .. n + 1 |-> g[d]]
      OBVIOUS
    <3> HIDE DEF g
    <3> QED
      BY <2>5, <3>1
  <2> HIDE DEF Defines, g
  <2>7. \E h : Defines(h, n + 1)
    BY <2>6
  <2> QED
    BY <2>7
<1>3. Deepest \in T
  <2>1. Deepest \in Nat
    BY CanonicalAssumption
  <2> HIDE DEF T
  <2> QED
    BY <1>1, <1>2, <2>1, EveryNumber
<1>4. Nested = CHOOSE f : Defines(f, Deepest)
  BY DEF Nested
<1>5. Defines(Nested, Deepest)
  <2>1. \E f : Defines(f, Deepest)
    BY <1>3
  <2> HIDE DEF Defines
  <2> QED
    BY <1>4, <2>1, Zenon
<1>6. Deepest \in Nat
  BY CanonicalAssumption
<1> DEFINE N == Nested
<1>7. N = [d \in 0 .. Deepest |-> IF d = 0 THEN {} ELSE Level(N[d - 1])]
  BY <1>5
<1> HIDE DEF N
<1>8. N[0] = {} /\ \A d \in 1 .. Deepest : N[d] = Level(N[d - 1])
  <2>1. ASSUME NEW d \in 0 .. Deepest PROVE N[d] = IF d = 0 THEN {} ELSE Level(N[d - 1])
    BY <1>7
  <2> QED
    BY <1>6, <2>1
<1> QED
  BY <1>8 DEF N

(* The emission at a depth is made of the one below.                       *)
LEMMA EmitUnfolds ==
  \A d \in 1 .. Deepest :
    EmitCanonical[d] = [value \in Nested[d] |-> Emission(EmitCanonical[d - 1], value)]
<1> DEFINE Defines(f, n) == f = [d \in 0 .. n |-> [value \in Nested[d] |-> Emission(f[d - 1], value)]]
           T == {n \in Nat : \E f : Defines(f, n)}
<1>1. Nested[0] = {}
  BY NestedUnfolds
<1>2. 0 \in T
  <2> DEFINE f == [d \in 0 .. 0 |-> [value \in Nested[d] |-> value]]
  <2>1. f[0] = [value \in Nested[0] |-> Emission(f[0 - 1], value)]
    BY <1>1
  <2>2. f = [d \in 0 .. 0 |-> f[d]]
    OBVIOUS
  <2> HIDE DEF f
  <2>3. Defines(f, 0)
    BY <2>1, <2>2
  <2> QED
    BY <2>3
<1>3. ASSUME NEW n \in Nat, n \in T PROVE n + 1 \in T
  <2>1. PICK f : Defines(f, n)
    BY <1>3
  <2> DEFINE more == [value \in Nested[n + 1] |-> Emission(f[n], value)]
             g == [d \in 0 .. n + 1 |-> IF d = n + 1 THEN more ELSE f[d]]
  <2>2. \A d \in 0 .. n : f[d] = [value \in Nested[d] |-> Emission(f[d - 1], value)]
    BY <2>1
  <2> HIDE DEF more
  <2>3. \A d \in 0 .. n : g[d] = f[d]
    OBVIOUS
  <2>4. g[n + 1] = more
    OBVIOUS
  <2>5. ASSUME NEW d \in 0 .. n + 1 PROVE g[d] = [value \in Nested[d] |-> Emission(g[d - 1], value)]
    <3> HIDE DEF g
    <3>1. CASE d = n + 1
      <4>1. g[n] = f[n] /\ d - 1 = n
        BY <2>3, <3>1
      <4> QED
        BY <2>4, <3>1, <4>1 DEF more
    <3>2. CASE d = 0
      <4>1. f[d] = [value \in Nested[d] |-> Emission(f[d - 1], value)] /\ g[d] = f[d]
        <5>1. d \in 0 .. n
          BY <3>2
        <5>2. g[d] = f[d]
          BY <2>3, <5>1
        <5>3. f[d] = [value \in Nested[d] |-> Emission(f[d - 1], value)]
          BY ONLY <2>2, <5>1
        <5> QED
          BY <5>2, <5>3
      <4>2. [value \in Nested[d] |-> Emission(f[d - 1], value)] = [value \in Nested[d] |-> Emission(g[d - 1], value)]
        BY <1>1, <3>2
      <4> QED
        BY <4>1, <4>2
    <3>3. CASE d \in 1 .. n
      <4>1. d \in 0 .. n /\ d - 1 \in 0 .. n
        BY <3>3
      <4>2. g[d - 1] = f[d - 1] /\ g[d] = f[d]
        BY <2>3, <4>1
      <4> QED
        BY <2>2, <4>1, <4>2
    <3> QED
      BY <3>1, <3>2, <3>3
  <2>6. Defines(g, n + 1)
    <3>1. g = [d \in 0 .. n + 1 |-> g[d]]
      OBVIOUS
    <3> HIDE DEF g
    <3> QED
      BY <2>5, <3>1
  <2> HIDE DEF Defines, g
  <2>7. \E h : Defines(h, n + 1)
    BY <2>6
  <2> QED
    BY <2>7
<1>4. Deepest \in T
  <2>1. Deepest \in Nat
    BY CanonicalAssumption
  <2> HIDE DEF T
  <2> QED
    BY <1>2, <1>3, <2>1, EveryNumber
<1>5. EmitCanonical = CHOOSE f : Defines(f, Deepest)
  BY DEF EmitCanonical
<1>6. Defines(EmitCanonical, Deepest)
  <2>1. \E f : Defines(f, Deepest)
    BY <1>4
  <2> HIDE DEF Defines
  <2> QED
    BY <1>5, <2>1, Zenon
<1> DEFINE E == EmitCanonical
<1>7. E = [d \in 0 .. Deepest |-> [value \in Nested[d] |-> Emission(E[d - 1], value)]]
  BY <1>6
<1> HIDE DEF E
<1>8. ASSUME NEW d \in 1 .. Deepest PROVE E[d] = [value \in Nested[d] |-> Emission(E[d - 1], value)]
  <2>1. d \in 0 .. Deepest
    BY CanonicalAssumption
  <2> QED
    BY <1>7, <2>1
<1> QED
  BY <1>8 DEF E
(* The meaning at a depth is made of the one below.                        *)
LEMMA MeaningUnfolds ==
  \A d \in 1 .. Deepest :
    Meaning[d] = [value \in Nested[d] |-> MeaningOf(Meaning[d - 1], value)]
<1> DEFINE Defines(f, n) == f = [d \in 0 .. n |-> [value \in Nested[d] |-> MeaningOf(f[d - 1], value)]]
           T == {n \in Nat : \E f : Defines(f, n)}
<1>1. Nested[0] = {}
  BY NestedUnfolds
<1>2. 0 \in T
  <2> DEFINE f == [d \in 0 .. 0 |-> [value \in Nested[d] |-> value]]
  <2>1. f[0] = [value \in Nested[0] |-> MeaningOf(f[0 - 1], value)]
    BY <1>1
  <2>2. f = [d \in 0 .. 0 |-> f[d]]
    OBVIOUS
  <2> HIDE DEF f
  <2>3. Defines(f, 0)
    BY <2>1, <2>2
  <2> QED
    BY <2>3
<1>3. ASSUME NEW n \in Nat, n \in T PROVE n + 1 \in T
  <2>1. PICK f : Defines(f, n)
    BY <1>3
  <2> DEFINE more == [value \in Nested[n + 1] |-> MeaningOf(f[n], value)]
             g == [d \in 0 .. n + 1 |-> IF d = n + 1 THEN more ELSE f[d]]
  <2>2. \A d \in 0 .. n : f[d] = [value \in Nested[d] |-> MeaningOf(f[d - 1], value)]
    BY <2>1
  <2> HIDE DEF more
  <2>3. \A d \in 0 .. n : g[d] = f[d]
    OBVIOUS
  <2>4. g[n + 1] = more
    OBVIOUS
  <2>5. ASSUME NEW d \in 0 .. n + 1 PROVE g[d] = [value \in Nested[d] |-> MeaningOf(g[d - 1], value)]
    <3> HIDE DEF g
    <3>1. CASE d = n + 1
      <4>1. g[n] = f[n] /\ d - 1 = n
        BY <2>3, <3>1
      <4> QED
        BY <2>4, <3>1, <4>1 DEF more
    <3>2. CASE d = 0
      <4>1. f[d] = [value \in Nested[d] |-> MeaningOf(f[d - 1], value)] /\ g[d] = f[d]
        <5>1. d \in 0 .. n
          BY <3>2
        <5>2. g[d] = f[d]
          BY <2>3, <5>1
        <5>3. f[d] = [value \in Nested[d] |-> MeaningOf(f[d - 1], value)]
          BY ONLY <2>2, <5>1
        <5> QED
          BY <5>2, <5>3
      <4>2. [value \in Nested[d] |-> MeaningOf(f[d - 1], value)] = [value \in Nested[d] |-> MeaningOf(g[d - 1], value)]
        BY <1>1, <3>2
      <4> QED
        BY <4>1, <4>2
    <3>3. CASE d \in 1 .. n
      <4>1. d \in 0 .. n /\ d - 1 \in 0 .. n
        BY <3>3
      <4>2. g[d - 1] = f[d - 1] /\ g[d] = f[d]
        BY <2>3, <4>1
      <4> QED
        BY <2>2, <4>1, <4>2
    <3> QED
      BY <3>1, <3>2, <3>3
  <2>6. Defines(g, n + 1)
    <3>1. g = [d \in 0 .. n + 1 |-> g[d]]
      OBVIOUS
    <3> HIDE DEF g
    <3> QED
      BY <2>5, <3>1
  <2> HIDE DEF Defines, g
  <2>7. \E h : Defines(h, n + 1)
    BY <2>6
  <2> QED
    BY <2>7
<1>4. Deepest \in T
  <2>1. Deepest \in Nat
    BY CanonicalAssumption
  <2> HIDE DEF T
  <2> QED
    BY <1>2, <1>3, <2>1, EveryNumber
<1>5. Meaning = CHOOSE f : Defines(f, Deepest)
  BY DEF Meaning
<1>6. Defines(Meaning, Deepest)
  <2>1. \E f : Defines(f, Deepest)
    BY <1>4
  <2> HIDE DEF Defines
  <2> QED
    BY <1>5, <2>1, Zenon
<1> DEFINE M == Meaning
<1>7. M = [d \in 0 .. Deepest |-> [value \in Nested[d] |-> MeaningOf(M[d - 1], value)]]
  BY <1>6
<1> HIDE DEF M
<1>8. ASSUME NEW d \in 1 .. Deepest PROVE M[d] = [value \in Nested[d] |-> MeaningOf(M[d - 1], value)]
  <2>1. d \in 0 .. Deepest
    BY CanonicalAssumption
  <2> QED
    BY <1>7, <2>1
<1> QED
  BY <1>8 DEF M
(* The walk at a depth is made of the one below.                           *)
LEMMA WalkUnfolds ==
  \A d \in 1 .. Deepest :
    Walk[d] = [value \in Nested[d] |-> [budget \in Budget |-> Walking(Walk[d - 1], value, budget, Deepest + 1 - d)]]
<1> DEFINE Defines(f, n) ==
             f = [d \in 0 .. n |-> [value \in Nested[d] |-> [budget \in Budget |->
                    Walking(f[d - 1], value, budget, Deepest + 1 - d)]]]
           T == {n \in Nat : \E f : Defines(f, n)}
<1>1. Nested[0] = {}
  BY NestedUnfolds
<1>2. 0 \in T
  <2> DEFINE f == [d \in 0 .. 0 |-> [value \in Nested[d] |-> value]]
  <2>1. f[0] = [value \in Nested[0] |-> [budget \in Budget |-> Walking(f[0 - 1], value, budget, Deepest + 1 - 0)]]
    BY <1>1
  <2>2. f = [d \in 0 .. 0 |-> f[d]]
    OBVIOUS
  <2> HIDE DEF f
  <2>3. Defines(f, 0)
    BY <2>1, <2>2
  <2> QED
    BY <2>3
<1>3. ASSUME NEW n \in Nat, n \in T PROVE n + 1 \in T
  <2>1. PICK f : Defines(f, n)
    BY <1>3
  <2> DEFINE more == [value \in Nested[n + 1] |-> [budget \in Budget |->
                        Walking(f[n], value, budget, Deepest + 1 - (n + 1))]]
             g == [d \in 0 .. n + 1 |-> IF d = n + 1 THEN more ELSE f[d]]
  <2>2. \A d \in 0 .. n :
          f[d] = [value \in Nested[d] |-> [budget \in Budget |->
                    Walking(f[d - 1], value, budget, Deepest + 1 - d)]]
    BY <2>1
  <2> HIDE DEF more
  <2>3. \A d \in 0 .. n : g[d] = f[d]
    OBVIOUS
  <2>4. g[n + 1] = more
    OBVIOUS
  <2>5. ASSUME NEW d \in 0 .. n + 1
        PROVE  g[d] = [value \in Nested[d] |-> [budget \in Budget |->
                         Walking(g[d - 1], value, budget, Deepest + 1 - d)]]
    <3> HIDE DEF g
    <3>1. CASE d = n + 1
      <4>1. g[n] = f[n] /\ d - 1 = n
        BY <2>3, <3>1
      <4> QED
        BY <2>4, <3>1, <4>1 DEF more
    <3>2. CASE d = 0
      <4>1. /\ f[d] = [value \in Nested[d] |-> [budget \in Budget |->
                         Walking(f[d - 1], value, budget, Deepest + 1 - d)]]
            /\ g[d] = f[d]
        <5>1. d \in 0 .. n
          BY <3>2
        <5>2. g[d] = f[d]
          BY <2>3, <5>1
        <5>3. f[d] = [value \in Nested[d] |-> [budget \in Budget |-> Walking(f[d - 1], value, budget, Deepest + 1 - d)]]
          BY ONLY <2>2, <5>1
        <5> QED
          BY <5>2, <5>3
      <4>2. [value \in Nested[d] |-> [budget \in Budget |-> Walking(f[d - 1], value, budget, Deepest + 1 - d)]]
              = [value \in Nested[d] |-> [budget \in Budget |-> Walking(g[d - 1], value, budget, Deepest + 1 - d)]]
        BY <1>1, <3>2
      <4> QED
        BY <4>1, <4>2
    <3>3. CASE d \in 1 .. n
      <4>1. d \in 0 .. n /\ d - 1 \in 0 .. n
        BY <3>3
      <4>2. g[d - 1] = f[d - 1] /\ g[d] = f[d]
        BY <2>3, <4>1
      <4> QED
        BY <2>2, <4>1, <4>2
    <3> QED
      BY <3>1, <3>2, <3>3
  <2>6. Defines(g, n + 1)
    <3>1. g = [d \in 0 .. n + 1 |-> g[d]]
      OBVIOUS
    <3> HIDE DEF g
    <3> QED
      BY <2>5, <3>1
  <2> HIDE DEF Defines, g
  <2>7. \E h : Defines(h, n + 1)
    BY <2>6
  <2> QED
    BY <2>7
<1>4. Deepest \in T
  <2>1. Deepest \in Nat
    BY CanonicalAssumption
  <2> HIDE DEF T
  <2> QED
    BY <1>2, <1>3, <2>1, EveryNumber
<1>5. Walk = CHOOSE f : Defines(f, Deepest)
  BY DEF Walk
<1>6. Defines(Walk, Deepest)
  <2>1. \E f : Defines(f, Deepest)
    BY <1>4
  <2> HIDE DEF Defines
  <2> QED
    BY <1>5, <2>1, Zenon
<1> DEFINE W == Walk
<1>7. W = [d \in 0 .. Deepest |-> [value \in Nested[d] |-> [budget \in Budget |->
             Walking(W[d - 1], value, budget, Deepest + 1 - d)]]]
  BY <1>6
<1> HIDE DEF W
<1>8. ASSUME NEW d \in 1 .. Deepest
      PROVE  W[d] = [value \in Nested[d] |-> [budget \in Budget |->
                       Walking(W[d - 1], value, budget, Deepest + 1 - d)]]
  <2>1. d \in 0 .. Deepest
    BY CanonicalAssumption
  <2> QED
    BY <1>7, <2>1
<1> QED
  BY <1>8 DEF W

-----------------------------------------------------------------------------
(* Values are emitted alike when they mean the same.                       *)

(* The meanings of an object's fields by their keys.                       *)
Meant(M, v) == {<<key, M[ValueOf(v, key)]>> : key \in KeysOf(v)}

(* The meaning of each kind of value.                                      *)
LEMMA MeaningIs ==
  ASSUME NEW B, NEW M, NEW v \in Level(B)
  PROVE  /\ v.is = "null" => MeaningOf(M, v) = v
         /\ v.is = "number" => MeaningOf(M, v) = v
         /\ v.is = "string" => MeaningOf(M, v) = Plain(Text(v))
         /\ v.is = "array" => MeaningOf(M, v) = [is |-> "array", items |-> [i \in DOMAIN v.items |-> M[v.items[i]]]]
         /\ v.is = "object" => MeaningOf(M, v) = [is |-> "object", fields |-> Meant(M, v)]
         /\ MeaningOf(M, v).is = v.is
<1>1. v.is = "null" => MeaningOf(M, v) = v
  BY DEF MeaningOf
<1>2. v.is = "number" => MeaningOf(M, v) = v
  BY DEF MeaningOf
<1>3. v.is = "string" => MeaningOf(M, v) = Plain(Text(v))
  BY DEF MeaningOf
<1>4. v.is = "array" => MeaningOf(M, v) = [is |-> "array", items |-> [i \in DOMAIN v.items |-> M[v.items[i]]]]
  BY DEF MeaningOf
<1>5. ASSUME v.is = "object"
      PROVE  MeaningOf(M, v) = [is |-> "object", fields |-> Meant(M, v)]
  <2> DEFINE f == v.fields
             said == {<<field.key, M[field.value]>> : field \in FieldSet(v.fields)}
  <2>1. MeaningOf(M, v) = [is |-> "object", fields |-> said]
    BY <1>5 DEF MeaningOf
  <2>2. IsObject(v, B)
    BY <1>5, KindIs
  <2>3. /\ \A i \in DOMAIN f : f[i].key \in KeysOf(v) /\ ValueOf(v, f[i].key) = f[i].value
        /\ \A key \in KeysOf(v) : \E i \in DOMAIN f : f[i] = Field(key, ValueOf(v, key))
    BY <2>2, ValuesByKey
  <2>4. \A key, value : Field(key, value).key = key /\ Field(key, value).value = value
    BY DEF Field
  <2>5. said = {<<f[i].key, M[f[i].value]>> : i \in DOMAIN f}
    BY DEF FieldSet
  <2> HIDE DEF f, said
  <2>6. ASSUME NEW i \in DOMAIN f PROVE <<f[i].key, M[f[i].value]>> \in Meant(M, v)
    BY <2>3 DEF Meant
  <2>7. ASSUME NEW key \in KeysOf(v) PROVE <<key, M[ValueOf(v, key)]>> \in said
    <3>1. PICK i \in DOMAIN f : f[i] = Field(key, ValueOf(v, key))
      BY <2>3
    <3> QED
      BY <2>4, <2>5, <3>1
  <2>8. said = Meant(M, v)
    <3>1. said \subseteq Meant(M, v)
      BY <2>5, <2>6
    <3>2. Meant(M, v) \subseteq said
      BY <2>7 DEF Meant
    <3> QED
      BY <3>1, <3>2
  <2> QED
    BY <2>1, <2>8
<1>6. v.is \in {"string", "null", "number", "array", "object"}
  BY OpeningsDiffer
<1>7. MeaningOf(M, v).is = v.is
  BY <1>1, <1>2, <1>3, <1>4, <1>5, <1>6 DEF Plain
<1> QED
  BY <1>1, <1>2, <1>3, <1>4, <1>5, <1>7

(* E and M tell the same values of B apart.                                *)
Matching(E, M, B) == \A x, y \in B : E[x] = E[y] <=> M[x] = M[y]

(* Arrays whose items are emitted alike have items that mean the same, and *)
(* conversely.                                                             *)
LEMMA ArraysMatch ==
  ASSUME NEW B, NEW E, NEW M, Matching(E, M, B), NEW v, IsArray(v, B), NEW w, IsArray(w, B)
  PROVE  AlikeArrays(E, v, w) <=>
           [i \in DOMAIN v.items |-> M[v.items[i]]] = [i \in DOMAIN w.items |-> M[w.items[i]]]
<1> DEFINE a == v.items
           b == w.items
           m == Len(a)
           n == Len(b)
<1>1. m \in Nat /\ DOMAIN a = 1 .. m /\ \A i \in 1 .. m : a[i] \in B
  BY SequenceIsFunction DEF IsArray
<1>2. n \in Nat /\ DOMAIN b = 1 .. n /\ \A i \in 1 .. n : b[i] \in B
  BY SequenceIsFunction DEF IsArray
<1>3. AlikeArrays(E, v, w) <=> m = n /\ \A i \in 1 .. m : E[a[i]] = E[b[i]]
  BY DEF AlikeArrays
<1> HIDE DEF a, b, m, n
<1> DEFINE f == [i \in 1 .. m |-> M[a[i]]]
           g == [i \in 1 .. n |-> M[b[i]]]
<1>4. ASSUME m = n, \A i \in 1 .. m : E[a[i]] = E[b[i]] PROVE f = g
  <2>1. \A i \in 1 .. m : M[a[i]] = M[b[i]]
    BY <1>1, <1>2, <1>4 DEF Matching
  <2> QED
    BY <1>4, <2>1
<1>5. ASSUME f = g PROVE m = n /\ \A i \in 1 .. m : E[a[i]] = E[b[i]]
  <2>1. 1 .. m = 1 .. n
    <3>1. DOMAIN f = 1 .. m /\ DOMAIN g = 1 .. n
      OBVIOUS
    <3> QED
      BY <1>5, <3>1
  <2>2. m = n
    BY <1>1, <1>2, <2>1, SameDomain
  <2>3. ASSUME NEW i \in 1 .. m PROVE E[a[i]] = E[b[i]]
    <3>1. f[i] = M[a[i]] /\ g[i] = M[b[i]]
      BY <2>2
    <3>2. M[a[i]] = M[b[i]]
      BY <1>5, <3>1
    <3>3. a[i] \in B /\ b[i] \in B
      BY <1>1, <1>2, <2>2
    <3> QED
      BY <3>2, <3>3 DEF Matching
  <2> QED
    BY <2>2, <2>3
<1>6. f = [i \in DOMAIN a |-> M[a[i]]] /\ g = [i \in DOMAIN b |-> M[b[i]]]
  BY <1>1, <1>2
<1> HIDE DEF f, g
<1>7. AlikeArrays(E, v, w) <=> f = g
  BY <1>3, <1>4, <1>5
<1> QED
  BY <1>6, <1>7 DEF a, b

(* Objects emitted alike key by key mean the same, and conversely: the     *)
(* order of fields is gone from both.                                      *)
LEMMA ObjectsMatch ==
  ASSUME NEW B, NEW E, NEW M, Matching(E, M, B), NEW v, IsObject(v, B), NEW w, IsObject(w, B)
  PROVE  AlikeObjects(E, v, w) <=> Meant(M, v) = Meant(M, w)
<1>1. \A key \in KeysOf(v) : ValueOf(v, key) \in B
  BY ValuesByKey
<1>2. \A key \in KeysOf(w) : ValueOf(w, key) \in B
  BY ValuesByKey
<1>3. ASSUME AlikeObjects(E, v, w) PROVE Meant(M, v) = Meant(M, w)
  <2>1. KeysOf(v) = KeysOf(w) /\ \A key \in KeysOf(v) : M[ValueOf(v, key)] = M[ValueOf(w, key)]
    BY <1>1, <1>2, <1>3 DEF AlikeObjects, Matching
  <2> QED
    BY <2>1 DEF Meant
<1>4. ASSUME Meant(M, v) = Meant(M, w) PROVE AlikeObjects(E, v, w)
  <2>1. ASSUME NEW key \in KeysOf(v) PROVE key \in KeysOf(w) /\ M[ValueOf(v, key)] = M[ValueOf(w, key)]
    <3>1. <<key, M[ValueOf(v, key)]>> \in Meant(M, w)
      BY <1>4 DEF Meant
    <3>2. PICK other \in KeysOf(w) : <<key, M[ValueOf(v, key)]>> = <<other, M[ValueOf(w, other)]>>
      BY <3>1 DEF Meant
    <3> QED
      BY <3>2
  <2>2. ASSUME NEW key \in KeysOf(w) PROVE key \in KeysOf(v)
    <3>1. <<key, M[ValueOf(w, key)]>> \in Meant(M, v)
      BY <1>4 DEF Meant
    <3>2. PICK other \in KeysOf(v) : <<key, M[ValueOf(w, key)]>> = <<other, M[ValueOf(v, other)]>>
      BY <3>1 DEF Meant
    <3> QED
      BY <3>2
  <2> QED
    BY <1>1, <1>2, <2>1, <2>2 DEF AlikeObjects, Matching
<1> QED
  BY <1>3, <1>4

KindRight(B, v) ==
  /\ v.is \in {"string", "null", "number", "array", "object"}
  /\ v.is = "null" => v = Null
  /\ v.is = "number" => IsNumber(v)
  /\ v.is = "string" => IsText(v)
  /\ v.is = "array" => IsArray(v, B)
  /\ v.is = "object" => IsObject(v, B)

LEMMA KindsAreRight == ASSUME NEW B, NEW v \in Level(B) PROVE KindRight(B, v)
<1>1. v.is \in {"string", "null", "number", "array", "object"}
  BY OpeningsDiffer
<1>2. v.is = "null" => v = Null
  BY KindIs
<1>3. v.is = "number" => IsNumber(v)
  BY KindIs
<1>4. v.is = "string" => IsText(v)
  BY KindIs
<1>5. v.is = "array" => IsArray(v, B)
  BY KindIs
<1>6. v.is = "object" => IsObject(v, B)
  BY KindIs
<1> QED
  BY ONLY <1>1, <1>2, <1>3, <1>4, <1>5, <1>6 DEF KindRight

Items(M, v) == [i \in DOMAIN v.items |-> M[v.items[i]]]

MeaningRight(M, v) ==
  /\ v.is \in {"null", "number"} => MeaningOf(M, v) = v
  /\ v.is = "string" => MeaningOf(M, v) = Plain(Text(v))
  /\ v.is = "array" => MeaningOf(M, v) = [is |-> "array", items |-> Items(M, v)]
  /\ v.is = "object" => MeaningOf(M, v) = [is |-> "object", fields |-> Meant(M, v)]
  /\ MeaningOf(M, v).is = v.is

LEMMA MeaningsAreRight == ASSUME NEW B, NEW M, NEW v \in Level(B) PROVE MeaningRight(M, v)
<1>1. v.is = "null" => MeaningOf(M, v) = v
  BY MeaningIs
<1>2. v.is = "number" => MeaningOf(M, v) = v
  BY MeaningIs
<1>3. v.is = "string" => MeaningOf(M, v) = Plain(Text(v))
  BY MeaningIs
<1>4. v.is = "array" => MeaningOf(M, v) = [is |-> "array", items |-> Items(M, v)]
  BY MeaningIs DEF Items
<1>5. v.is = "object" => MeaningOf(M, v) = [is |-> "object", fields |-> Meant(M, v)]
  BY MeaningIs
<1>6. MeaningOf(M, v).is = v.is
  BY MeaningIs
<1> QED
  BY ONLY <1>1, <1>2, <1>3, <1>4, <1>5, <1>6 DEF MeaningRight

(* Values that are alike mean the same, and only those.                    *)
LEMMA AlikeMeansTheSame ==
  ASSUME NEW B, NEW E, NEW M, Matching(E, M, B), NEW v \in Level(B), NEW w \in Level(B)
  PROVE  Alike(E, v, w) <=> MeaningOf(M, v) = MeaningOf(M, w)
<1>a. KindRight(B, v)
  BY KindsAreRight
<1>b. KindRight(B, w)
  BY KindsAreRight
<1>c. MeaningRight(M, v)
  BY MeaningsAreRight
<1>d. MeaningRight(M, w)
  BY MeaningsAreRight
<1>1. MeaningOf(M, v).is = v.is /\ MeaningOf(M, w).is = w.is
  BY ONLY <1>c, <1>d DEF MeaningRight
<1>2. CASE v.is # w.is
  BY <1>1, <1>2 DEF Alike
<1>3. CASE v.is = w.is
  <2>1. v.is \in {"string", "null", "number", "array", "object"}
    BY ONLY <1>a DEF KindRight
  <2>2. CASE v.is = "null"
    <3>1. v = w
      BY ONLY <1>3, <1>a, <1>b, <2>2 DEF KindRight
    <3>2. Alike(E, v, w)
      BY <2>2, <3>1 DEF Alike
    <3> QED
      BY <3>1, <3>2
  <2>3. CASE v.is = "number"
    <3>1. v = Number(v.n) /\ w = Number(w.n) /\ MeaningOf(M, v) = v /\ MeaningOf(M, w) = w
      BY ONLY <1>3, <1>a, <1>b, <1>c, <1>d, <2>3 DEF KindRight, MeaningRight, IsNumber
    <3>2. Alike(E, v, w) <=> v.n = w.n
      BY <1>3, <2>3 DEF Alike
    <3> QED
      BY <3>1, <3>2
  <2>4. CASE v.is = "string"
    <3>1. MeaningOf(M, v) = Plain(Text(v)) /\ MeaningOf(M, w) = Plain(Text(w))
      BY ONLY <1>3, <1>c, <1>d, <2>4 DEF MeaningRight
    <3>2. Alike(E, v, w) <=> Text(v) = Text(w)
      BY <1>3, <2>4 DEF Alike
    <3>3. \A t : Plain(t).text = t
      BY DEF Plain
    <3> QED
      BY <3>1, <3>2, <3>3
  <2>5. CASE v.is = "array"
    <3> DEFINE f == Items(M, v)
               g == Items(M, w)
    <3>1. MeaningOf(M, v) = [is |-> "array", items |-> f] /\ MeaningOf(M, w) = [is |-> "array", items |-> g]
      BY ONLY <1>3, <1>c, <1>d, <2>5 DEF MeaningRight
    <3>2. Alike(E, v, w) <=> AlikeArrays(E, v, w)
      BY <1>3, <2>5 DEF Alike
    <3>3. AlikeArrays(E, v, w) <=> f = g
      <4>1. IsArray(v, B) /\ IsArray(w, B)
        BY ONLY <1>3, <1>a, <1>b, <2>5 DEF KindRight
      <4> QED
        BY <4>1, ArraysMatch DEF Items
    <3> HIDE DEF f, g
    <3> QED
      BY <3>1, <3>2, <3>3
  <2>6. CASE v.is = "object"
    <3> DEFINE f == Meant(M, v)
               g == Meant(M, w)
    <3>1. MeaningOf(M, v) = [is |-> "object", fields |-> f] /\ MeaningOf(M, w) = [is |-> "object", fields |-> g]
      BY ONLY <1>3, <1>c, <1>d, <2>6 DEF MeaningRight
    <3>2. Alike(E, v, w) <=> AlikeObjects(E, v, w)
      BY <1>3, <2>6 DEF Alike
    <3>3. AlikeObjects(E, v, w) <=> f = g
      <4>1. IsObject(v, B) /\ IsObject(w, B)
        BY ONLY <1>3, <1>a, <1>b, <2>6 DEF KindRight
      <4> QED
        BY <4>1, ObjectsMatch
    <3> HIDE DEF f, g
    <3> QED
      BY <3>1, <3>2, <3>3
  <2> QED
    BY <2>1, <2>2, <2>3, <2>4, <2>5, <2>6
<1> QED
  BY <1>2, <1>3

(* At every depth what is emitted can be read, and values are emitted      *)
(* alike that mean the same.                                               *)
LEMMA EmittedAsMeant ==
  \A d \in 0 .. Deepest : /\ Readable(EmitCanonical[d], Nested[d])
                          /\ Matching(EmitCanonical[d], Meaning[d], Nested[d])
<1> DEFINE Right(d) == /\ Readable(EmitCanonical[d], Nested[d])
                       /\ Matching(EmitCanonical[d], Meaning[d], Nested[d])
           T == {d \in Nat : d <= Deepest => Right(d)}
<1>1. 0 \in T
  BY NestedUnfolds DEF Readable, Matching
<1>2. ASSUME NEW n \in Nat, n \in T PROVE n + 1 \in T
  <2> SUFFICES ASSUME n + 1 <= Deepest PROVE Right(n + 1)
    OBVIOUS
  <2> DEFINE B == Nested[n]
             E == EmitCanonical[n]
             M == Meaning[n]
             F == EmitCanonical[n + 1]
             G == Meaning[n + 1]
             L == Nested[n + 1]
  <2>1. n <= Deepest /\ n + 1 \in 1 .. Deepest /\ (n + 1) - 1 = n
    BY CanonicalAssumption
  <2>2. Readable(E, B) /\ Matching(E, M, B)
    BY <1>2, <2>1
  <2>3. L = Level(B)
    BY <2>1, NestedUnfolds
  <2>4. F = [value \in L |-> Emission(E, value)]
    BY <2>1, EmitUnfolds
  <2>5. G = [value \in L |-> MeaningOf(M, value)]
    BY <2>1, MeaningUnfolds
  <2> HIDE DEF B, E, M, F, G, L
  <2>6. \A v \in L : F[v] = Emission(E, v) /\ G[v] = MeaningOf(M, v)
    BY <2>4, <2>5
  <2>7. \A v, w \in L : F[v] = F[w] <=> Alike(E, v, w)
    BY <2>2, <2>3, <2>6, EmissionIsRead
  <2>8. Readable(F, L)
    <3>1. ASSUME NEW v \in L PROVE F[v] \in Words /\ F[v] # <<>> /\ F[v][1] # Mark("]")
      BY <2>2, <2>3, <2>6, EmissionOpens, OpeningsDiffer
    <3>2. ASSUME NEW v \in L, NEW w \in L, NEW s \in Words, NEW t \in Words, F[v] \o s = F[w] \o t
          PROVE  F[v] = F[w]
      <4>1. Emission(E, v) \o s = Emission(E, w) \o t
        BY <2>6, <3>2
      <4>2. v \in Level(B) /\ w \in Level(B)
        BY <2>3
      <4>3. Alike(E, v, w)
        BY <2>2, <4>1, <4>2, EmissionIsRead
      <4> QED
        BY <2>7, <4>3
    <3> QED
      BY <3>1, <3>2 DEF Readable
  <2>9. Matching(F, G, L)
    <3>1. ASSUME NEW v \in L, NEW w \in L PROVE F[v] = F[w] <=> G[v] = G[w]
      <4>1. Alike(E, v, w) <=> MeaningOf(M, v) = MeaningOf(M, w)
        BY <2>2, <2>3, AlikeMeansTheSame
      <4> QED
        BY <2>6, <2>7, <4>1
    <3> QED
      BY <3>1 DEF Matching
  <2> QED
    BY <2>8, <2>9 DEF F, G, L
<1>3. Nat \subseteq T
  <2> HIDE DEF T
  <2> QED
    BY <1>1, <1>2, EveryNumber
<1> QED
  BY <1>3, CanonicalAssumption

-----------------------------------------------------------------------------
(* What is projected of a message means what is understood of it.          *)

LEMMA KindsAre ==
  /\ Null.is = "null"
  /\ \A n : Number(n).is = "number" /\ Number(n).n = n
  /\ \A parts : JoinedText(parts).is = "string" /\ JoinedText(parts).parts = parts
  /\ \A items : Array(items).is = "array" /\ Array(items).items = items
  /\ \A fields : Object(fields).is = "object" /\ Object(fields).fields = fields
  /\ \A text : Plain(text).is = "string" /\ Plain(text).text = text
  /\ \A key, value : Field(key, value).key = key /\ Field(key, value).value = value
BY DEF Null, Number, JoinedText, Array, Object, Plain, Field

(* What can be told of a value from its meaning.                           *)
ToldBy(M, v) ==
  /\ MeaningOf(M, v).is = v.is
  /\ MeaningOf(M, v) = Null <=> v = Null
  /\ \A n : MeaningOf(M, v) = Number(n) <=> v = Number(n)
  /\ MeaningOf(M, v) = Array(<<>>) <=> v = Array(<<>>)
  /\ \A text : MeaningOf(M, v) = Plain(text) <=> Says(v, text)
  /\ v.is = "string" => MeaningOf(M, v).text = Text(v)

(* What is told of a value by its meaning is so.                           *)
LEMMA MeaningsTell ==
  ASSUME NEW B, NEW M, NEW v \in Level(B)
  PROVE  ToldBy(M, v)
<1> DEFINE x == MeaningOf(M, v)
<1>1. KindRight(B, v)
  BY KindsAreRight
<1>2. MeaningRight(M, v)
  BY MeaningsAreRight
<1>3. x.is = v.is
  BY ONLY <1>2 DEF MeaningRight
<1>4. v.is \in {"null", "number"} => x = v
  BY ONLY <1>2 DEF MeaningRight
<1>5. v.is = "string" => x = Plain(Text(v))
  BY ONLY <1>2 DEF MeaningRight
<1>6. v.is = "array" => x = [is |-> "array", items |-> Items(M, v)]
  BY ONLY <1>2 DEF MeaningRight
<1>7. v.is = "array" => IsArray(v, B)
  BY ONLY <1>1 DEF KindRight
<1> HIDE DEF x
<1>8. x = Null <=> v = Null
  BY <1>3, <1>4, KindsAre
<1>9. \A n : x = Number(n) <=> v = Number(n)
  BY <1>3, <1>4, KindsAre
<1>10. x = Array(<<>>) <=> v = Array(<<>>)
  <2>1. ASSUME v = Array(<<>>) PROVE x = Array(<<>>)
    <3>1. v.is = "array" /\ v.items = <<>>
      BY <2>1, KindsAre
    <3>2. Items(M, v) = <<>>
      BY <3>1 DEF Items
    <3> QED
      BY <1>6, <3>1, <3>2 DEF Array
  <2>2. ASSUME x = Array(<<>>) PROVE v = Array(<<>>)
    <3>1. x.is = "array" /\ x.items = <<>>
      BY <2>2, KindsAre
    <3>2. IsArray(v, B) /\ Items(M, v) = <<>>
      BY <1>3, <1>6, <1>7, <3>1
    <3>3. DOMAIN v.items = DOMAIN Items(M, v)
      BY DEF Items
    <3>4. DOMAIN v.items = 1 .. 0
      BY <3>2, <3>3
    <3>5. Len(v.items) \in Nat /\ DOMAIN v.items = 1 .. Len(v.items)
      BY <3>2, SequenceIsFunction DEF IsArray
    <3>6. Len(v.items) = 0
      BY <3>4, <3>5, SameDomain
    <3>7. v.items = <<>>
      BY <3>2, <3>6, EmptySeq DEF IsArray
    <3> QED
      BY <3>2, <3>7 DEF IsArray
  <2> QED
    BY <2>1, <2>2
<1>11. \A text : x = Plain(text) <=> Says(v, text)
  BY <1>3, <1>5, KindsAre DEF Says
<1>12. v.is = "string" => x.text = Text(v)
  BY <1>5, KindsAre
<1> QED
  BY ONLY <1>3, <1>8, <1>9, <1>10, <1>11, <1>12 DEF ToldBy, x

(* The meanings of values over B, with fields as they stand.               *)
Pairs(M, fields) == {<<field.key, M[field.value]>> : field \in fields}

LEMMA ObjectMeans ==
  ASSUME NEW M, NEW v, v.is = "object"
  PROVE  MeaningOf(M, v) = [is |-> "object", fields |-> Pairs(M, FieldSet(v.fields))]
BY DEF MeaningOf, Pairs

(* A text part is one by its meaning.                                      *)
TextPart(M, v) ==
  /\ IsExactTextPart(v) <=> IsPlainText(MeaningOf(M, v))
  /\ IsExactTextPart(v) =>
       /\ Text(ValueOf(v, "text")) \in Seq(Letters)
       /\ TextOfPart(MeaningOf(M, v)) = Text(ValueOf(v, "text"))

ToldOf(x, y) ==
  /\ x.is = y.is
  /\ x = Null <=> y = Null
  /\ \A n : x = Number(n) <=> y = Number(n)
  /\ x = Array(<<>>) <=> y = Array(<<>>)
  /\ \A text : x = Plain(text) <=> Says(y, text)
  /\ y.is = "string" => x.text = Text(y) /\ Text(y) \in Seq(Letters)

Told(M, B) == \A y \in B : ToldOf(M[y], y)

(* IsExactTextPart asks of a value what IsPlainText asks of its meaning.   *)
LEMMA TextPartsMatch ==
  ASSUME NEW B, NEW M, Told(M, B), NEW v \in Level(B)
  PROVE  TextPart(M, v)
<1> DEFINE x == MeaningOf(M, v)
           role == ValueOf(v, "type")
           text == ValueOf(v, "text")
           type == <<"type", Plain(<<"text">>)>>
<1>1. MeaningRight(M, v)
  BY MeaningsAreRight
<1>2. x.is = v.is /\ (v.is = "object" => x.fields = Meant(M, v))
  BY ONLY <1>1 DEF MeaningRight
<1>3. KindRight(B, v)
  BY KindsAreRight
<1>4. v.is = "object" => IsObject(v, B)
  BY ONLY <1>3 DEF KindRight
<1>5. v.is = "object" => \A key \in KeysOf(v) : ValueOf(v, key) \in B
  BY <1>4, ValuesByKey
<1>6. ASSUME NEW y \in B
      PROVE  /\ M[y].is = y.is /\ \A t : M[y] = Plain(t) <=> Says(y, t)
             /\ y.is = "string" => M[y].text = Text(y) /\ Text(y) \in Seq(Letters)
  <2>1. ToldOf(M[y], y)
    BY DEF Told
  <2> QED
    BY ONLY <2>1 DEF ToldOf
<1>7. IsPlainText(x) <=>
        x.is = "object" /\ \E field \in x.fields : field[1] = "text" /\ field[2].is = "string" /\ x.fields = {type, field}
  BY DEF IsPlainText
<1>8. IsExactTextPart(v) <=>
        v.is = "object" /\ KeysOf(v) = {"type", "text"} /\ Says(role, <<"text">>) /\ text.is = "string"
  BY DEF IsExactTextPart
<1> HIDE DEF x
<1>9. ASSUME IsExactTextPart(v)
      PROVE  IsPlainText(x) /\ Text(text) \in Seq(Letters) /\ TextOfPart(x) = Text(text)
  <2> DEFINE field == <<"text", M[text]>>
  <2>1. v.is = "object" /\ KeysOf(v) = {"type", "text"} /\ Says(role, <<"text">>) /\ text.is = "string"
    BY <1>8, <1>9
  <2>2. role \in B /\ text \in B
    BY <1>5, <2>1
  <2>3. M[role] = Plain(<<"text">>) /\ M[text].is = "string" /\ M[text].text = Text(text) /\ Text(text) \in Seq(Letters)
    BY <1>6, <2>1, <2>2
  <2>4. x.fields = {<<"type", M[role]>>, <<"text", M[text]>>}
    BY <1>2, <2>1 DEF Meant
  <2>5. x.fields = {type, field} /\ field[1] = "text" /\ field[2] = M[text] /\ type[1] = "type"
    BY <2>3, <2>4
  <2>6. TextOfPart(x) = (CHOOSE f \in x.fields : f[1] = "text")[2].text
    BY DEF TextOfPart
  <2> HIDE DEF field, type, role, text
  <2>7. (CHOOSE f \in x.fields : f[1] = "text") = field
    BY <2>5
  <2>8. IsPlainText(x)
    BY <1>2, <1>7, <2>1, <2>3, <2>5
  <2> QED
    BY <2>3, <2>5, <2>6, <2>7, <2>8
<1>10. ASSUME IsPlainText(x) PROVE IsExactTextPart(v)
  <2>1. v.is = "object" /\ x.fields = Meant(M, v)
    BY <1>2, <1>7, <1>10
  <2>2. PICK field \in x.fields : field[1] = "text" /\ field[2].is = "string" /\ x.fields = {type, field}
    BY <1>7, <1>10
  <2>3. type[1] = "type" /\ type[2] = Plain(<<"text">>)
    OBVIOUS
  <2>4. \A pair \in x.fields : \E key \in KeysOf(v) : pair = <<key, M[ValueOf(v, key)]>>
    BY <2>1 DEF Meant
  <2>5. \A key \in KeysOf(v) : <<key, M[ValueOf(v, key)]>> \in x.fields
    BY <2>1 DEF Meant
  <2> HIDE DEF type
  <2>6. "type" \in KeysOf(v) /\ M[ValueOf(v, "type")] = Plain(<<"text">>)
    <3>1. PICK key \in KeysOf(v) : type = <<key, M[ValueOf(v, key)]>>
      BY <2>2, <2>4
    <3>2. key = "type"
      BY <2>3, <3>1
    <3> QED
      BY <2>3, <3>1, <3>2
  <2>7. "text" \in KeysOf(v) /\ M[ValueOf(v, "text")].is = "string"
    <3>1. PICK key \in KeysOf(v) : field = <<key, M[ValueOf(v, key)]>>
      BY <2>2, <2>4
    <3>2. key = "text"
      BY <2>2, <3>1
    <3> QED
      BY <2>2, <3>1, <3>2
  <2>8. ASSUME NEW key \in KeysOf(v) PROVE key \in {"type", "text"}
    <3>1. <<key, M[ValueOf(v, key)]>> = type \/ <<key, M[ValueOf(v, key)]>> = field
      BY <2>2, <2>5
    <3> QED
      BY <2>2, <2>3, <3>1
  <2>9. KeysOf(v) = {"type", "text"}
    BY <2>6, <2>7, <2>8
  <2>10. role \in B /\ text \in B
    BY <1>5, <2>1, <2>6, <2>7
  <2>11. Says(role, <<"text">>) /\ text.is = "string"
    BY <1>6, <2>6, <2>7, <2>10
  <2> QED
    BY <1>8, <2>1, <2>9, <2>11
<1> QED
  BY <1>9, <1>10 DEF TextPart, x

(* A meaning tells what the projection asks of a value.                    *)
LEMMA LevelIsTold ==
  ASSUME NEW B, NEW M, NEW L, NEW G, L = Level(B), G = [v \in L |-> MeaningOf(M, v)]
  PROVE  Told(G, L)
<1>1. ASSUME NEW y \in L PROVE ToldOf(G[y], y)
  <2>1. y \in Level(B) /\ G[y] = MeaningOf(M, y)
    OBVIOUS
  <2>2. ToldBy(M, y)
    BY <2>1, MeaningsTell
  <2>3. KindRight(B, y)
    BY <2>1, KindsAreRight
  <2>4. y.is = "string" => Text(y) \in Seq(Letters)
    <3>1. y.is = "string" => IsText(y)
      BY ONLY <2>3 DEF KindRight
    <3> QED
      BY <3>1, TextTyped
  <2> QED
    BY ONLY <2>1, <2>2, <2>4 DEF ToldBy, ToldOf
<1> QED
  BY ONLY <1>1 DEF Told

(* Which values below are text parts, and the text of each, is told.       *)
PartsTold(K, A) ==
  \A x \in A : /\ IsExactTextPart(x) <=> IsPlainText(K[x])
               /\ IsExactTextPart(x) =>
                    /\ Text(ValueOf(x, "text")) \in Seq(Letters)
                    /\ TextOfPart(K[x]) = Text(ValueOf(x, "text"))

(* A meaning tells whether a value is an exact text part, and which text   *)
(* it has.                                                                 *)
LEMMA PartsAreTold ==
  ASSUME NEW B, NEW M, Told(M, B), NEW L, NEW G, L = Level(B), G = [v \in L |-> MeaningOf(M, v)]
  PROVE  PartsTold(G, L)
<1>1. ASSUME NEW x \in L
      PROVE  /\ IsExactTextPart(x) <=> IsPlainText(G[x])
             /\ IsExactTextPart(x) =>
                  /\ Text(ValueOf(x, "text")) \in Seq(Letters)
                  /\ TextOfPart(G[x]) = Text(ValueOf(x, "text"))
  <2>1. x \in Level(B) /\ G[x] = MeaningOf(M, x)
    OBVIOUS
  <2>2. TextPart(M, x)
    BY <2>1, TextPartsMatch
  <2> QED
    BY ONLY <2>1, <2>2 DEF TextPart
<1> QED
  BY ONLY <1>1 DEF PartsTold

(* The text of a string written in one part or in many.                    *)
LEMMA TextOfParts ==
  /\ <<>> \in Seq(Seq(Letters)) /\ Text(JoinedText(<<>>)) = <<>>
  /\ \A parts \in Seq(Seq(Letters)) :
       Text(JoinedText(parts)) = Flattened(Letters, parts) /\ Text(JoinedText(parts)) \in Seq(Letters)
<1>1. \A parts : Text(JoinedText(parts)) = Flattened(Letters, parts)
  BY KindsAre DEF Text
<1>2. <<>> \in Seq(Seq(Letters)) /\ Flattened(Letters, <<>>) = <<>>
  BY FlattenedUnfolds
<1>3. \A parts \in Seq(Seq(Letters)) : Flattened(Letters, parts) \in Seq(Letters)
  BY FlattenedUnfolds
<1> QED
  BY ONLY <1>1, <1>2, <1>3

(* u is a value, and its meaning is x.                                     *)
ProjectsTo(M, B, u, x) == u \in Level(B) /\ MeaningOf(M, u) = x

(* Parts joined mean their text.                                           *)
LEMMA TextMeans ==
  ASSUME NEW A, NEW K, NEW parts \in Seq(Seq(Letters))
  PROVE  ProjectsTo(K, A, JoinedText(parts), Plain(Flattened(Letters, parts)))
<1>1. JoinedText(parts) \in Level(A)
  BY KindsAreValues
<1>2. MeaningRight(K, JoinedText(parts))
  BY <1>1, MeaningsAreRight
<1>3. JoinedText(parts).is = "string"
  BY KindsAre
<1>4. MeaningOf(K, JoinedText(parts)) = Plain(Text(JoinedText(parts)))
  BY ONLY <1>2, <1>3 DEF MeaningRight
<1>5. Text(JoinedText(parts)) = Flattened(Letters, parts)
  BY TextOfParts
<1> QED
  BY ONLY <1>1, <1>4, <1>5 DEF ProjectsTo

(* NormalizedContent means what is said with the content.                  *)
LEMMA ContentMeans ==
  ASSUME NEW A, NEW K, PartsTold(K, A), NEW v \in Level(A)
  PROVE  ProjectsTo(K, A, NormalizedContent(v), Said(MeaningOf(K, v)))
<1> DEFINE x == MeaningOf(K, v)
           a == v.items
           n == Len(a)
           TextsOnly == v.is = "array" /\ \A i \in DOMAIN a : IsExactTextPart(a[i])
           PlainOnly == x.is = "array" /\ \A i \in DOMAIN x.items : IsPlainText(x.items[i])
           parts == [i \in DOMAIN a |-> Text(ValueOf(a[i], "text"))]
           said == [i \in DOMAIN x.items |-> TextOfPart(x.items[i])]
<1>1. ToldBy(K, v)
  BY MeaningsTell
<1>2. x.is = v.is /\ (x = Null <=> v = Null)
  BY ONLY <1>1 DEF ToldBy
<1>3. KindRight(A, v)
  BY KindsAreRight
<1>4. MeaningRight(K, v)
  BY MeaningsAreRight
<1>5. ASSUME v.is = "array"
      PROVE  /\ n \in Nat /\ DOMAIN a = 1 .. n /\ \A i \in 1 .. n : a[i] \in A
             /\ DOMAIN x.items = 1 .. n /\ \A i \in 1 .. n : x.items[i] = K[a[i]]
  <2>1. x = [is |-> "array", items |-> Items(K, v)]
    BY ONLY <1>4, <1>5 DEF MeaningRight
  <2>2. IsArray(v, A)
    BY ONLY <1>3, <1>5 DEF KindRight
  <2>3. n \in Nat /\ DOMAIN a = 1 .. n /\ \A i \in 1 .. n : a[i] \in A
    BY <2>2, SequenceIsFunction DEF IsArray
  <2>4. x.items = [i \in DOMAIN a |-> K[a[i]]]
    BY <2>1 DEF Items
  <2> HIDE DEF x, a, n
  <2> QED
    BY <2>3, <2>4
<1>6. NormalizedContent(v) = IF v = Null THEN JoinedText(<<>>) ELSE IF TextsOnly THEN JoinedText(parts) ELSE v
  BY DEF NormalizedContent
<1>7. Said(x) = IF x = Null THEN Plain(<<>>) ELSE IF PlainOnly THEN Plain(Flattened(Letters, said)) ELSE x
  BY DEF Said
<1>8. TextsOnly <=> PlainOnly
  <2> HIDE DEF x, a, n
  <2> QED
    BY <1>2, <1>5 DEF PartsTold
<1>9. CASE v = Null
  <2>1. <<>> \in Seq(Seq(Letters)) /\ Flattened(Letters, <<>>) = <<>>
    BY FlattenedUnfolds
  <2>2. ProjectsTo(K, A, JoinedText(<<>>), Plain(Flattened(Letters, <<>>)))
    BY <2>1, TextMeans
  <2> HIDE DEF x, TextsOnly, PlainOnly, parts, said
  <2>3. NormalizedContent(v) = JoinedText(<<>>) /\ Said(x) = Plain(<<>>)
    BY <1>2, <1>6, <1>7, <1>9
  <2> QED
    BY <2>1, <2>2, <2>3 DEF x
<1>10. CASE v # Null /\ TextsOnly
  <2>1. parts \in Seq(Seq(Letters)) /\ said = parts
    <3> HIDE DEF x, n, a
    <3>1. v.is = "array"
      BY <1>10
    <3>2. n \in Nat /\ DOMAIN a = 1 .. n /\ \A i \in 1 .. n : a[i] \in A
      BY <1>5, <3>1
    <3>3. DOMAIN x.items = 1 .. n /\ \A i \in 1 .. n : x.items[i] = K[a[i]]
      BY <1>5, <3>1
    <3>4. ASSUME NEW i \in 1 .. n
          PROVE  /\ Text(ValueOf(a[i], "text")) \in Seq(Letters)
                 /\ TextOfPart(x.items[i]) = Text(ValueOf(a[i], "text"))
      <4>1. a[i] \in A /\ IsExactTextPart(a[i]) /\ x.items[i] = K[a[i]]
        BY <1>10, <3>2, <3>3
      <4> QED
        BY <4>1 DEF PartsTold
    <3>5. parts \in [1 .. n -> Seq(Letters)]
      BY <3>2, <3>4
    <3>6. said = parts
      BY <3>2, <3>3, <3>4
    <3> HIDE DEF parts, said
    <3> QED
      BY <3>2, <3>5, <3>6, FunctionIsSequence
  <2> HIDE DEF x, parts, said
  <2>2. ProjectsTo(K, A, JoinedText(parts), Plain(Flattened(Letters, parts)))
    BY <2>1, TextMeans
  <2> HIDE DEF TextsOnly, PlainOnly
  <2>3. NormalizedContent(v) = JoinedText(parts) /\ Said(x) = Plain(Flattened(Letters, parts))
    BY <1>2, <1>6, <1>7, <1>8, <1>10, <2>1
  <2> QED
    BY <2>2, <2>3 DEF x
<1>11. CASE v # Null /\ ~TextsOnly
  <2> HIDE DEF x, parts, said, TextsOnly, PlainOnly
  <2>1. NormalizedContent(v) = v /\ Said(x) = x
    BY <1>2, <1>6, <1>7, <1>8, <1>11
  <2> QED
    BY <2>1 DEF x, ProjectsTo
<1> QED
  BY <1>9, <1>10, <1>11

(* A list of fields is one of an object when no key stands twice in it.    *)
LEMMA FieldsByKey ==
  ASSUME NEW B, NEW fields
  PROVE  fields \in FieldsOver(B) <=>
           /\ fields \in Seq([key : Keys, value : B])
           /\ OccursOnce(fields)
           /\ \A f, g \in FieldSet(fields) : f.key = g.key => f = g
<1> DEFINE R == [key : Keys, value : B]
<1>1. fields \in FieldsOver(B) <=>
        fields \in Seq(R) /\ \A i, j \in DOMAIN fields : fields[i].key = fields[j].key => i = j
  BY DEF FieldsOver
<1>2. FieldSet(fields) = {fields[i] : i \in DOMAIN fields}
  BY DEF FieldSet
<1> HIDE DEF R
<1>3. (\A i, j \in DOMAIN fields : fields[i].key = fields[j].key => i = j) <=>
        OccursOnce(fields) /\ \A f, g \in FieldSet(fields) : f.key = g.key => f = g
  BY ONLY <1>2 DEF OccursOnce
<1> QED
  BY ONLY <1>1, <1>3 DEF R

OmittingKeeps(B, fields, omitted) ==
  /\ Omitting(fields, omitted) \in FieldsOver(B)
  /\ FieldSet(Omitting(fields, omitted)) = FieldSet(fields) \ omitted

(* Omitting leaves the other fields of an object.                          *)
LEMMA OmittingLeaves ==
  ASSUME NEW B, NEW omitted, NEW fields \in FieldsOver(B)
  PROVE  OmittingKeeps(B, fields, omitted)
<1> DEFINE R == [key : Keys, value : B]
           S == FieldSet(fields)
           kept == Omitting(fields, omitted)
<1>1. fields \in Seq(R) /\ OccursOnce(fields) /\ \A f, g \in S : f.key = g.key => f = g
  BY FieldsByKey
<1>2. S = Elements(fields) /\ FieldSet(kept) = Elements(kept)
  BY DEF FieldSet, Elements
<1>3. kept = Dropping(S, fields, omitted)
  BY DEF Omitting
<1> HIDE DEF R, S, kept
<1>4. fields \in Seq(S)
  <2>1. Len(fields) \in Nat /\ DOMAIN fields = 1 .. Len(fields) /\ \A i \in 1 .. Len(fields) : fields[i] \in R
    BY <1>1, SequenceIsFunction
  <2>2. \A i \in 1 .. Len(fields) : fields[i] \in S
    BY <1>2, <2>1 DEF Elements
  <2>3. fields = [i \in DOMAIN fields |-> fields[i]]
    BY <1>1
  <2>4. fields \in [1 .. Len(fields) -> S]
    BY <2>1, <2>2, <2>3
  <2> QED
    BY <2>1, <2>4, FunctionIsSequence
<1>5. /\ Dropping(S, fields, omitted) \in Seq(S)
      /\ Elements(Dropping(S, fields, omitted)) = Elements(fields) \ omitted
      /\ OccursOnce(fields) => OccursOnce(Dropping(S, fields, omitted))
  BY <1>4, DroppingLeaves
<1>6. kept \in Seq(S) /\ FieldSet(kept) = S \ omitted /\ OccursOnce(kept)
  BY <1>1, <1>2, <1>3, <1>5
<1>7. S \subseteq R
  <2>1. \A i \in DOMAIN fields : fields[i] \in R
    BY <1>1, SequenceIsFunction
  <2> QED
    BY <1>2, <2>1 DEF Elements
<1>8. kept \in Seq(R)
  BY <1>6, <1>7, WiderElements
<1>9. \A f, g \in FieldSet(kept) : f.key = g.key => f = g
  BY <1>1, <1>6
<1>10. kept \in FieldsOver(B)
  BY <1>6, <1>8, <1>9, FieldsByKey DEF R
<1> QED
  BY <1>6, <1>10 DEF OmittingKeeps, S, kept

(* Fields whose meanings say the same are the same when one is told.       *)
CallMeans(M, B, v, at) == ProjectsTo(M, B, ProjectedCall(v, at), CalledAt(MeaningOf(M, v), at))

(* ProjectedCall means the call as it is called at its position.           *)
LEMMA CallsMean ==
  ASSUME NEW B, NEW M, Told(M, B), NEW v \in Level(B), NEW at \in Nat
  PROVE  CallMeans(M, B, v, at)
<1> DEFINE x == MeaningOf(M, v)
           index == Field("index", Number(at))
           kept == Omitting(v.fields, {index})
           S == FieldSet(v.fields)
<1>1. ToldBy(M, v)
  BY MeaningsTell
<1>2. x.is = v.is
  BY ONLY <1>1 DEF ToldBy
<1>3. CASE v.is # "object"
  <2>1. ProjectedCall(v, at) = v /\ CalledAt(x, at) = x
    BY <1>2, <1>3 DEF ProjectedCall, CalledAt
  <2> QED
    BY <2>1 DEF CallMeans, ProjectsTo
<1>4. CASE v.is = "object"
  <2>1. KindRight(B, v)
    BY KindsAreRight
  <2>2. v.fields \in FieldsOver(B)
    BY ONLY <1>4, <2>1 DEF KindRight, IsObject
  <2>3. OmittingKeeps(B, v.fields, {index})
    BY <2>2, OmittingLeaves
  <2>4. kept \in FieldsOver(B) /\ FieldSet(kept) = S \ {index}
    BY ONLY <2>3 DEF OmittingKeeps
  <2>5. x = [is |-> "object", fields |-> Pairs(M, S)]
    BY <1>4, ObjectMeans
  <2>6. ProjectedCall(v, at) = Object(kept)
    BY <1>4 DEF ProjectedCall
  <2>7. CalledAt(x, at) = [x EXCEPT !.fields = @ \ {<<"index", Number(at)>>}]
    BY <1>2, <1>4 DEF CalledAt
  <2>8. S \subseteq [key : Keys, value : B]
    <3>1. \A i \in DOMAIN v.fields : v.fields[i] \in [key : Keys, value : B]
      BY <2>2, FieldsByKey, SequenceIsFunction
    <3> QED
      BY <3>1 DEF FieldSet
  <2> HIDE DEF x, kept, S
  <2>9. CalledAt(x, at) = [is |-> "object", fields |-> Pairs(M, S) \ {<<"index", Number(at)>>}]
    <3> DEFINE was == Pairs(M, S)
               less == {<<"index", Number(at)>>}
    <3> HIDE DEF was, less
    <3>1. x = [is |-> "object", fields |-> was] /\ CalledAt(x, at) = [x EXCEPT !.fields = @ \ less]
      BY <2>5, <2>7 DEF was, less
    <3>2. CalledAt(x, at) = [is |-> "object", fields |-> was \ less]
      BY <3>1
    <3> QED
      BY <3>2 DEF was, less
  <2>10. Pairs(M, S \ {index}) = Pairs(M, S) \ {<<"index", Number(at)>>}
    <3>1. \A g \in S : <<g.key, M[g.value]>> = <<"index", Number(at)>> <=> g = index
      <4> TAKE g \in S
      <4>1. g = Field(g.key, g.value) /\ g.value \in B
        BY <2>8 DEF Field
      <4>2. ToldOf(M[g.value], g.value)
        BY <4>1 DEF Told
      <4>3. M[g.value] = Number(at) <=> g.value = Number(at)
        BY ONLY <4>2 DEF ToldOf
      <4>4. index.key = "index" /\ index.value = Number(at)
        BY KindsAre
      <4>5. g = index <=> g.key = "index" /\ g.value = Number(at)
        BY ONLY <4>1, <4>4
      <4>6. <<g.key, M[g.value]>> = <<"index", Number(at)>> <=> g.key = "index" /\ M[g.value] = Number(at)
        OBVIOUS
      <4> QED
        BY ONLY <4>3, <4>5, <4>6
    <3> HIDE DEF index
    <3> QED
      BY ONLY <3>1 DEF Pairs
  <2>11. Object(kept) \in Level(B)
    BY <2>4, KindsAreValues
  <2>12. MeaningOf(M, Object(kept)) = [is |-> "object", fields |-> Pairs(M, FieldSet(kept))]
    <3>1. Object(kept).is = "object" /\ Object(kept).fields = kept
      BY KindsAre
    <3> QED
      BY <3>1, ObjectMeans
  <2> HIDE DEF index
  <2>13. MeaningOf(M, Object(kept)) = CalledAt(x, at)
    BY ONLY <2>4, <2>9, <2>10, <2>12
  <2> QED
    BY <2>6, <2>11, <2>13 DEF CallMeans, ProjectsTo, x
<1> QED
  BY <1>3, <1>4

CallsTold(K, A) ==
  \A x \in A : \A at \in Nat : ProjectedCall(x, at) \in A /\ K[ProjectedCall(x, at)] = CalledAt(K[x], at)

(* To project a call is to leave out of its meaning the index that is its  *)
(* position.                                                               *)
LEMMA CallsAreTold ==
  ASSUME NEW B, NEW M, Told(M, B), NEW L, NEW G, L = Level(B), G = [v \in L |-> MeaningOf(M, v)]
  PROVE  CallsTold(G, L)
<1>1. ASSUME NEW x \in L, NEW at \in Nat
      PROVE  ProjectedCall(x, at) \in L /\ G[ProjectedCall(x, at)] = CalledAt(G[x], at)
  <2>1. CallMeans(M, B, x, at)
    BY CallsMean
  <2>2. ProjectedCall(x, at) \in L /\ MeaningOf(M, ProjectedCall(x, at)) = CalledAt(MeaningOf(M, x), at)
    BY ONLY <2>1, L = Level(B) DEF CallMeans, ProjectsTo
  <2> QED
    BY <2>2
<1> QED
  BY ONLY <1>1 DEF CallsTold

(* ProjectedCalls means the calls as they are called.                      *)
LEMMA CallListsMean ==
  ASSUME NEW A, NEW K, CallsTold(K, A), NEW v \in Level(A)
  PROVE  ProjectsTo(K, A, ProjectedCalls(v), Called(MeaningOf(K, v)))
<1> DEFINE x == MeaningOf(K, v)
           a == v.items
           n == Len(a)
           calls == [i \in DOMAIN a |-> ProjectedCall(a[i], i - 1)]
<1>1. ToldBy(K, v)
  BY MeaningsTell
<1>2. x.is = v.is
  BY ONLY <1>1 DEF ToldBy
<1>3. CASE v.is # "array"
  <2>1. ProjectedCalls(v) = v /\ Called(x) = x
    BY <1>2, <1>3 DEF ProjectedCalls, Called
  <2> QED
    BY <2>1 DEF ProjectsTo
<1>4. CASE v.is = "array"
  <2>1. KindRight(A, v)
    BY KindsAreRight
  <2>2. MeaningRight(K, v)
    BY MeaningsAreRight
  <2>3. x = [is |-> "array", items |-> Items(K, v)]
    BY ONLY <1>4, <2>2 DEF MeaningRight
  <2>4. v.items \in Seq(A)
    BY ONLY <1>4, <2>1 DEF KindRight, IsArray
  <2>5. n \in Nat /\ DOMAIN a = 1 .. n /\ \A i \in 1 .. n : a[i] \in A
    BY <2>4, SequenceIsFunction
  <2>6. Called(x) = [x EXCEPT !.items = [i \in DOMAIN @ |-> CalledAt(@[i], i - 1)]]
    <3>1. x.is = "array"
      BY <1>2, <1>4
    <3> HIDE DEF x
    <3> QED
      BY ONLY <3>1 DEF Called
  <2>7. Items(K, v) = [i \in DOMAIN a |-> K[a[i]]]
    BY DEF Items
  <2> HIDE DEF x, n, a
  <2>8. Called(x) = [is |-> "array", items |-> [i \in 1 .. n |-> CalledAt(K[a[i]], i - 1)]]
    <3> DEFINE was == Items(K, v)
               now == [i \in DOMAIN was |-> CalledAt(was[i], i - 1)]
    <3>1. x = [is |-> "array", items |-> was]
      BY <2>3
    <3>2. was = [i \in 1 .. n |-> K[a[i]]]
      BY <2>5, <2>7
    <3> HIDE DEF was
    <3>3. Called(x) = [is |-> "array", items |-> now]
      BY <2>6, <3>1
    <3>4. now = [i \in 1 .. n |-> CalledAt(K[a[i]], i - 1)]
      BY <3>2
    <3> QED
      BY ONLY <3>3, <3>4
  <2>9. \A i \in 1 .. n : ProjectedCall(a[i], i - 1) \in A /\ K[ProjectedCall(a[i], i - 1)] = CalledAt(K[a[i]], i - 1)
    <3> TAKE i \in 1 .. n
    <3>1. i - 1 \in Nat /\ a[i] \in A
      BY <2>5
    <3> QED
      BY <3>1 DEF CallsTold
  <2>10. calls \in [1 .. n -> A] /\ DOMAIN calls = 1 .. n /\ \A i \in 1 .. n : calls[i] = ProjectedCall(a[i], i - 1)
    BY <2>5, <2>9
  <2>11. ProjectedCalls(v) = Array(calls)
    BY <1>4 DEF ProjectedCalls, a
  <2> HIDE DEF calls
  <2>12. calls \in Seq(A)
    BY <2>5, <2>10, FunctionIsSequence
  <2>13. Array(calls) \in Level(A) /\ Array(calls).is = "array" /\ Array(calls).items = calls
    BY <2>12, KindsAreValues, KindsAre
  <2>14. MeaningRight(K, Array(calls))
    BY <2>13, MeaningsAreRight
  <2>15. MeaningOf(K, Array(calls)) = [is |-> "array", items |-> Items(K, Array(calls))]
    BY ONLY <2>13, <2>14 DEF MeaningRight
  <2>16. Items(K, Array(calls)) = [i \in 1 .. n |-> CalledAt(K[a[i]], i - 1)]
    <3>1. Items(K, Array(calls)) = [i \in DOMAIN calls |-> K[calls[i]]]
      BY <2>13 DEF Items
    <3> QED
      BY <2>9, <2>10, <3>1
  <2>17. MeaningOf(K, Array(calls)) = Called(x)
    BY ONLY <2>8, <2>15, <2>16
  <2> QED
    BY <2>11, <2>13, <2>17 DEF ProjectsTo, x
<1> QED
  BY <1>3, <1>4

FieldOver(B) == [key : Keys, value : B]

LEMMA FieldsTyped ==
  ASSUME NEW B, NEW fields \in FieldsOver(B)
  PROVE  /\ fields \in Seq(FieldOver(B))
         /\ Len(fields) \in Nat /\ DOMAIN fields = 1 .. Len(fields)
         /\ \A i \in 1 .. Len(fields) : fields[i] \in FieldOver(B)
         /\ \A i, j \in 1 .. Len(fields) : fields[i].key = fields[j].key => i = j
         /\ FieldSet(fields) \subseteq FieldOver(B)
         /\ FieldSet(fields) = {fields[i] : i \in 1 .. Len(fields)}
<1> DEFINE R == FieldOver(B)
           n == Len(fields)
<1>1. fields \in Seq(R) /\ \A i, j \in DOMAIN fields : fields[i].key = fields[j].key => i = j
  BY DEF FieldsOver, FieldOver
<1> HIDE DEF R
<1>2. n \in Nat /\ DOMAIN fields = 1 .. n /\ \A i \in 1 .. n : fields[i] \in R
  BY <1>1, SequenceIsFunction
<1>3. FieldSet(fields) = {fields[i] : i \in 1 .. n}
  BY <1>2 DEF FieldSet
<1>4. FieldSet(fields) \subseteq R
  BY ONLY <1>2, <1>3
<1> QED
  BY ONLY <1>1, <1>2, <1>3, <1>4 DEF R

(* A field added under a new key makes an object again.                    *)
LEMMA FieldAdded ==
  ASSUME NEW B, NEW fields \in FieldsOver(B), NEW f \in FieldOver(B),
         \A g \in FieldSet(fields) : g.key # f.key
  PROVE  /\ Append(fields, f) \in FieldsOver(B) /\ fields \o <<f>> = Append(fields, f)
         /\ FieldSet(Append(fields, f)) = FieldSet(fields) \cup {f}
<1> DEFINE R == FieldOver(B)
           S == FieldSet(fields)
           more == Append(fields, f)
<1>1. fields \in Seq(R) /\ OccursOnce(fields) /\ \A g, h \in S : g.key = h.key => g = h
  BY FieldsByKey DEF FieldOver
<1>2. S = Elements(fields) /\ FieldSet(more) = Elements(more)
  BY DEF FieldSet, Elements
<1> HIDE DEF R, S
<1>3. /\ more \in Seq(R)
      /\ Elements(more) = Elements(fields) \cup {f}
      /\ OccursOnce(more) <=> OccursOnce(fields) /\ f \notin Elements(fields)
  BY <1>1, AppendElements DEF R
<1>4. f \notin S
  BY DEF S
<1>5. OccursOnce(more) /\ FieldSet(more) = S \cup {f}
  BY <1>1, <1>2, <1>3, <1>4
<1>6. \A g, h \in FieldSet(more) : g.key = h.key => g = h
  BY <1>1, <1>5 DEF S
<1> HIDE DEF more
<1>7. more \in FieldsOver(B)
  BY <1>3, <1>5, <1>6, FieldsByKey DEF R, FieldOver
<1>8. fields \o <<f>> = more
  BY <1>1 DEF more, R
<1> QED
  BY <1>5, <1>7, <1>8 DEF more, S

(* What is projected of a field means what is said with it.                *)
FieldMeans(M, B, f) ==
  /\ ProjectedField(f) \in FieldOver(B) /\ ProjectedField(f).key = f.key
  /\ f.key = "content" => M[ProjectedField(f).value] = Said(M[f.value])
  /\ f.key = "tool_calls" => M[ProjectedField(f).value] = Called(M[f.value])
  /\ f.key \notin {"content", "tool_calls"} => ProjectedField(f) = f

(* To project a field is to take its meaning as it is understood.          *)
LEMMA FieldsMean ==
  ASSUME NEW A, NEW K, PartsTold(K, A), CallsTold(K, A),
         NEW B, NEW M, B = Level(A), M = [v \in B |-> MeaningOf(K, v)], NEW f \in FieldOver(B)
  PROVE  FieldMeans(M, B, f)
<1> DEFINE p == ProjectedField(f)
<1>1. f.key \in Keys /\ f.value \in B
  BY DEF FieldOver
<1>2. \A key \in Keys : \A v \in B : Field(key, v) \in FieldOver(B)
  BY DEF FieldOver, Field
<1>3. CASE f.key = "content"
  <2>1. ProjectsTo(K, A, NormalizedContent(f.value), Said(MeaningOf(K, f.value)))
    BY <1>1, ContentMeans
  <2>2. NormalizedContent(f.value) \in B /\ M[NormalizedContent(f.value)] = Said(M[f.value])
    BY <1>1, <2>1 DEF ProjectsTo
  <2>3. p = Field("content", NormalizedContent(f.value))
    BY <1>3 DEF ProjectedField
  <2>4. p.key = "content" /\ p.value = NormalizedContent(f.value)
    BY <2>3, KindsAre
  <2>5. p \in FieldOver(B)
    BY <1>1, <1>2, <1>3, <2>2, <2>3
  <2> QED
    BY ONLY <1>3, <2>2, <2>4, <2>5 DEF FieldMeans
<1>4. CASE f.key = "tool_calls"
  <2>1. ProjectsTo(K, A, ProjectedCalls(f.value), Called(MeaningOf(K, f.value)))
    BY <1>1, CallListsMean
  <2>2. ProjectedCalls(f.value) \in B /\ M[ProjectedCalls(f.value)] = Called(M[f.value])
    BY <1>1, <2>1 DEF ProjectsTo
  <2>3. p = Field("tool_calls", ProjectedCalls(f.value))
    BY <1>4 DEF ProjectedField
  <2>4. p.key = "tool_calls" /\ p.value = ProjectedCalls(f.value)
    BY <2>3, KindsAre
  <2>5. p \in FieldOver(B)
    BY <1>1, <1>2, <1>4, <2>2, <2>3
  <2> QED
    BY ONLY <1>4, <2>2, <2>4, <2>5 DEF FieldMeans
<1>5. CASE f.key \notin {"content", "tool_calls"}
  <2>1. p = f
    BY <1>5 DEF ProjectedField
  <2> QED
    BY <1>5, <2>1 DEF FieldMeans
<1> QED
  BY <1>3, <1>4, <1>5

(* The fields that are kept, each projected.                               *)
LEMMA FieldsProjected ==
  ASSUME NEW B, NEW fields \in FieldsOver(B),
         \A f \in FieldOver(B) : ProjectedField(f) \in FieldOver(B) /\ ProjectedField(f).key = f.key
  PROVE  /\ [i \in DOMAIN fields |-> ProjectedField(fields[i])] \in FieldsOver(B)
         /\ FieldSet([i \in DOMAIN fields |-> ProjectedField(fields[i])]) = {ProjectedField(f) : f \in FieldSet(fields)}
<1> DEFINE R == FieldOver(B)
           n == Len(fields)
           now == [i \in DOMAIN fields |-> ProjectedField(fields[i])]
<1>1. /\ n \in Nat /\ DOMAIN fields = 1 .. n
      /\ \A i \in 1 .. n : fields[i] \in R
      /\ \A i, j \in 1 .. n : fields[i].key = fields[j].key => i = j
      /\ FieldSet(fields) = {fields[i] : i \in 1 .. n}
  BY FieldsTyped
<1> HIDE DEF n, R
<1>2. now \in [1 .. n -> R] /\ DOMAIN now = 1 .. n /\ \A i \in 1 .. n : now[i] = ProjectedField(fields[i])
  BY <1>1 DEF R
<1> HIDE DEF now
<1>3. now \in Seq(R)
  BY <1>1, <1>2, FunctionIsSequence
<1>4. \A i, j \in DOMAIN now : now[i].key = now[j].key => i = j
  BY <1>1, <1>2 DEF R
<1>5. now \in FieldsOver(B)
  BY <1>3, <1>4 DEF FieldsOver, FieldOver, R
<1>6. FieldSet(now) = {ProjectedField(f) : f \in FieldSet(fields)}
  <2>1. FieldSet(now) = {now[i] : i \in 1 .. n}
    BY <1>2 DEF FieldSet
  <2> QED
    BY ONLY <1>1, <1>2, <2>1
<1> QED
  BY <1>5, <1>6 DEF now

Entered(B, fields, m) ==
  /\ CanonicalEntries(m) \in FieldsOver(B)
  /\ FieldSet(CanonicalEntries(m)) =
       {ProjectedField(f) : f \in FieldSet(fields) \ {Field("tool_calls", Array(<<>>))}}
       \cup (IF "content" \in KeysOf(m) THEN {} ELSE {Field("content", JoinedText(<<>>))})

(* The entries of a message are those fields, and content if it had none.  *)
LEMMA EntriesAre ==
  ASSUME NEW A, NEW B, B = Level(A), NEW fields \in FieldsOver(B),
         \A f \in FieldOver(B) : ProjectedField(f) \in FieldOver(B) /\ ProjectedField(f).key = f.key
  PROVE  Entered(B, fields, Object(fields))
<1> DEFINE m == Object(fields)
           none == {Field("tool_calls", Array(<<>>))}
           S == FieldSet(fields)
           kept == Omitting(fields, none)
           now == [i \in DOMAIN kept |-> ProjectedField(kept[i])]
           P == {ProjectedField(f) : f \in S \ none}
           empty == Field("content", JoinedText(<<>>))
<1>1. m.fields = fields
  BY KindsAre
<1>2. OmittingKeeps(B, fields, none)
  BY OmittingLeaves
<1>3. kept \in FieldsOver(B) /\ FieldSet(kept) = S \ none
  BY ONLY <1>2 DEF OmittingKeeps
<1>4. CanonicalEntries(m) = now \o IF "content" \in KeysOf(m) THEN <<>> ELSE <<empty>>
  BY <1>1 DEF CanonicalEntries
<1>5. KeysOf(m) = {f.key : f \in S}
  BY <1>1 DEF KeysOf, FieldSet
<1> HIDE DEF m, none, S, kept
<1>6. now \in FieldsOver(B) /\ FieldSet(now) = P
  BY <1>3, FieldsProjected
<1> HIDE DEF now, empty
<1>7. CASE "content" \in KeysOf(m)
  <2>1. CanonicalEntries(m) = now \o <<>>
    BY <1>4, <1>7
  <2>2. now \in Seq(FieldOver(B))
    BY <1>6, FieldsTyped
  <2>3. now \o <<>> = now
    BY <2>2, ConcatFacts
  <2>4. CanonicalEntries(m) = now /\ P \cup {} = P
    BY <2>1, <2>3
  <2> QED
    BY <1>6, <1>7, <2>4 DEF Entered, m, S, none
<1>8. CASE "content" \notin KeysOf(m)
  <2>1. CanonicalEntries(m) = now \o <<empty>>
    BY <1>4, <1>8
  <2>2. empty \in FieldOver(B) /\ empty.key = "content"
    <3>1. JoinedText(<<>>) \in B
      BY TextOfParts, KindsAreValues
    <3>2. "content" \in Keys
      BY CanonicalAssumption
    <3> QED
      BY <3>1, <3>2 DEF FieldOver, Field, empty
  <2>3. \A g \in FieldSet(now) : g.key # empty.key
    <3>1. S \subseteq FieldOver(B)
      BY FieldsTyped DEF S
    <3>2. \A f \in S : ProjectedField(f).key = f.key
      BY <3>1
    <3>3. \A f \in S : f.key # "content"
      BY <1>5, <1>8
    <3> QED
      BY <1>6, <2>2, <3>2, <3>3
  <2>4. /\ Append(now, empty) \in FieldsOver(B) /\ now \o <<empty>> = Append(now, empty)
        /\ FieldSet(Append(now, empty)) = FieldSet(now) \cup {empty}
    BY <1>6, <2>2, <2>3, FieldAdded
  <2>5. CanonicalEntries(m) \in FieldsOver(B) /\ FieldSet(CanonicalEntries(m)) = P \cup {empty}
    BY <1>6, <2>1, <2>4
  <2> QED
    BY <1>8, <2>5 DEF Entered, m, S, none, empty
<1> QED
  BY <1>7, <1>8

Entering(S, omitted, added, spoken) ==
  {ProjectedField(f) : f \in S \ {omitted}} \cup (IF spoken THEN {} ELSE {added})

(* The meaning of the entries is what the assistant says.                  *)
LEMMA AssistantSays ==
  ASSUME NEW B, NEW M, NEW S, \A f \in S : FieldMeans(M, B, f),
         NEW omitted, \A f \in S : f = omitted <=> f.key = "tool_calls" /\ M[f.value] = Array(<<>>),
         NEW added, added.key = "content", M[added.value] = Said(Null),
         NEW spoken, spoken <=> \E f \in S : f.key = "content"
  PROVE  Pairs(M, Entering(S, omitted, added, spoken)) = SaidByAssistant(Pairs(M, S))
<1> DEFINE F == Pairs(M, S)
           G == Entering(S, omitted, added, spoken)
           now == Pairs(M, G)
           said == {Said(p[2]) : p \in {q \in F : q[1] = "content"}}
           R1 == {p \in F : p[1] \notin {"content", "tool_calls"}}
           R2 == {<<"content", c>> : c \in IF said = {} THEN {Said(Null)} ELSE said}
           R3 == {<<"tool_calls", Called(p[2])>> : p \in {q \in F : q[1] = "tool_calls" /\ q[2] # Array(<<>>)}}
<1>1. SaidByAssistant(F) = R1 \cup R2 \cup R3
  BY DEF SaidByAssistant
<1>2. \A p : p \in F <=> \E f \in S : p = <<f.key, M[f.value]>>
  BY DEF Pairs
<1>3. \A p : p \in now <=> \E g \in G : p = <<g.key, M[g.value]>>
  BY DEF Pairs
<1>4. \A f \in S : f # omitted => ProjectedField(f) \in G
  BY DEF Entering
<1>5. \A g \in G : (\E f \in S : f # omitted /\ g = ProjectedField(f)) \/ (~spoken /\ g = added)
  BY DEF Entering
<1>6. ~spoken => added \in G
  BY DEF Entering
<1>7. ASSUME NEW f \in S
      PROVE  /\ ProjectedField(f).key = f.key
             /\ f.key = "content" => M[ProjectedField(f).value] = Said(M[f.value])
             /\ f.key = "tool_calls" => M[ProjectedField(f).value] = Called(M[f.value])
             /\ f.key \notin {"content", "tool_calls"} => ProjectedField(f) = f
  <2>1. FieldMeans(M, B, f)
    OBVIOUS
  <2> QED
    BY ONLY <2>1 DEF FieldMeans
<1>8. \A f \in S : <<f.key, M[f.value]>> \in F
  BY <1>2
<1> HIDE DEF F, G, now
<1>9. \A f \in S : f.key = "content" => Said(M[f.value]) \in said
  <2> TAKE f \in S
  <2> HAVE f.key = "content"
  <2> DEFINE p == <<f.key, M[f.value]>>
  <2>1. p \in F /\ p[1] = "content" /\ p[2] = M[f.value]
    BY <1>8
  <2> HIDE DEF p
  <2>2. Said(p[2]) \in said
    BY <2>1
  <2> QED
    BY <2>1, <2>2
<1>10. \A c \in said : \E f \in S : f.key = "content" /\ c = Said(M[f.value])
  <2> TAKE c \in said
  <2>1. PICK p \in F : p[1] = "content" /\ c = Said(p[2])
    OBVIOUS
  <2>2. PICK f \in S : p = <<f.key, M[f.value]>>
    BY <1>2, <2>1
  <2> QED
    BY <2>1, <2>2
<1>11. said = {} <=> ~spoken
  BY <1>9, <1>10
<1> HIDE DEF said
<1>12. ASSUME NEW p \in now PROVE p \in R1 \cup R2 \cup R3
  <2>1. PICK g \in G : p = <<g.key, M[g.value]>>
    BY <1>3
  <2>2. CASE ~spoken /\ g = added
    <3>1. p = <<"content", Said(Null)>> /\ said = {}
      BY <1>11, <2>1, <2>2
    <3>2. p \in R2
      BY <3>1
    <3> QED
      BY <3>2
  <2>3. ASSUME NEW f \in S, f # omitted, g = ProjectedField(f) PROVE p \in R1 \cup R2 \cup R3
    <3>1. CASE f.key = "content"
      <4>1. p = <<"content", Said(M[f.value])>> /\ Said(M[f.value]) \in said
        BY <1>7, <1>9, <2>1, <2>3, <3>1
      <4>2. p \in R2
        BY <4>1
      <4> QED
        BY <4>2
    <3>2. CASE f.key = "tool_calls"
      <4>1. p = <<"tool_calls", Called(M[f.value])>> /\ M[f.value] # Array(<<>>)
        BY <1>7, <2>1, <2>3, <3>2
      <4> DEFINE q == <<f.key, M[f.value]>>
      <4>2. q \in F /\ q[1] = "tool_calls" /\ q[2] = M[f.value]
        BY <1>8, <3>2
      <4> HIDE DEF q
      <4>3. p = <<"tool_calls", Called(q[2])>> /\ q[2] # Array(<<>>)
        BY <4>1, <4>2
      <4>4. p \in R3
        BY <4>2, <4>3
      <4> QED
        BY <4>4
    <3>3. CASE f.key \notin {"content", "tool_calls"}
      <4>1. p = <<f.key, M[f.value]>>
        BY <1>7, <2>1, <2>3, <3>3
      <4>2. p \in F /\ p[1] = f.key
        BY <1>8, <4>1
      <4>3. p \in R1
        BY <3>3, <4>2
      <4> QED
        BY <4>3
    <3> QED
      BY <3>1, <3>2, <3>3
  <2> QED
    BY <1>5, <2>2, <2>3
<1>13. ASSUME NEW p \in R1 PROVE p \in now
  <2>1. PICK f \in S : p = <<f.key, M[f.value]>>
    BY <1>2
  <2>2. f.key \notin {"content", "tool_calls"} /\ f # omitted /\ ProjectedField(f) = f
    BY <1>7, <2>1
  <2> QED
    BY <1>3, <1>4, <2>1, <2>2
<1>14. ASSUME NEW p \in R2 PROVE p \in now
  <2>1. CASE said = {}
    <3>1. p = <<"content", Said(Null)>> /\ added \in G
      BY <1>6, <1>11, <2>1
    <3> QED
      BY <1>3, <3>1
  <2>2. CASE said # {}
    <3>1. PICK c \in said : p = <<"content", c>>
      BY <2>2
    <3>2. PICK f \in S : f.key = "content" /\ c = Said(M[f.value])
      BY <1>10
    <3>3. f # omitted /\ ProjectedField(f).key = "content" /\ M[ProjectedField(f).value] = c
      BY <1>7, <3>2
    <3> QED
      BY <1>3, <1>4, <3>1, <3>3
  <2> QED
    BY <2>1, <2>2
<1>15. ASSUME NEW p \in R3 PROVE p \in now
  <2>1. PICK q \in F : q[1] = "tool_calls" /\ q[2] # Array(<<>>) /\ p = <<"tool_calls", Called(q[2])>>
    OBVIOUS
  <2>2. PICK f \in S : q = <<f.key, M[f.value]>>
    BY <1>2
  <2>3. f.key = "tool_calls" /\ f # omitted /\ M[f.value] = q[2]
    BY <2>1, <2>2
  <2>4. ProjectedField(f).key = "tool_calls" /\ M[ProjectedField(f).value] = Called(q[2])
    BY <1>7, <2>3
  <2> QED
    BY <1>3, <1>4, <2>1, <2>3, <2>4
<1> HIDE DEF R1, R2, R3
<1>16. now = R1 \cup R2 \cup R3
  BY <1>12, <1>13, <1>14, <1>15
<1> QED
  BY <1>1, <1>16 DEF now, G, F

MessageMeans(M, B, m) == ProjectsTo(M, B, Projected(m), Understood(MeaningOf(M, m)))

(* Projected means what is understood of a message.                        *)
LEMMA MessagesMean ==
  ASSUME NEW A, NEW K, PartsTold(K, A), CallsTold(K, A),
         NEW B, NEW M, B = Level(A), M = [v \in B |-> MeaningOf(K, v)], NEW fields \in FieldsOver(B)
  PROVE  MessageMeans(M, B, Object(fields))
<1> DEFINE m == Object(fields)
           S == FieldSet(fields)
           x == MeaningOf(M, m)
           omitted == Field("tool_calls", Array(<<>>))
           added == Field("content", JoinedText(<<>>))
           spoken == "content" \in KeysOf(m)
           entries == CanonicalEntries(m)
           assistant == <<"role", Plain(<<"assistant">>)>>
<1>1. m.is = "object" /\ m.fields = fields
  BY KindsAre
<1>2. m \in Level(B)
  BY KindsAreValues
<1>3. x = [is |-> "object", fields |-> Pairs(M, S)]
  BY <1>1, ObjectMeans
<1>4. S \subseteq FieldOver(B) /\ S = {fields[i] : i \in DOMAIN fields}
  BY FieldsTyped DEF FieldSet
<1>5. Told(M, B)
  BY LevelIsTold
<1>6. \A f \in S : FieldMeans(M, B, f)
  BY <1>4, FieldsMean
<1>7. \A f \in FieldOver(B) : ProjectedField(f) \in FieldOver(B) /\ ProjectedField(f).key = f.key
  <2> TAKE f \in FieldOver(B)
  <2>1. FieldMeans(M, B, f)
    BY FieldsMean
  <2> QED
    BY ONLY <2>1 DEF FieldMeans
<1>8. ASSUME NEW f \in S
      PROVE  /\ f = Field(f.key, f.value)
             /\ M[f.value] = Array(<<>>) <=> f.value = Array(<<>>)
             /\ M[f.value] = Plain(<<"assistant">>) <=> Says(f.value, <<"assistant">>)
  <2>1. f.value \in B /\ f = Field(f.key, f.value)
    BY <1>4 DEF FieldOver, Field
  <2>2. ToldOf(M[f.value], f.value)
    BY <1>5, <2>1 DEF Told
  <2> QED
    BY ONLY <2>1, <2>2 DEF ToldOf
<1>9. KeysOf(m) = {f.key : f \in S}
  BY <1>1, <1>4 DEF KeysOf
<1>10. \A f \in S : ValueOf(m, f.key) = f.value
  <2>1. IsObject(m, B)
    BY <1>1 DEF IsObject
  <2>2. \A i \in DOMAIN m.fields : ValueOf(m, m.fields[i].key) = m.fields[i].value
    BY <2>1, ValuesByKey
  <2> QED
    BY <1>1, <1>4, <2>2
<1>11. Projected(m) = IF IsAssistant(m) THEN Object(entries) ELSE m
  BY DEF Projected
<1>12. IsAssistant(m) <=> "role" \in KeysOf(m) /\ Says(ValueOf(m, "role"), <<"assistant">>)
  BY DEF IsAssistant
<1>13. \A p : p \in Pairs(M, S) <=> \E f \in S : p = <<f.key, M[f.value]>>
  BY DEF Pairs
<1>14. Understood(x) = IF assistant \in x.fields THEN [x EXCEPT !.fields = SaidByAssistant(@)] ELSE x
  BY DEF Understood
<1>15. Entered(B, fields, m)
  BY <1>7, EntriesAre
<1> HIDE DEF m, S, x
<1>16. IsAssistant(m) <=> assistant \in Pairs(M, S)
  <2>1. ASSUME IsAssistant(m) PROVE assistant \in Pairs(M, S)
    <3>1. PICK f \in S : f.key = "role"
      BY <1>9, <1>12, <2>1
    <3>2. M[f.value] = Plain(<<"assistant">>)
      BY <1>8, <1>10, <1>12, <2>1, <3>1
    <3> QED
      BY <1>13, <3>1, <3>2
  <2>2. ASSUME assistant \in Pairs(M, S) PROVE IsAssistant(m)
    <3>1. PICK f \in S : assistant = <<f.key, M[f.value]>>
      BY <1>13, <2>2
    <3>2. f.key = "role" /\ M[f.value] = Plain(<<"assistant">>)
      BY <3>1
    <3> QED
      BY <1>8, <1>9, <1>10, <1>12, <3>2
  <2> QED
    BY <2>1, <2>2
<1>17. x.fields = Pairs(M, S)
  BY <1>3
<1>18. CASE ~IsAssistant(m)
  <2>1. Projected(m) = m /\ Understood(x) = x
    BY <1>11, <1>14, <1>16, <1>17, <1>18
  <2> QED
    BY <1>2, <2>1 DEF MessageMeans, ProjectsTo, x, m
<1>19. CASE IsAssistant(m)
  <2>1. Projected(m) = Object(entries)
    BY <1>11, <1>19
  <2>2. entries \in FieldsOver(B) /\ FieldSet(entries) = Entering(S, omitted, added, spoken)
    BY ONLY <1>15 DEF Entered, Entering, S
  <2>3. \A f \in S : f = omitted <=> f.key = "tool_calls" /\ M[f.value] = Array(<<>>)
    <3> TAKE f \in S
    <3>1. f = omitted => f.key = "tool_calls" /\ f.value = Array(<<>>)
      BY KindsAre
    <3> QED
      BY <1>8, <3>1
  <2>4. added.key = "content" /\ M[added.value] = Said(Null)
    <3>1. added.key = "content" /\ added.value = JoinedText(<<>>)
      BY KindsAre
    <3>2. JoinedText(<<>>) \in B /\ JoinedText(<<>>).is = "string" /\ Text(JoinedText(<<>>)) = <<>>
      BY TextOfParts, KindsAreValues, KindsAre
    <3>3. ToldOf(M[JoinedText(<<>>)], JoinedText(<<>>))
      BY <1>5, <3>2 DEF Told
    <3>4. M[JoinedText(<<>>)] = Plain(<<>>) <=> Says(JoinedText(<<>>), <<>>)
      BY ONLY <3>3 DEF ToldOf
    <3>5. Says(JoinedText(<<>>), <<>>)
      BY <3>2 DEF Says
    <3>6. Said(Null) = Plain(<<>>)
      BY DEF Said
    <3> QED
      BY <3>1, <3>4, <3>5, <3>6
  <2>5. spoken <=> \E f \in S : f.key = "content"
    BY <1>9
  <2> HIDE DEF omitted, added, spoken, entries
  <2>6. Pairs(M, Entering(S, omitted, added, spoken)) = SaidByAssistant(Pairs(M, S))
    BY ONLY <1>6, <2>3, <2>4, <2>5, AssistantSays
  <2>7. Object(entries) \in Level(B)
    BY <2>2, KindsAreValues
  <2>8. MeaningOf(M, Object(entries)) = [is |-> "object", fields |-> Pairs(M, FieldSet(entries))]
    <3>1. Object(entries).is = "object" /\ Object(entries).fields = entries
      BY KindsAre
    <3> QED
      BY <3>1, ObjectMeans
  <2>9. Understood(x) = [is |-> "object", fields |-> SaidByAssistant(Pairs(M, S))]
    <3> DEFINE said == SaidByAssistant(Pairs(M, S))
    <3>1. Understood(x) = [x EXCEPT !.fields = said]
      BY <1>14, <1>16, <1>17, <1>19
    <3> HIDE DEF said
    <3>2. Understood(x) = [is |-> "object", fields |-> said]
      BY <1>3, <3>1
    <3> QED
      BY <3>2 DEF said
  <2>10. MeaningOf(M, Object(entries)) = Understood(x)
    BY ONLY <2>2, <2>6, <2>8, <2>9
  <2> QED
    BY <2>1, <2>7, <2>10 DEF MessageMeans, ProjectsTo, x, m
<1> QED
  BY <1>18, <1>19

-----------------------------------------------------------------------------
(* The messages.                                                           *)

LEMMA TopLevels ==
  /\ Deepest \in Nat /\ Deepest >= 2
  /\ Nested[Deepest - 1] = Level(Nested[Deepest - 2])
  /\ Nested[Deepest] = Level(Nested[Deepest - 1])
  /\ Meaning[Deepest - 1] = [v \in Nested[Deepest - 1] |-> MeaningOf(Meaning[Deepest - 2], v)]
  /\ Meaning[Deepest] = [v \in Nested[Deepest] |-> MeaningOf(Meaning[Deepest - 1], v)]
<1>1. Deepest \in Nat /\ Deepest >= 2
  BY CanonicalAssumption
<1>2. Deepest \in 1 .. Deepest /\ Deepest - 1 \in 1 .. Deepest /\ (Deepest - 1) - 1 = Deepest - 2
  BY <1>1
<1> QED
  BY <1>1, <1>2, NestedUnfolds, MeaningUnfolds

(* Both hold at the depth of what stands in the fields of a message.       *)
LEMMA ToldBelow ==
  PartsTold(Meaning[Deepest - 2], Nested[Deepest - 2]) /\ CallsTold(Meaning[Deepest - 2], Nested[Deepest - 2])
<1> DEFINE e == Deepest - 2
<1>1. e \in Nat /\ (e = 0 \/ e \in 1 .. Deepest)
  BY CanonicalAssumption
<1> HIDE DEF e
<1>2. CASE e = 0
  <2>1. Nested[e] = {}
    BY <1>2, NestedUnfolds
  <2> QED
    BY <2>1 DEF PartsTold, CallsTold, e
<1>3. CASE e \in 1 .. Deepest
  <2> DEFINE A == Nested[e]
             K == Meaning[e]
             B == Nested[e - 1]
             M == Meaning[e - 1]
  <2>1. A = Level(B) /\ K = [v \in A |-> MeaningOf(M, v)]
    BY <1>3, NestedUnfolds, MeaningUnfolds
  <2>2. Told(M, B)
    <3>1. CASE e = 1
      <4>1. B = {}
        BY <3>1, NestedUnfolds
      <4> QED
        BY <4>1 DEF Told
    <3>2. CASE e # 1
      <4>1. e - 1 \in 1 .. Deepest
        BY <1>3, <3>2, CanonicalAssumption
      <4> DEFINE Z == Nested[(e - 1) - 1]
                 J == Meaning[(e - 1) - 1]
      <4>2. B = Level(Z) /\ M = [v \in B |-> MeaningOf(J, v)]
        BY <4>1, NestedUnfolds, MeaningUnfolds
      <4> HIDE DEF Z, J, B, M
      <4> QED
        BY <4>2, LevelIsTold
    <3> QED
      BY <3>1, <3>2
  <2> HIDE DEF A, K, B, M
  <2>3. PartsTold(K, A)
    BY <2>1, <2>2, PartsAreTold
  <2>4. CallsTold(K, A)
    BY <2>1, <2>2, CallsAreTold
  <2> QED
    BY <2>3, <2>4 DEF A, K, e
<1> QED
  BY <1>1, <1>2, <1>3

IsMessage(m) == m = Object(m.fields) /\ m.fields \in FieldsOver(Nested[Deepest - 1])

Hashed(m) ==
  /\ Projected(m) \in Nested[Deepest]
  /\ Meaning[Deepest][Projected(m)] = MeaningOfMessage(m)

(* What is emitted of a message is that of a value that means the same.    *)
LEMMA MessagesAreHashed ==
  ASSUME NEW m, IsMessage(m)
  PROVE  Hashed(m)
<1> DEFINE A == Nested[Deepest - 2]
           K == Meaning[Deepest - 2]
           B == Nested[Deepest - 1]
           M == Meaning[Deepest - 1]
           L == Nested[Deepest]
           G == Meaning[Deepest]
<1>1. B = Level(A) /\ M = [v \in B |-> MeaningOf(K, v)] /\ L = Level(B) /\ G = [v \in L |-> MeaningOf(M, v)]
  BY TopLevels
<1>2. PartsTold(K, A) /\ CallsTold(K, A)
  BY ToldBelow
<1>3. m = Object(m.fields) /\ m.fields \in FieldsOver(B)
  BY DEF IsMessage
<1> HIDE DEF A, K, B, M, L, G
<1>4. MessageMeans(M, B, Object(m.fields))
  BY <1>1, <1>2, <1>3, MessagesMean
<1>5. Projected(m) \in L /\ MeaningOf(M, Projected(m)) = Understood(MeaningOf(M, m))
  BY ONLY <1>1, <1>3, <1>4 DEF MessageMeans, ProjectsTo
<1>6. m \in L
  BY <1>1, <1>3, KindsAreValues
<1>7. G[Projected(m)] = Understood(G[m])
  BY <1>1, <1>5, <1>6
<1> QED
  BY <1>5, <1>7 DEF Hashed, MeaningOfMessage, L, G

(* The invariant, message by message.                                      *)
LEMMA WrittenMessages == WrittenOK <=> IsMessage(left) /\ IsMessage(right)
<1> DEFINE F == FieldsOver(Nested[Deepest - 1])
<1> HIDE DEF F
<1>1. ASSUME NEW m PROVE m \in [is : {"object"}, fields : F] <=> m = Object(m.fields) /\ m.fields \in F
  <2>1. \A fields : Object(fields) = [is |-> "object", fields |-> fields]
    BY DEF Object
  <2> QED
    BY <2>1
<1>2. WrittenOK <=> left \in [is : {"object"}, fields : F] /\ right \in [is : {"object"}, fields : F]
  BY DEF WrittenOK, F
<1>3. \A m : IsMessage(m) <=> m = Object(m.fields) /\ m.fields \in F
  BY DEF IsMessage, F
<1> QED
  BY <1>1, <1>2, <1>3

LEMMA EmptyMessage == IsMessage(Object(<<>>))
<1> DEFINE B == Nested[Deepest - 1]
<1>1. <<>> \in Seq([key : Keys, value : B]) /\ DOMAIN <<>> = {}
  OBVIOUS
<1>2. <<>> \in FieldsOver(B)
  BY <1>1 DEF FieldsOver
<1>3. Object(<<>>).fields = <<>>
  BY KindsAre
<1> QED
  BY <1>2, <1>3 DEF IsMessage

(* A message stays one when a field is added.                              *)
LEMMA MessageGrows ==
  ASSUME NEW m, IsMessage(m), NEW field \in MessageFields, field.key \notin KeysOf(m)
  PROVE  IsMessage(Adding(m, field))
<1> DEFINE B == Nested[Deepest - 1]
           fields == m.fields
<1>1. fields \in FieldsOver(B)
  BY DEF IsMessage
<1>2. field \in FieldOver(B)
  BY CanonicalAssumption DEF FieldOver
<1>3. \A g \in FieldSet(fields) : g.key # field.key
  BY DEF KeysOf, FieldSet
<1> HIDE DEF B, fields
<1>4. Append(fields, field) \in FieldsOver(B)
  BY <1>1, <1>2, <1>3, FieldAdded
<1>5. Adding(m, field) = Object(Append(fields, field)) /\ Adding(m, field).fields = Append(fields, field)
  BY KindsAre DEF Adding, fields
<1> QED
  BY <1>4, <1>5 DEF IsMessage, B

(* Whatever fields are added, the messages are values.                     *)
THEOREM MessagesAreValues == Messages => []WrittenOK
<1>1. InitMessages => WrittenOK
  BY EmptyMessage, WrittenMessages DEF InitMessages
<1>2. WrittenOK /\ [NextField]_<<left, right>> => WrittenOK'
  <2> SUFFICES ASSUME WrittenOK, [NextField]_<<left, right>> PROVE WrittenOK'
    OBVIOUS
  <2>1. IsMessage(left) /\ IsMessage(right)
    BY WrittenMessages
  <2>2. CASE UNCHANGED <<left, right>>
    BY <2>2 DEF WrittenOK
  <2>3. ASSUME NEW field \in MessageFields, WriteLeft(field) \/ WriteRight(field) PROVE WrittenOK'
    <3>1. IsMessage(left') /\ IsMessage(right')
      <4>1. CASE WriteLeft(field)
        BY <2>1, <4>1, MessageGrows DEF WriteLeft
      <4>2. CASE WriteRight(field)
        BY <2>1, <4>2, MessageGrows DEF WriteRight
      <4> QED
        BY <2>3, <4>1, <4>2
    <3> DEFINE F == [is : {"object"}, fields : FieldsOver(Nested[Deepest - 1])]
    <3>2. \A m : IsMessage(m) => m \in F
      BY DEF IsMessage, Object
    <3>3. WrittenOK' <=> left' \in F /\ right' \in F
      BY DEF WrittenOK
    <3> QED
      BY ONLY <3>1, <3>2, <3>3
  <2> QED
    BY <2>2, <2>3 DEF NextField
<1> QED
  BY <1>1, <1>2, PTL DEF Messages

(* So messages are emitted alike when they are understood alike.           *)
LEMMA HashedAsTheyMean ==
  ASSUME NEW m, IsMessage(m), NEW n, IsMessage(n)
  PROVE  (Emitted(m) = Emitted(n)) <=> (MeaningOfMessage(m) = MeaningOfMessage(n))
<1>1. Hashed(m) /\ Hashed(n)
  BY MessagesAreHashed
<1>2. Deepest \in 0 .. Deepest
  BY CanonicalAssumption
<1>3. Matching(EmitCanonical[Deepest], Meaning[Deepest], Nested[Deepest])
  BY <1>2, EmittedAsMeant
<1>4. Emitted(m) = EmitCanonical[Deepest][Projected(m)] /\ Emitted(n) = EmitCanonical[Deepest][Projected(n)]
  BY DEF Emitted
<1> QED
  BY <1>1, <1>3, <1>4 DEF Hashed, Matching

(* In whatever ways two messages are written, they are hashed alike when   *)
(* they mean the same, and only then.                                      *)
THEOREM MessagesAreHashedAsMeant == Messages => []HashedAsMeant
<1>1. WrittenOK => HashedAsMeant
  BY WrittenMessages, HashedAsTheyMean DEF HashedAsMeant
<1> QED
  BY <1>1, MessagesAreValues, PTL

-----------------------------------------------------------------------------
(* Budgets.                                                                *)

Bud(p, q, m, d, s, t) ==
  [bytes |-> p, nodes |-> q, mostNodes |-> m, depth |-> d, scratch |-> s, mostScratch |-> t]

Within(p, q, m, d, s, t) ==
  /\ p \in Nat /\ q \in Nat /\ m \in Nat /\ d \in Nat /\ s \in Int /\ t \in Int
  /\ q <= m /\ s <= t

(* A budget is made of its counts.                                         *)
LEMMA BudgetIs ==
  ASSUME NEW b \in Budget
  PROVE  /\ b = Bud(b.bytes, b.nodes, b.mostNodes, b.depth, b.scratch, b.mostScratch)
         /\ Within(b.bytes, b.nodes, b.mostNodes, b.depth, b.scratch, b.mostScratch)
BY DEF Budget, Bud, Within

LEMMA BudIsBudget ==
  ASSUME NEW p, NEW q, NEW m, NEW d, NEW s, NEW t, Within(p, q, m, d, s, t)
  PROVE  Bud(p, q, m, d, s, t) \in Budget
BY DEF Budget, Bud, Within

LEMMA BudIs ==
  ASSUME NEW p, NEW q, NEW m, NEW d, NEW s, NEW t
  PROVE  /\ Bud(p, q, m, d, s, t).bytes = p /\ Bud(p, q, m, d, s, t).nodes = q
         /\ Bud(p, q, m, d, s, t).mostNodes = m /\ Bud(p, q, m, d, s, t).depth = d
         /\ Bud(p, q, m, d, s, t).scratch = s /\ Bud(p, q, m, d, s, t).mostScratch = t
BY DEF Bud

(* What each operation makes of a budget.                                  *)
LEMMA Spends ==
  ASSUME NEW p, NEW q, NEW m, NEW d, NEW s, NEW t, NEW k
  PROVE  /\ AddBytes(Bud(p, q, m, d, s, t), k) = Bud(p + k, q, m, d, s, t)
         /\ Foresee(Bud(p, q, m, d, s, t), k) = Bud(p, q, Greater(m, q + k), d, s, t)
         /\ Reserve(Bud(p, q, m, d, s, t), k) = Bud(p, q, m, d, s + k, Greater(t, s + k))
         /\ Release(Bud(p, q, m, d, s, t), k) = Bud(p, q, m, d, s - k, t)
         /\ Node(Bud(p, q, m, d, s, t), k) = Bud(p, q + 1, Greater(m, q + 1), Greater(d, k), s, t)
<1>1. AddBytes(Bud(p, q, m, d, s, t), k) = Bud(p + k, q, m, d, s, t)
  BY DEF AddBytes, Bud
<1>2. \A j : Foresee(Bud(p, q, m, d, s, t), j) = Bud(p, q, Greater(m, q + j), d, s, t)
  BY DEF Foresee, Bud
<1>3. Reserve(Bud(p, q, m, d, s, t), k) = Bud(p, q, m, d, s + k, Greater(t, s + k))
  <2> DEFINE b == Bud(p, q, m, d, s, t)
  <2>1. b.scratch = s
    BY BudIs
  <2>2. Reserve(b, k) = [b EXCEPT !.scratch = @ + k, !.mostScratch = Greater(@, s + k)]
    BY <2>1 DEF Reserve
  <2> QED
    BY <2>2 DEF Bud
<1>4. Release(Bud(p, q, m, d, s, t), k) = Bud(p, q, m, d, s - k, t)
  BY DEF Release, Bud
<1>5. Node(Bud(p, q, m, d, s, t), k) = [Bud(p, q, Greater(m, q + 1), d, s, t) EXCEPT !.nodes = @ + 1, !.depth = Greater(@, k)]
  BY <1>2 DEF Node
<1>6. Node(Bud(p, q, m, d, s, t), k) = Bud(p, q + 1, Greater(m, q + 1), Greater(d, k), s, t)
  BY <1>5 DEF Bud
<1> QED
  BY <1>1, <1>2, <1>3, <1>4, <1>6

(* What walking a value takes: scratch is only borrowed.                   *)
Cost == [bytes : Nat, nodes : Nat, depth : Nat, scratch : Nat]

Settling(b, c) ==
  Bud(b.bytes + c.bytes, b.nodes + c.nodes, Greater(b.mostNodes, b.nodes + c.nodes),
      Greater(b.depth, c.depth), b.scratch, Greater(b.mostScratch, b.scratch + c.scratch))

(* What settling a cost does to each count.                                *)
LEMMA SettlingIs ==
  ASSUME NEW b \in Budget, NEW c \in Cost
  PROVE  /\ Settling(b, c) \in Budget
         /\ Settling(b, c).bytes = b.bytes + c.bytes
         /\ Settling(b, c).nodes = b.nodes + c.nodes
         /\ Settling(b, c).mostNodes = Greater(b.mostNodes, b.nodes + c.nodes)
         /\ Settling(b, c).depth = Greater(b.depth, c.depth)
         /\ Settling(b, c).scratch = b.scratch
         /\ Settling(b, c).mostScratch = Greater(b.mostScratch, b.scratch + c.scratch)
<1>1. Within(b.bytes, b.nodes, b.mostNodes, b.depth, b.scratch, b.mostScratch)
  BY BudgetIs
<1>2. c.bytes \in Nat /\ c.nodes \in Nat /\ c.depth \in Nat /\ c.scratch \in Nat
  BY DEF Cost
<1>3. Within(b.bytes + c.bytes, b.nodes + c.nodes, Greater(b.mostNodes, b.nodes + c.nodes),
             Greater(b.depth, c.depth), b.scratch, Greater(b.mostScratch, b.scratch + c.scratch))
  BY ONLY <1>1, <1>2 DEF Within, Greater
<1> QED
  BY <1>3, BudIsBudget, BudIs DEF Settling

Both(c, e) ==
  [bytes |-> c.bytes + e.bytes, nodes |-> c.nodes + e.nodes,
   depth |-> Greater(c.depth, e.depth), scratch |-> Greater(c.scratch, e.scratch)]

(* Two costs are a cost.                                                   *)
LEMMA BothCost ==
  ASSUME NEW c \in Cost, NEW e \in Cost
  PROVE  Both(c, e) \in Cost /\ Both(c, e).nodes = c.nodes + e.nodes /\ Both(c, e).bytes = c.bytes + e.bytes
BY DEF Cost, Both, Greater

(* Two costs settled one after the other are their sum, but of what was    *)
(* the most.                                                               *)
LEMMA SettlingTwice ==
  ASSUME NEW b \in Budget, NEW c \in Cost, NEW e \in Cost
  PROVE  Settling(Settling(b, c), e) = Settling(b, Both(c, e))
<1> DEFINE x == Settling(b, c)
<1>1. Within(b.bytes, b.nodes, b.mostNodes, b.depth, b.scratch, b.mostScratch)
  BY BudgetIs
<1>2. c.bytes \in Nat /\ c.nodes \in Nat /\ c.depth \in Nat /\ c.scratch \in Nat
  BY DEF Cost
<1>3. e.bytes \in Nat /\ e.nodes \in Nat /\ e.depth \in Nat /\ e.scratch \in Nat
  BY DEF Cost
<1>4. /\ x.bytes = b.bytes + c.bytes
      /\ x.nodes = b.nodes + c.nodes
      /\ x.mostNodes = Greater(b.mostNodes, b.nodes + c.nodes)
      /\ x.depth = Greater(b.depth, c.depth)
      /\ x.scratch = b.scratch
      /\ x.mostScratch = Greater(b.mostScratch, b.scratch + c.scratch)
  BY SettlingIs
<1> HIDE DEF x
<1>5. x.bytes + e.bytes = b.bytes + (c.bytes + e.bytes)
  BY ONLY <1>1, <1>2, <1>3, <1>4 DEF Within
<1>6. x.nodes + e.nodes = b.nodes + (c.nodes + e.nodes)
  BY ONLY <1>1, <1>2, <1>3, <1>4 DEF Within
<1>7. Greater(x.mostNodes, x.nodes + e.nodes) = Greater(b.mostNodes, b.nodes + (c.nodes + e.nodes))
  BY ONLY <1>1, <1>2, <1>3, <1>4 DEF Within, Greater
<1>8. Greater(x.depth, e.depth) = Greater(b.depth, Greater(c.depth, e.depth))
  BY ONLY <1>1, <1>2, <1>3, <1>4 DEF Within, Greater
<1>9. Greater(x.mostScratch, x.scratch + e.scratch) = Greater(b.mostScratch, b.scratch + Greater(c.scratch, e.scratch))
  BY ONLY <1>1, <1>2, <1>3, <1>4 DEF Within, Greater
<1>10. Settling(x, e) = Bud(x.bytes + e.bytes, x.nodes + e.nodes, Greater(x.mostNodes, x.nodes + e.nodes),
                            Greater(x.depth, e.depth), x.scratch, Greater(x.mostScratch, x.scratch + e.scratch))
  BY DEF Settling
<1>11. Settling(b, Both(c, e)) =
         Bud(b.bytes + (c.bytes + e.bytes), b.nodes + (c.nodes + e.nodes),
             Greater(b.mostNodes, b.nodes + (c.nodes + e.nodes)),
             Greater(b.depth, Greater(c.depth, e.depth)), b.scratch,
             Greater(b.mostScratch, b.scratch + Greater(c.scratch, e.scratch)))
  BY DEF Settling, Both
<1> QED
  BY <1>4, <1>5, <1>6, <1>7, <1>8, <1>9, <1>10, <1>11 DEF x

(* The order in which two costs are settled does not matter.               *)
LEMMA SettlingSwaps ==
  ASSUME NEW b \in Budget, NEW c \in Cost, NEW e \in Cost
  PROVE  Settling(Settling(b, c), e) = Settling(Settling(b, e), c)
<1>1. Both(c, e) = Both(e, c)
  <2>1. c.bytes \in Nat /\ c.nodes \in Nat /\ c.depth \in Nat /\ c.scratch \in Nat
    BY DEF Cost
  <2>2. e.bytes \in Nat /\ e.nodes \in Nat /\ e.depth \in Nat /\ e.scratch \in Nat
    BY DEF Cost
  <2>3. c.bytes + e.bytes = e.bytes + c.bytes /\ c.nodes + e.nodes = e.nodes + c.nodes
        /\ Greater(c.depth, e.depth) = Greater(e.depth, c.depth)
        /\ Greater(c.scratch, e.scratch) = Greater(e.scratch, c.scratch)
    BY ONLY <2>1, <2>2 DEF Greater
  <2> QED
    BY ONLY <2>3 DEF Both
<1> QED
  BY <1>1, SettlingTwice

Free == [bytes |-> 0, nodes |-> 0, depth |-> 0, scratch |-> 0]

LEMMA SettlingNothing ==
  Free \in Cost /\ \A b \in Budget : Settling(b, Free) = b
<1>1. Free \in Cost /\ Free.bytes = 0 /\ Free.nodes = 0 /\ Free.depth = 0 /\ Free.scratch = 0
  BY DEF Free, Cost
<1>2. ASSUME NEW b \in Budget PROVE Settling(b, Free) = b
  <2>1. b = Bud(b.bytes, b.nodes, b.mostNodes, b.depth, b.scratch, b.mostScratch)
        /\ Within(b.bytes, b.nodes, b.mostNodes, b.depth, b.scratch, b.mostScratch)
    BY BudgetIs
  <2>2. /\ b.bytes + 0 = b.bytes /\ b.nodes + 0 = b.nodes /\ Greater(b.mostNodes, b.nodes + 0) = b.mostNodes
        /\ Greater(b.depth, 0) = b.depth /\ Greater(b.mostScratch, b.scratch + 0) = b.mostScratch
    BY ONLY <2>1 DEF Within, Greater
  <2> QED
    BY <1>1, <2>1, <2>2 DEF Settling
<1> QED
  BY <1>1, <1>2

(* Steps that only settle costs can be taken in any order.                 *)
Settles(f, c) == c \in Cost /\ \A b \in Budget : f[b] = Settling(b, c)

(* Steps that settle costs can be taken in any order.                      *)
LEMMA SettlingStepsCommute ==
  ASSUME NEW C, NEW step \in [C -> [Budget -> Budget]], \A x \in C : \E c \in Cost : Settles(step[x], c)
  PROVE  Commuting(step, C, Budget)
<1>1. ASSUME NEW x \in C, NEW y \in C, NEW b \in Budget
      PROVE  step[x][step[y][b]] = step[y][step[x][b]]
  <2>1. PICK c \in Cost : Settles(step[x], c)
    OBVIOUS
  <2>2. PICK e \in Cost : Settles(step[y], e)
    OBVIOUS
  <2>3. step[x][b] = Settling(b, c) /\ step[y][b] = Settling(b, e)
    BY <2>1, <2>2 DEF Settles
  <2>4. Settling(b, c) \in Budget /\ Settling(b, e) \in Budget
    BY SettlingIs
  <2>5. step[x][Settling(b, e)] = Settling(Settling(b, e), c) /\ step[y][Settling(b, c)] = Settling(Settling(b, c), e)
    BY <2>1, <2>2, <2>4 DEF Settles
  <2>6. Settling(Settling(b, e), c) = Settling(Settling(b, c), e)
    BY SettlingSwaps
  <2> QED
    BY <2>3, <2>5, <2>6
<1> QED
  BY <1>1 DEF Commuting

(* Steps that settle costs settle one cost together.                       *)
LEMMA ThroughSettles ==
  ASSUME NEW C, NEW step \in [C -> [Budget -> Budget]],
         \A x \in C : \E c \in Cost : Settles(step[x], c) /\ c.nodes >= 1,
         NEW seq \in Seq(C)
  PROVE  \E c \in Cost : c.nodes >= Len(seq) /\ \A b \in Budget : Through(step, b, seq) = Settling(b, c)
<1> DEFINE Settled(s, c) == c.nodes >= Len(s) /\ \A b \in Budget : Through(step, b, s) = Settling(b, c)
           T == {s \in Seq(C) : \E c \in Cost : Settled(s, c)}
<1>1. <<>> \in T
  <2>1. Free \in Cost /\ Free.nodes >= Len(<<>>)
    BY SettlingNothing DEF Free
  <2>2. \A b \in Budget : Through(step, b, <<>>) = b
    BY ThroughEmpty
  <2>3. Settled(<<>>, Free)
    BY <2>1, <2>2, SettlingNothing
  <2> QED
    BY <2>1, <2>3
<1>2. ASSUME NEW s \in Seq(C), NEW x \in C, s \in T PROVE Append(s, x) \in T
  <2>1. PICK c \in Cost : Settled(s, c)
    BY <1>2
  <2>2. PICK e \in Cost : Settles(step[x], e) /\ e.nodes >= 1
    OBVIOUS
  <2>3. Both(c, e) \in Cost /\ Both(c, e).nodes >= Len(Append(s, x)) /\ Append(s, x) \in Seq(C)
    <3>1. Both(c, e).nodes = c.nodes + e.nodes /\ Both(c, e) \in Cost
      BY BothCost
    <3>2. Len(Append(s, x)) = Len(s) + 1 /\ Len(s) \in Nat
      OBVIOUS
    <3>3. c.nodes \in Nat /\ e.nodes \in Nat
      BY DEF Cost
    <3> QED
      BY <2>1, <2>2, <3>1, <3>2, <3>3
  <2>4. ASSUME NEW b \in Budget PROVE Through(step, b, Append(s, x)) = Settling(b, Both(c, e))
    <3>1. Through(step, b, Append(s, x)) = step[x][Through(step, b, s)]
      BY ThroughAppend
    <3>2. Through(step, b, s) = Settling(b, c)
      BY <2>1
    <3>3. Settling(b, c) \in Budget
      BY SettlingIs
    <3>4. step[x][Settling(b, c)] = Settling(Settling(b, c), e)
      BY <2>2, <3>3 DEF Settles
    <3> QED
      BY <3>1, <3>2, <3>4, SettlingTwice
  <2> QED
    BY <2>3, <2>4
<1>3. Seq(C) \subseteq T
  <2> HIDE DEF T
  <2> QED
    BY <1>1, <1>2, EverySequence
<1> QED
  BY <1>3

-----------------------------------------------------------------------------
(* What walking takes, and what is emitted, piece by piece.                *)

OneMore(i) == IF i > 1 THEN 1 ELSE 0

CommasAt(H, P) ==
  /\ H \in [0 .. Len(P) -> Nat] /\ H[0] = 0 /\ H[Len(P)] = Len(Listed(P))
  /\ \A i \in 1 .. Len(P) : H[i] = H[i - 1] + (Len(P[i]) + OneMore(i))

(* How long what is listed grows with each piece.                          *)
LEMMA ListedGrows ==
  ASSUME NEW P \in Seq(Words)
  PROVE  \E H : CommasAt(H, P)
<1> DEFINE n == Len(P)
           glue == [part \in Words |-> [before \in Words |-> before \o part]]
           pieces == [i \in DOMAIN P |-> IF i = 1 THEN P[i] ELSE CommaMark \o P[i]]
<1>1. n \in Nat /\ DOMAIN P = 1 .. n /\ \A i \in 1 .. n : P[i] \in Words
  BY SequenceIsFunction
<1>2. CommaMark \in Words /\ Len(CommaMark) = 1
  BY MarksAreSymbols, OneSymbol DEF CommaMark
<1>3. Listed(P) = Through(glue, <<>>, pieces)
  BY DEF Listed, Flattened, Words, CommaMark
<1>4. glue \in [Words -> [Words -> Words]] /\ \A part, before \in Words : glue[part][before] = before \o part
  BY WordsJoin
<1> HIDE DEF n, glue
<1>5. ASSUME NEW i \in 1 .. n PROVE pieces[i] \in Words /\ Len(pieces[i]) = Len(P[i]) + OneMore(i)
  <2>1. P[i] \in Words /\ i \in DOMAIN P
    BY <1>1
  <2>2. CommaMark \o P[i] \in Words /\ Len(CommaMark \o P[i]) = Len(CommaMark) + Len(P[i])
    BY <1>2, <2>1, WordsIndexed
  <2>3. Len(P[i]) \in Nat
    BY <2>1, SequenceIsFunction DEF Words
  <2>4. pieces[i] = IF i = 1 THEN P[i] ELSE CommaMark \o P[i]
    BY <2>1
  <2>5. CASE i = 1
    <3>1. pieces[i] = P[i] /\ OneMore(i) = 0
      BY <2>4, <2>5 DEF OneMore
    <3>2. Len(P[i]) + 0 = Len(P[i])
      BY ONLY <2>3
    <3>3. Len(P[i]) + OneMore(i) = Len(P[i])
      BY ONLY <3>1, <3>2, Zenon
    <3> QED
      BY ONLY <2>1, <3>1, <3>3, Zenon
  <2>6. CASE i # 1
    <3>1. pieces[i] = CommaMark \o P[i] /\ OneMore(i) = 1
      BY <1>1, <2>4, <2>6 DEF OneMore
    <3>2. 1 + Len(P[i]) = Len(P[i]) + 1
      BY ONLY <2>3
    <3>3. Len(CommaMark \o P[i]) = Len(P[i]) + OneMore(i)
      BY ONLY <1>2, <2>2, <3>1, <3>2, Zenon
    <3> QED
      BY ONLY <2>2, <3>1, <3>3, Zenon
  <2> QED
    BY <2>5, <2>6
<1>6. pieces \in [1 .. n -> Words]
  <2>1. DOMAIN pieces = 1 .. n /\ pieces = [i \in 1 .. n |-> pieces[i]]
    BY <1>1
  <2> HIDE DEF pieces
  <2> QED
    BY <1>5, <2>1
<1> HIDE DEF pieces
<1>7. pieces \in Seq(Words) /\ Len(pieces) = n
  BY <1>1, <1>6, FunctionIsSequence
<1>8. <<>> \in Words
  BY NoWord
<1>9. PICK h \in [0 .. Len(pieces) -> Words] : Unfolds(h, glue, <<>>, pieces)
  BY <1>4, <1>7, <1>8, ThroughUnfolds
<1>10. /\ Through(glue, <<>>, pieces) = h[n] /\ h[0] = <<>>
       /\ \A i \in 1 .. n : h[i] = glue[pieces[i]][h[i - 1]]
  BY ONLY <1>7, <1>9 DEF Unfolds
<1> DEFINE H == [i \in 0 .. n |-> Len(h[i])]
<1>11. \A i \in 0 .. n : h[i] \in Words /\ Len(h[i]) \in Nat /\ H[i] = Len(h[i])
  <2> TAKE i \in 0 .. n
  <2>1. h[i] \in Words
    BY <1>7, <1>9
  <2> QED
    BY <2>1, SequenceIsFunction DEF Words
<1>12. H \in [0 .. n -> Nat]
  BY <1>11
<1> HIDE DEF H
<1>13. H[0] = 0 /\ H[n] = Len(Listed(P))
  <2>1. 0 \in 0 .. n /\ n \in 0 .. n /\ Len(<<>>) = 0
    BY <1>1
  <2> QED
    BY <1>3, <1>10, <1>11, <2>1
<1>14. ASSUME NEW i \in 1 .. n PROVE H[i] = H[i - 1] + (Len(P[i]) + OneMore(i))
  <2>1. i \in 0 .. n /\ i - 1 \in 0 .. n
    BY <1>1
  <2>2. h[i] = h[i - 1] \o pieces[i]
    BY <1>4, <1>5, <1>10, <1>11, <2>1
  <2>3. Len(h[i - 1] \o pieces[i]) = Len(h[i - 1]) + Len(pieces[i])
    BY <1>5, <1>11, <2>1, WordsIndexed
  <2>4. H[i] = Len(h[i]) /\ H[i - 1] = Len(h[i - 1])
    BY <1>11, <2>1
  <2>5. Len(pieces[i]) = Len(P[i]) + OneMore(i)
    BY <1>5
  <2> QED
    BY ONLY <2>2, <2>3, <2>4, <2>5
<1> QED
  BY <1>12, <1>13, <1>14 DEF CommasAt, n

BytesAt(F, n, step, rate, base) ==
  /\ F \in [0 .. n -> Nat] /\ F[0] = base.bytes /\ F[n] = Through(step, base, UpTo(n)).bytes
  /\ \A i \in 1 .. n : F[i] = F[i - 1] + rate[i]

(* How the bytes grow with each step.                                      *)
LEMMA BytesGrow ==
  ASSUME NEW n \in Nat, NEW step \in [1 .. n -> [Budget -> Budget]], NEW rate,
         \A i \in 1 .. n : \E c \in Cost : Settles(step[i], c) /\ c.bytes = rate[i],
         NEW base \in Budget
  PROVE  \E F : BytesAt(F, n, step, rate, base)
<1>1. UpTo(n) \in Seq(1 .. n) /\ Len(UpTo(n)) = n /\ \A i \in 1 .. n : UpTo(n)[i] = i
  BY UpToIs
<1>2. PICK f \in [0 .. Len(UpTo(n)) -> Budget] : Unfolds(f, step, base, UpTo(n))
  BY <1>1, ThroughUnfolds
<1>3. /\ Through(step, base, UpTo(n)) = f[n] /\ f[0] = base
      /\ \A i \in 1 .. n : f[i] = step[i][f[i - 1]]
  <2>1. /\ Through(step, base, UpTo(n)) = f[n] /\ f[0] = base
        /\ \A i \in 1 .. n : f[i] = step[UpTo(n)[i]][f[i - 1]]
    BY ONLY <1>1, <1>2 DEF Unfolds
  <2> QED
    BY <1>1, <2>1
<1> DEFINE F == [i \in 0 .. n |-> f[i].bytes]
<1>4. \A i \in 0 .. n : f[i] \in Budget /\ f[i].bytes \in Nat /\ F[i] = f[i].bytes
  BY <1>1, <1>2 DEF Budget
<1>5. F \in [0 .. n -> Nat]
  BY <1>4
<1> HIDE DEF F
<1>6. F[0] = base.bytes /\ F[n] = Through(step, base, UpTo(n)).bytes
  BY <1>3, <1>4
<1>7. ASSUME NEW i \in 1 .. n PROVE F[i] = F[i - 1] + rate[i]
  <2>1. i \in 0 .. n /\ i - 1 \in 0 .. n
    OBVIOUS
  <2>2. PICK c \in Cost : Settles(step[i], c) /\ c.bytes = rate[i]
    OBVIOUS
  <2>3. f[i] = Settling(f[i - 1], c)
    BY <1>3, <1>4, <2>1, <2>2 DEF Settles
  <2>4. Settling(f[i - 1], c).bytes = f[i - 1].bytes + c.bytes
    BY <1>4, <2>1, SettlingIs
  <2> QED
    BY <1>4, <2>1, <2>2, <2>3, <2>4
<1> QED
  BY <1>5, <1>6, <1>7 DEF BytesAt

(* The values within: what walking them takes is told by what is emitted.  *)
Costed(W, E, B) ==
  \A v \in B : /\ W[v] \in [Budget -> Budget]
               /\ E[v] \in Words
               /\ \E c \in Cost : Settles(W[v], c) /\ c.nodes >= 1 /\ c.bytes = Len(E[v])

Uniform(W, E, B) == \A v, w \in B : E[v] = E[w] => W[v] = W[w]

Bytes(k) == [bytes |-> k, nodes |-> 0, depth |-> 0, scratch |-> 0]

(* A comma is a cost of one byte.                                          *)
LEMMA CommaSettles ==
  ASSUME NEW b \in Budget, NEW i \in Nat
  PROVE  Bytes(OneMore(i)) \in Cost /\ Comma(b, i) = Settling(b, Bytes(OneMore(i))) /\ Comma(b, i) \in Budget
<1> DEFINE k == OneMore(i)
<1>1. k \in Nat
  BY DEF OneMore
<1>2. b = Bud(b.bytes, b.nodes, b.mostNodes, b.depth, b.scratch, b.mostScratch)
  BY BudgetIs
<1>3. Within(b.bytes, b.nodes, b.mostNodes, b.depth, b.scratch, b.mostScratch)
  BY BudgetIs
<1> HIDE DEF k
<1>4. Bytes(k) \in Cost /\ Bytes(k).bytes = k /\ Bytes(k).nodes = 0 /\ Bytes(k).depth = 0 /\ Bytes(k).scratch = 0
  BY <1>1 DEF Bytes, Cost
<1>5. AddBytes(b, k) = Bud(b.bytes + k, b.nodes, b.mostNodes, b.depth, b.scratch, b.mostScratch)
  BY <1>2, Spends
<1>6. /\ Greater(b.mostNodes, b.nodes + 0) = b.mostNodes /\ b.nodes + 0 = b.nodes
      /\ Greater(b.depth, 0) = b.depth /\ Greater(b.mostScratch, b.scratch + 0) = b.mostScratch
  BY ONLY <1>3 DEF Within, Greater
<1>7. Settling(b, Bytes(k)) = AddBytes(b, k)
  BY <1>4, <1>5, <1>6 DEF Settling
<1>8. Comma(b, i) = AddBytes(b, k)
  <2>1. CASE i > 1
    BY <2>1 DEF Comma, OneMore, k
  <2>2. CASE ~(i > 1)
    <3>1. k = 0 /\ Comma(b, i) = b
      BY <2>2 DEF Comma, OneMore, k
    <3>2. b.bytes + 0 = b.bytes
      BY ONLY <1>3 DEF Within
    <3> QED
      BY <1>2, <1>5, <3>1, <3>2
  <2> QED
    BY <2>1, <2>2
<1>9. Settling(b, Bytes(k)) \in Budget
  BY <1>4, SettlingIs
<1> QED
  BY <1>4, <1>7, <1>8, <1>9 DEF k

ItemSteps(W, v) == [i \in DOMAIN v.items |-> [budget \in Budget |-> W[v.items[i]][Comma(budget, i)]]]

ItemsTake(W, E, v, c) ==
  /\ c.nodes >= Len(v.items) /\ c.bytes = Len(Listed(ItemPieces(E, v)))
  /\ \A b \in Budget : Through(ItemSteps(W, v), b, UpTo(Len(v.items))) = Settling(b, c)

LEMMA NothingUsed == Unused \in Budget /\ Unused.bytes = 0
BY DEF Unused, Budget

(* Walking the items of an array takes the bytes that listing them does.   *)
LEMMA ItemsCost ==
  ASSUME NEW B, NEW W, NEW E, Readable(E, B), Costed(W, E, B), NEW v, IsArray(v, B)
  PROVE  \E c \in Cost : ItemsTake(W, E, v, c)
<1> DEFINE a == v.items
           n == Len(a)
           P == ItemPieces(E, v)
           step == ItemSteps(W, v)
           rate == [i \in 1 .. n |-> Len(P[i]) + OneMore(i)]
<1>1. n \in Nat /\ DOMAIN a = 1 .. n /\ \A i \in 1 .. n : a[i] \in B
  BY SequenceIsFunction DEF IsArray
<1>2. ItemPiecesRight(E, B, v)
  BY ItemPiecesTyped
<1>3. P \in Seq(ItemWords(E, B)) /\ Len(P) = n /\ \A i \in 1 .. n : P[i] = E[a[i]]
  BY ONLY <1>2 DEF ItemPiecesRight
<1>4. P \in Seq(Words)
  BY <1>3, ItemWordsAreRead, WiderElements
<1>5. step = [i \in 1 .. n |-> [budget \in Budget |-> W[a[i]][Comma(budget, i)]]]
  BY <1>1 DEF ItemSteps
<1>6. \A i \in 1 .. n : rate[i] = Len(P[i]) + OneMore(i)
  OBVIOUS
<1>7. ASSUME NEW i \in 1 .. n
      PROVE  /\ step[i] \in [Budget -> Budget]
             /\ \E c \in Cost : Settles(step[i], c) /\ c.nodes >= 1 /\ c.bytes = rate[i]
  <2> HIDE DEF a, n, P, step, rate
  <2>1. a[i] \in B /\ i \in Nat
    BY <1>1
  <2>2. W[a[i]] \in [Budget -> Budget] /\ E[a[i]] \in Words
    BY <2>1 DEF Costed
  <2>3. PICK e \in Cost : Settles(W[a[i]], e) /\ e.nodes >= 1 /\ e.bytes = Len(E[a[i]])
    BY <2>1 DEF Costed
  <2> DEFINE f == Bytes(OneMore(i))
             c == Both(f, e)
  <2>4. f \in Cost /\ f.nodes = 0 /\ f.bytes = OneMore(i)
    <3>1. OneMore(i) \in Nat
      BY DEF OneMore
    <3> QED
      BY <3>1 DEF Bytes, Cost
  <2>5. \A b \in Budget : Comma(b, i) = Settling(b, f) /\ Comma(b, i) \in Budget
    BY <2>1, CommaSettles
  <2> HIDE DEF f
  <2>6. c \in Cost /\ c.nodes = f.nodes + e.nodes /\ c.bytes = f.bytes + e.bytes
    BY <2>4, BothCost
  <2>7. e.nodes \in Nat /\ e.bytes \in Nat /\ f.bytes \in Nat
    BY <2>4 DEF Cost
  <2>8. c.nodes >= 1 /\ c.bytes = rate[i]
    <3>1. Len(P[i]) = e.bytes /\ rate[i] = Len(P[i]) + OneMore(i)
      BY <1>3, <1>6, <2>3
    <3>2. rate[i] = e.bytes + f.bytes
      BY ONLY <2>4, <3>1, Zenon
    <3>3. c.nodes >= 1
      BY ONLY <2>3, <2>4, <2>6, <2>7
    <3> QED
      BY ONLY <2>6, <2>7, <3>2, <3>3
  <2>9. \A b \in Budget : step[i][b] = W[a[i]][Comma(b, i)]
    BY <1>5
  <2>10. ASSUME NEW b \in Budget PROVE step[i][b] = Settling(b, c)
    <3>1. W[a[i]][Comma(b, i)] = Settling(Settling(b, f), e)
      BY <2>3, <2>5 DEF Settles
    <3>2. Settling(Settling(b, f), e) = Settling(b, c)
      BY <2>4, SettlingTwice
    <3> QED
      BY <2>9, <3>1, <3>2
  <2>11. step[i] \in [Budget -> Budget]
    BY <1>5, <2>2, <2>5
  <2> HIDE DEF c
  <2>12. Settles(step[i], c)
    BY <2>6, <2>10 DEF Settles
  <2> QED
    BY <2>6, <2>8, <2>11, <2>12
<1> HIDE DEF a, n, P, step, rate
<1>8. step \in [1 .. n -> [Budget -> Budget]]
  BY <1>5, <1>7
<1>9. UpTo(n) \in Seq(1 .. n) /\ Len(UpTo(n)) = n
  BY <1>1, UpToIs
<1>10. PICK c \in Cost : c.nodes >= Len(UpTo(n)) /\ \A b \in Budget : Through(step, b, UpTo(n)) = Settling(b, c)
  <2>1. \A i \in 1 .. n : \E c \in Cost : Settles(step[i], c) /\ c.nodes >= 1
    BY <1>7
  <2> QED
    BY <1>8, <1>9, <2>1, ThroughSettles
<1>11. c.bytes = Len(Listed(P))
  <2>1. Unused \in Budget /\ Unused.bytes = 0
    BY NothingUsed
  <2>2. PICK F : BytesAt(F, n, step, rate, Unused)
    <3>1. \A i \in 1 .. n : \E e \in Cost : Settles(step[i], e) /\ e.bytes = rate[i]
      BY <1>7
    <3> QED
      BY <1>1, <1>8, <2>1, <3>1, BytesGrow
  <2>3. PICK H : CommasAt(H, P)
    BY <1>4, ListedGrows
  <2> DEFINE G == [i \in 0 .. n |-> 0]
  <2>4. /\ \A i \in 0 .. n : F[i] \in Nat /\ H[i] \in Nat
        /\ F[0] = 0 /\ H[0] = 0 /\ H[n] = Len(Listed(P)) /\ F[n] = Through(step, Unused, UpTo(n)).bytes
        /\ \A i \in 1 .. n : F[i] = F[i - 1] + rate[i] /\ H[i] = H[i - 1] + (Len(P[i]) + OneMore(i))
    BY <1>3, <2>1, <2>2, <2>3 DEF BytesAt, CommasAt
  <2>5. ASSUME NEW i \in 1 .. n PROVE H[i] - H[i - 1] = (F[i] - F[i - 1]) + (G[i] - G[i - 1])
    <3>1. i \in 0 .. n /\ i - 1 \in 0 .. n
      BY <1>1
    <3>2. G[i] = 0 /\ G[i - 1] = 0 /\ F[i] \in Nat /\ F[i - 1] \in Nat /\ H[i] \in Nat /\ H[i - 1] \in Nat
      BY <2>4, <3>1
    <3>3. F[i] = F[i - 1] + rate[i] /\ H[i] = H[i - 1] + rate[i]
      BY <1>6, <2>4
    <3>4. rate[i] \in Nat
      <4>1. PICK e \in Cost : e.bytes = rate[i]
        BY <1>7
      <4> QED
        BY <4>1 DEF Cost
    <3> DEFINE x == F[i]
               y == F[i - 1]
               z == H[i]
               u == H[i - 1]
               r == rate[i]
    <3>5. x \in Nat /\ y \in Nat /\ z \in Nat /\ u \in Nat /\ r \in Nat /\ x = y + r /\ z = u + r
      BY <3>2, <3>3, <3>4
    <3> HIDE DEF x, y, z, u, r
    <3>6. z - u = (x - y) + (0 - 0)
      BY ONLY <3>5
    <3> QED
      BY <3>2, <3>6 DEF x, y, z, u
  <2>6. \A i \in 0 .. n : F[i] \in Int /\ G[i] \in Int /\ H[i] \in Int
    BY <2>4
  <2>7. H[n] - H[0] = (F[n] - F[0]) + (G[n] - G[0])
    <3>1. n \in Nat
      BY <1>1
    <3> HIDE DEF G
    <3> QED
      <4>1. AddingEach(F, G, H, n)
        BY ONLY <2>5, <2>6 DEF AddingEach
      <4>2. AddingAll(F, G, H, n)
        BY ONLY <3>1, <4>1, AddingUp
      <4> QED
        BY ONLY <4>2 DEF AddingAll
  <2>8. H[n] = F[n]
    <3>1. 0 \in 0 .. n /\ n \in 0 .. n /\ G[n] = 0 /\ G[0] = 0
      BY <1>1
    <3>2. H[n] \in Nat /\ F[n] \in Nat
      BY <2>4, <3>1
    <3> HIDE DEF G
    <3> QED
      BY ONLY <2>4, <2>7, <3>1, <3>2
  <2>9. Through(step, Unused, UpTo(n)) = Settling(Unused, c)
    BY <1>10, <2>1
  <2>10. Settling(Unused, c).bytes = Unused.bytes + c.bytes
    BY <2>1, SettlingIs
  <2>11. c.bytes \in Nat
    BY DEF Cost
  <2> QED
    BY <2>1, <2>4, <2>8, <2>9, <2>10, <2>11
<1> QED
  BY <1>9, <1>10, <1>11 DEF ItemsTake, P, step, n, a

(* s lists each key of v.                                                  *)
EachKey(v, s) == s \in Seq(KeysOf(v)) /\ OccursOnce(s) /\ Elements(s) = KeysOf(v) /\ Len(s) = Len(v.fields)

(* The keys as they were written are each key once.                        *)
LEMMA KeysWritten ==
  ASSUME NEW B, NEW v, IsObject(v, B)
  PROVE  /\ EachKey(v, KeysAsWritten(v))
         /\ \A i \in 1 .. Len(v.fields) : ValueOf(v, KeysAsWritten(v)[i]) = v.fields[i].value
<1> DEFINE f == v.fields
           n == Len(f)
           K == KeysOf(v)
           s == KeysAsWritten(v)
<1>1. n \in Nat /\ DOMAIN f = 1 .. n /\ \A i, j \in DOMAIN f : f[i].key = f[j].key => i = j
  BY FieldsAreValues
<1>2. \A i \in DOMAIN f : f[i].key \in K /\ ValueOf(v, f[i].key) = f[i].value
  BY ValuesByKey
<1>3. K = {f[i].key : i \in DOMAIN f}
  BY DEF KeysOf
<1>4. s = [i \in DOMAIN f |-> f[i].key]
  BY DEF KeysAsWritten
<1> HIDE DEF f, n, K, s
<1>5. s \in [1 .. n -> K] /\ DOMAIN s = 1 .. n /\ \A i \in 1 .. n : s[i] = f[i].key
  BY <1>1, <1>2, <1>4
<1>6. s \in Seq(K) /\ Len(s) = n
  BY <1>1, <1>5, FunctionIsSequence
<1>7. OccursOnce(s) /\ Elements(s) = K
  <2>1. OccursOnce(s)
    BY ONLY <1>1, <1>5 DEF OccursOnce
  <2>2. Elements(s) = K
    <3>1. Elements(s) = {s[i] : i \in 1 .. n} /\ K = {f[i].key : i \in 1 .. n}
      BY ONLY <1>1, <1>3, <1>5 DEF Elements
    <3> QED
      BY ONLY <1>5, <3>1
  <2> QED
    BY <2>1, <2>2
<1> QED
  BY <1>1, <1>2, <1>5, <1>6, <1>7 DEF EachKey, f, n, K, s

(* The keys in order are each key once.                                    *)
LEMMA KeysSorted ==
  ASSUME NEW B, NEW v, IsObject(v, B)
  PROVE  EachKey(v, KeysInOrder(v))
<1> DEFINE K == KeysOf(v)
           s == KeysInOrder(v)
           t == KeysAsWritten(v)
<1>1. K \subseteq Keys
  BY ValuesByKey
<1>2. s \in Seq(Keys) /\ Elements(s) = K /\ OccursOnce(s)
  BY <1>1, KeysInOrderAre
<1>3. EachKey(v, t)
  BY KeysWritten
<1> HIDE DEF s, t
<1>4. Len(s) \in Nat /\ DOMAIN s = 1 .. Len(s)
  BY <1>2, SequenceIsFunction
<1>5. s \in [1 .. Len(s) -> K]
  <2>1. s = [i \in DOMAIN s |-> s[i]]
    BY <1>2
  <2>2. \A i \in DOMAIN s : s[i] \in K
    BY <1>2 DEF Elements
  <2> QED
    BY <1>4, <2>1, <2>2
<1>6. s \in Seq(K)
  BY <1>4, <1>5, FunctionIsSequence
<1>7. Len(s) = Len(t)
  BY <1>2, <1>3, <1>6, SameLength DEF EachKey
<1> QED
  BY <1>2, <1>3, <1>6, <1>7 DEF EachKey, s

ByKey(W, v) == [key \in KeysOf(v) |-> W[ValueOf(v, key)]]

(* The walk of each key's value settles the cost of what is emitted of it. *)
LEMMA ByKeySettles ==
  ASSUME NEW B, NEW W, NEW E, Costed(W, E, B), NEW v, IsObject(v, B)
  PROVE  /\ ByKey(W, v) \in [KeysOf(v) -> [Budget -> Budget]]
         /\ \A key \in KeysOf(v) :
              \E c \in Cost : Settles(ByKey(W, v)[key], c) /\ c.nodes >= 1 /\ c.bytes = Len(E[ValueOf(v, key)])
         /\ Commuting(ByKey(W, v), KeysOf(v), Budget)
<1> DEFINE K == KeysOf(v)
           step == ByKey(W, v)
<1>1. \A key \in K : ValueOf(v, key) \in B
  BY ValuesByKey
<1>2. \A key \in K : step[key] = W[ValueOf(v, key)]
  BY DEF ByKey
<1>3. step = [key \in K |-> step[key]]
  BY DEF ByKey
<1> HIDE DEF K, step
<1>4. ASSUME NEW key \in K
      PROVE  /\ step[key] \in [Budget -> Budget]
             /\ \E c \in Cost : Settles(step[key], c) /\ c.nodes >= 1 /\ c.bytes = Len(E[ValueOf(v, key)])
  BY <1>1, <1>2 DEF Costed
<1>5. step \in [K -> [Budget -> Budget]]
  BY <1>3, <1>4
<1>6. Commuting(step, K, Budget)
  BY <1>4, <1>5, SettlingStepsCommute
<1> QED
  BY <1>4, <1>5, <1>6 DEF K, step

FieldSteps(W, v) == [i \in DOMAIN v.fields |-> W[v.fields[i].value]]

(* The fields may be walked in the order of any list of the keys.          *)
LEMMA FieldsInAnyOrder ==
  ASSUME NEW B, NEW W, NEW E, Costed(W, E, B), NEW v, IsObject(v, B), NEW base \in Budget,
         NEW s, EachKey(v, s)
  PROVE  Through(FieldSteps(W, v), base, UpTo(Len(v.fields))) = Through(ByKey(W, v), base, s)
<1> DEFINE n == Len(v.fields)
           K == KeysOf(v)
           t == KeysAsWritten(v)
           step == ByKey(W, v)
           f == FieldSteps(W, v)
<1>1. n \in Nat /\ DOMAIN v.fields = 1 .. n /\ \A i \in 1 .. n : v.fields[i].value \in B
  BY FieldsAreValues
<1>2. t \in Seq(K) /\ OccursOnce(t) /\ Elements(t) = K /\ Len(t) = n
  BY KeysWritten DEF EachKey
<1>3. \A i \in 1 .. n : ValueOf(v, t[i]) = v.fields[i].value
  BY KeysWritten
<1>4. step \in [K -> [Budget -> Budget]] /\ Commuting(step, K, Budget)
  BY ByKeySettles
<1>5. f \in [1 .. n -> [Budget -> Budget]] /\ \A i \in 1 .. n : f[i] = W[v.fields[i].value]
  <2>1. \A i \in 1 .. n : W[v.fields[i].value] \in [Budget -> Budget]
    BY <1>1 DEF Costed
  <2> QED
    BY <1>1, <2>1 DEF FieldSteps
<1>6. \A key \in K : step[key] = W[ValueOf(v, key)]
  BY DEF ByKey
<1>7. s \in Seq(K) /\ OccursOnce(s) /\ Elements(s) = K
  BY DEF EachKey
<1> HIDE DEF n, K, t, step, f
<1>8. UpTo(n) \in Seq(1 .. n) /\ Len(UpTo(n)) = n /\ \A i \in 1 .. n : UpTo(n)[i] = i
  BY <1>1, UpToIs
<1>9. \A i \in 1 .. n : t[i] \in K
  BY <1>2, SequenceIsFunction
<1>10. \A i \in 1 .. Len(UpTo(n)) : f[UpTo(n)[i]] = step[t[i]]
  BY <1>3, <1>5, <1>6, <1>8, <1>9
<1>11. Through(f, base, UpTo(n)) = Through(step, base, t)
  <2>1. UpTo(n) \in Seq(1 .. n) /\ t \in Seq(K) /\ Len(UpTo(n)) = Len(t) /\ base \in Budget
    BY <1>2, <1>8
  <2>2. f \in [1 .. n -> [Budget -> Budget]] /\ step \in [K -> [Budget -> Budget]]
    BY <1>4, <1>5
  <2>3. SameSteps(f, UpTo(n), step, t)
    BY ONLY <1>10, <2>1 DEF SameSteps
  <2> DEFINE I == 1 .. n
             all == UpTo(n)
  <2>4. all \in Seq(I) /\ f \in [I -> [Budget -> Budget]] /\ SameSteps(f, all, step, t)
    BY <2>1, <2>2, <2>3
  <2>6. t \in Seq(K) /\ base \in Budget /\ step \in [K -> [Budget -> Budget]]
    BY <2>1, <2>2
  <2> HIDE DEF I, all
  <2>5. Through(f, base, all) = Through(step, base, t)
    BY ONLY <2>4, <2>6, ThroughSame
  <2> QED
    BY <2>5 DEF all
<1>12. Through(step, base, t) = Through(step, base, s)
  BY <1>2, <1>4, <1>7, AnyOrder
<1> QED
  BY <1>11, <1>12 DEF f, n, step

(* The names of the fields in what is emitted.                             *)
NameBytes(n) == IF n = 0 THEN 0 ELSE 5 * n - 1

FieldsTake(W, E, v, c) ==
  /\ c.nodes >= Len(v.fields)
  /\ NameBytes(Len(v.fields)) + c.bytes = Len(Listed(FieldPieces(E, v)))
  /\ \A b \in Budget : Through(FieldSteps(W, v), b, UpTo(Len(v.fields))) = Settling(b, c)

FieldLengths(E, v) ==
  /\ FieldPieces(E, v) \in Seq(Words) /\ Len(FieldPieces(E, v)) = Len(v.fields)
  /\ \A i \in 1 .. Len(v.fields) :
       /\ KeysInOrder(v)[i] \in KeysOf(v)
       /\ Len(FieldPieces(E, v)[i]) = 4 + Len(E[ValueOf(v, KeysInOrder(v)[i])])
       /\ Len(E[ValueOf(v, KeysInOrder(v)[i])]) \in Nat

(* A field is emitted as its name, of four symbols, and its value.         *)
LEMMA FieldPieceLengths ==
  ASSUME NEW B, NEW E, Readable(E, B), NEW v, IsObject(v, B)
  PROVE  FieldLengths(E, v)
<1> DEFINE P == FieldPieces(E, v)
           keys == KeysInOrder(v)
           n == Len(v.fields)
<1>1. FieldPiecesRight(E, B, v)
  BY FieldPiecesTyped
<1>2. /\ P \in Seq(FieldWords(E, B)) /\ Len(P) = Len(keys)
      /\ \A i \in 1 .. Len(keys) : /\ keys[i] \in KeysOf(v) /\ keys[i] \in Keys
                                   /\ ValueOf(v, keys[i]) \in B
                                   /\ P[i] = Named(keys[i]) \o E[ValueOf(v, keys[i])]
  BY ONLY <1>1 DEF FieldPiecesRight
<1>3. EachKey(v, keys)
  BY KeysSorted
<1>4. Len(keys) = n
  BY ONLY <1>3 DEF EachKey
<1>5. P \in Seq(Words)
  BY <1>2, FieldWordsAreRead, WiderElements
<1> HIDE DEF P, keys, n
<1>6. ASSUME NEW i \in 1 .. n
      PROVE  /\ keys[i] \in KeysOf(v) /\ Len(P[i]) = 4 + Len(E[ValueOf(v, keys[i])])
             /\ Len(E[ValueOf(v, keys[i])]) \in Nat
  <2> DEFINE x == E[ValueOf(v, keys[i])]
             name == Named(keys[i])
  <2>1. keys[i] \in KeysOf(v) /\ keys[i] \in Keys /\ ValueOf(v, keys[i]) \in B /\ P[i] = name \o x
    BY <1>2, <1>4
  <2>2. x \in Words
    BY <2>1 DEF Readable
  <2>3. name \in Words /\ Len(name) = 4
    BY <2>1, NamedIs
  <2>4. Len(name \o x) = Len(name) + Len(x)
    BY <2>2, <2>3, WordsIndexed
  <2>5. Len(x) \in Nat
    BY <2>2, SequenceIsFunction DEF Words
  <2> HIDE DEF x, name
  <2>6. Len(P[i]) = 4 + Len(x)
    BY ONLY <2>1, <2>3, <2>4, Zenon
  <2> QED
    BY <2>1, <2>5, <2>6 DEF x
<1> QED
  BY <1>2, <1>4, <1>5, <1>6 DEF P, keys, n, FieldLengths

(* Walking the fields takes the bytes that listing them does without       *)
(* names.                                                                  *)
LEMMA FieldsCost ==
  ASSUME NEW B, NEW W, NEW E, Readable(E, B), Costed(W, E, B), NEW v, IsObject(v, B)
  PROVE  \E c \in Cost : FieldsTake(W, E, v, c)
<1> DEFINE n == Len(v.fields)
           K == KeysOf(v)
           keys == KeysInOrder(v)
           P == FieldPieces(E, v)
           step == ByKey(W, v)
           f == FieldSteps(W, v)
           sorted == [i \in 1 .. n |-> step[keys[i]]]
           rate == [i \in 1 .. n |-> Len(E[ValueOf(v, keys[i])])]
<1>1. n \in Nat
  BY FieldsAreValues
<1>2. /\ P \in Seq(Words) /\ Len(P) = n
      /\ \A i \in 1 .. n : keys[i] \in K /\ Len(P[i]) = 4 + Len(E[ValueOf(v, keys[i])])
                           /\ Len(E[ValueOf(v, keys[i])]) \in Nat
  <2>1. FieldLengths(E, v)
    BY FieldPieceLengths
  <2> QED
    BY ONLY <2>1 DEF FieldLengths
<1>3. EachKey(v, keys)
  BY KeysSorted
<1>4. keys \in Seq(K) /\ Len(keys) = n
  BY ONLY <1>3 DEF EachKey
<1>5. step \in [K -> [Budget -> Budget]]
  BY ByKeySettles
<1>6. \A key \in K : \E c \in Cost : Settles(step[key], c) /\ c.nodes >= 1 /\ c.bytes = Len(E[ValueOf(v, key)])
  BY ByKeySettles
<1>7. \A b \in Budget : Through(f, b, UpTo(n)) = Through(step, b, keys)
  BY <1>3, FieldsInAnyOrder
<1>8. \A i \in 1 .. n : rate[i] = Len(E[ValueOf(v, keys[i])]) /\ sorted[i] = step[keys[i]]
  OBVIOUS
<1> HIDE DEF n, K, keys, P, step, f
<1>9. sorted \in [1 .. n -> [Budget -> Budget]]
  BY <1>2, <1>5
<1> HIDE DEF sorted, rate
<1>10. PICK c \in Cost : c.nodes >= Len(keys) /\ \A b \in Budget : Through(step, b, keys) = Settling(b, c)
  <2>1. \A key \in K : \E c \in Cost : Settles(step[key], c) /\ c.nodes >= 1
    BY <1>6
  <2> QED
    BY <1>4, <1>5, <2>1, ThroughSettles
<1>11. UpTo(n) \in Seq(1 .. n) /\ Len(UpTo(n)) = n /\ \A i \in 1 .. n : UpTo(n)[i] = i
  BY <1>1, UpToIs
<1>12. Unused \in Budget /\ Unused.bytes = 0
  BY NothingUsed
<1>13. Through(sorted, Unused, UpTo(n)) = Through(step, Unused, keys)
  <2>1. \A i \in 1 .. Len(UpTo(n)) : sorted[UpTo(n)[i]] = step[keys[i]]
    BY <1>8, <1>11
  <2> QED
    <3>1. UpTo(n) \in Seq(1 .. n) /\ keys \in Seq(K) /\ Len(UpTo(n)) = Len(keys) /\ Unused \in Budget
      BY <1>4, <1>11, <1>12
    <3>2. SameSteps(sorted, UpTo(n), step, keys)
      BY ONLY <2>1, <3>1 DEF SameSteps
    <3> DEFINE I == 1 .. n
               all == UpTo(n)
    <3>3. all \in Seq(I) /\ sorted \in [I -> [Budget -> Budget]] /\ SameSteps(sorted, all, step, keys)
      BY <1>9, <3>1, <3>2
    <3> HIDE DEF I, all
    <3>4. Through(sorted, Unused, all) = Through(step, Unused, keys)
      BY ONLY <1>5, <3>1, <3>3, ThroughSame
    <3> QED
      BY <3>4 DEF all
<1>14. NameBytes(n) + c.bytes = Len(Listed(P))
  <2>2. PICK F : BytesAt(F, n, sorted, rate, Unused)
    <3>1. \A i \in 1 .. n : \E e \in Cost : Settles(sorted[i], e) /\ e.bytes = rate[i]
      BY <1>2, <1>6, <1>8
    <3> QED
      BY <1>1, <1>9, <1>12, <3>1, BytesGrow
  <2>3. PICK H : CommasAt(H, P)
    BY <1>2, ListedGrows
  <2> DEFINE G == [i \in 0 .. n |-> NameBytes(i)]
  <2>4. /\ \A i \in 0 .. n : F[i] \in Nat /\ H[i] \in Nat
        /\ F[0] = 0 /\ H[0] = 0 /\ H[n] = Len(Listed(P)) /\ F[n] = Through(sorted, Unused, UpTo(n)).bytes
        /\ \A i \in 1 .. n : F[i] = F[i - 1] + rate[i] /\ H[i] = H[i - 1] + (Len(P[i]) + OneMore(i))
    BY <1>2, <1>12, <2>2, <2>3 DEF BytesAt, CommasAt
  <2>g. \A i \in 0 .. n : G[i] = NameBytes(i) /\ NameBytes(i) \in Nat
    BY <1>1 DEF NameBytes
  <2> HIDE DEF G
  <2>5. ASSUME NEW i \in 1 .. n PROVE H[i] - H[i - 1] = (F[i] - F[i - 1]) + (G[i] - G[i - 1])
    <3>1. i \in 0 .. n /\ i - 1 \in 0 .. n
      BY <1>1
    <3>2. F[i] \in Nat /\ F[i - 1] \in Nat /\ H[i] \in Nat /\ H[i - 1] \in Nat /\ G[i] \in Nat /\ G[i - 1] \in Nat
      BY <2>4, <2>g, <3>1
    <3>3. F[i] = F[i - 1] + rate[i] /\ H[i] = H[i - 1] + (Len(P[i]) + OneMore(i))
      BY <2>4
    <3>4. rate[i] \in Nat /\ Len(P[i]) = 4 + rate[i]
      BY <1>2, <1>8
    <3>5. G[i] = G[i - 1] + (4 + OneMore(i))
      <4>1. NameBytes(i) = NameBytes(i - 1) + (4 + OneMore(i))
        BY <1>1 DEF NameBytes, OneMore
      <4> QED
        BY <2>g, <3>1, <4>1
    <3> DEFINE x == F[i]
               y == F[i - 1]
               z == H[i]
               u == H[i - 1]
               r == rate[i]
               k == OneMore(i)
               p == G[i]
               q == G[i - 1]
               l == Len(P[i])
    <3>6. k \in Nat
      BY DEF OneMore
    <3>7. /\ x \in Nat /\ y \in Nat /\ z \in Nat /\ u \in Nat /\ r \in Nat /\ p \in Nat /\ q \in Nat
          /\ x = y + r /\ z = u + (l + k) /\ l = 4 + r /\ p = q + (4 + k)
      BY <3>2, <3>3, <3>4, <3>5
    <3> HIDE DEF x, y, z, u, r, k, p, q, l
    <3>8. z - u = (x - y) + (p - q)
      BY ONLY <3>6, <3>7
    <3> QED
      BY <3>8 DEF x, y, z, u, p, q
  <2>6. \A i \in 0 .. n : F[i] \in Int /\ G[i] \in Int /\ H[i] \in Int
    BY <2>4, <2>g
  <2>7. H[n] - H[0] = (F[n] - F[0]) + (G[n] - G[0])
    <3>1. AddingEach(F, G, H, n)
      BY ONLY <2>5, <2>6 DEF AddingEach
    <3>2. AddingAll(F, G, H, n)
      BY ONLY <1>1, <3>1, AddingUp
    <3> QED
      BY ONLY <3>2 DEF AddingAll
  <2>8. H[n] = NameBytes(n) + F[n]
    <3>1. 0 \in 0 .. n /\ n \in 0 .. n
      BY <1>1
    <3>2. G[n] = NameBytes(n) /\ NameBytes(n) \in Nat /\ G[0] = 0
      BY <2>g, <3>1 DEF NameBytes
    <3>3. H[n] \in Nat /\ F[n] \in Nat /\ H[0] = 0 /\ F[0] = 0
      BY <2>4, <3>1
    <3> DEFINE x == F[n]
               z == H[n]
               p == NameBytes(n)
    <3>4. z - 0 = (x - 0) + (p - 0) /\ x \in Nat /\ z \in Nat /\ p \in Nat
      BY <2>7, <3>2, <3>3
    <3> HIDE DEF x, z, p
    <3>5. z = p + x
      BY ONLY <3>4
    <3> QED
      BY <3>5 DEF x, z, p
  <2>9. Through(sorted, Unused, UpTo(n)) = Settling(Unused, c)
    BY <1>10, <1>12, <1>13
  <2>10. Settling(Unused, c).bytes = Unused.bytes + c.bytes
    BY <1>12, SettlingIs
  <2>11. c.bytes \in Nat
    BY DEF Cost
  <2>12. F[n] = c.bytes
    BY <1>12, <2>4, <2>9, <2>10, <2>11
  <2> QED
    BY ONLY <2>4, <2>8, <2>12, Zenon
<1>15. \A b \in Budget : Through(f, b, UpTo(n)) = Settling(b, c)
  BY <1>7, <1>10
<1>16. c.nodes >= n
  BY <1>4, <1>10
<1> QED
  BY <1>14, <1>15, <1>16 DEF FieldsTake, P, f, n

-----------------------------------------------------------------------------
(* The names of the fields are written before their values are walked.     *)

LEMMA Scratches == NodeScratch \in Nat /\ StringScratch \in Nat /\ FieldScratch \in Nat
BY CanonicalAssumption

OneNamed(b, i) == AddBytes(WriteString(Foresee(Comma(Reserve(b, FieldScratch), i), i), 3), 1)

LEMMA CommaAdds ==
  ASSUME NEW p \in Nat, NEW q, NEW m, NEW d, NEW s, NEW t, NEW i \in Nat
  PROVE  Comma(Bud(p, q, m, d, s, t), i) = Bud(p + OneMore(i), q, m, d, s, t)
<1>1. CASE i > 1
  BY <1>1, Spends DEF Comma, OneMore
<1>2. CASE ~(i > 1)
  <2>1. p + 0 = p
    OBVIOUS
  <2> QED
    BY <1>2, <2>1 DEF Comma, OneMore
<1> QED
  BY <1>1, <1>2

LEMMA StringSpends ==
  ASSUME NEW p, NEW q, NEW m, NEW d, NEW s \in Int, NEW t \in Int, NEW k
  PROVE  WriteString(Bud(p, q, m, d, s, t), k) = Bud(p + k, q, m, d, s, Greater(t, s + StringScratch))
<1>1. Reserve(Bud(p, q, m, d, s, t), StringScratch) = Bud(p, q, m, d, s + StringScratch, Greater(t, s + StringScratch))
  BY Spends
<1> DEFINE u == Greater(t, s + StringScratch)
           r == s + StringScratch
<1>2. AddBytes(Bud(p, q, m, d, r, u), k) = Bud(p + k, q, m, d, r, u)
  BY Spends
<1>3. Release(Bud(p + k, q, m, d, r, u), StringScratch) = Bud(p + k, q, m, d, r - StringScratch, u)
  BY Spends
<1>4. r - StringScratch = s
  BY Scratches
<1> QED
  BY <1>1, <1>2, <1>3, <1>4 DEF WriteString

(* What is spent on the name of one field.                                 *)
LEMMA NameSpends ==
  ASSUME NEW b \in Budget, NEW i \in Nat
  PROVE  /\ OneNamed(b, i) = Bud(b.bytes + (4 + OneMore(i)), b.nodes, Greater(b.mostNodes, b.nodes + i), b.depth,
                                 b.scratch + FieldScratch,
                                 Greater(b.mostScratch, (b.scratch + FieldScratch) + StringScratch))
         /\ OneNamed(b, i) \in Budget
<1> DEFINE p == b.bytes
           q == b.nodes
           m == b.mostNodes
           d == b.depth
           s == b.scratch
           t == b.mostScratch
           k == OneMore(i)
           s1 == s + FieldScratch
           t1 == Greater(t, s1)
           m1 == Greater(m, q + i)
           t2 == Greater(t1, s1 + StringScratch)
<1>1. b = Bud(p, q, m, d, s, t) /\ Within(p, q, m, d, s, t)
  BY BudgetIs
<1>2. k \in Nat
  BY DEF OneMore
<1> HIDE DEF p, q, m, d, s, t, k
<1>3. Reserve(b, FieldScratch) = Bud(p, q, m, d, s1, t1)
  BY <1>1, Spends
<1>4. s1 \in Int /\ t1 \in Int /\ p \in Nat /\ p + k \in Nat
  BY <1>1, <1>2, Scratches DEF Within, Greater
<1> HIDE DEF s1, t1
<1>5. Comma(Bud(p, q, m, d, s1, t1), i) = Bud(p + k, q, m, d, s1, t1)
  BY <1>4, CommaAdds DEF k
<1>6. Foresee(Bud(p + k, q, m, d, s1, t1), i) = Bud(p + k, q, m1, d, s1, t1)
  BY Spends
<1>7. WriteString(Bud(p + k, q, m1, d, s1, t1), 3) = Bud((p + k) + 3, q, m1, d, s1, t2)
  BY <1>4, StringSpends
<1>8. AddBytes(Bud((p + k) + 3, q, m1, d, s1, t2), 1) = Bud(((p + k) + 3) + 1, q, m1, d, s1, t2)
  BY Spends
<1>9. OneNamed(b, i) = Bud(((p + k) + 3) + 1, q, m1, d, s1, t2)
  BY <1>3, <1>5, <1>6, <1>7, <1>8 DEF OneNamed
<1>10. ((p + k) + 3) + 1 = p + (4 + k)
  BY <1>2, <1>4
<1>11. t2 = Greater(t, s1 + StringScratch)
  BY <1>1, <1>4, Scratches DEF Within, Greater, t1, s1
<1>12. Within(p + (4 + k), q, m1, d, s1, t2)
  BY <1>1, <1>2, <1>4, <1>11, Scratches DEF Within, Greater
<1>13. Bud(p + (4 + k), q, m1, d, s1, t2) \in Budget
  BY <1>12, BudIsBudget
<1>14. OneNamed(b, i) = Bud(p + (4 + k), q, m1, d, s1, t2)
  BY <1>9, <1>10
<1> HIDE DEF m1, t2
<1> QED
  BY <1>11, <1>13, <1>14 DEF p, q, m, d, s, t, k, s1, m1

NameScratch(n) == IF n = 0 THEN 0 ELSE n * FieldScratch + StringScratch

NamedUp(o, n) ==
  Bud(o.bytes + NameBytes(n), o.nodes, Greater(o.mostNodes, o.nodes + n), o.depth,
      o.scratch + n * FieldScratch, Greater(o.mostScratch, o.scratch + NameScratch(n)))

(* The budget after n names.                                               *)
LEMMA NamedUpIs ==
  ASSUME NEW o \in Budget, NEW n \in Nat
  PROVE  /\ NamedUp(o, n) \in Budget /\ n * FieldScratch \in Nat
         /\ NameBytes(n) \in Nat /\ NameScratch(n) \in Nat /\ n * FieldScratch <= NameScratch(n)
         /\ NamedUp(o, n).bytes = o.bytes + NameBytes(n) /\ NamedUp(o, n).nodes = o.nodes
         /\ NamedUp(o, n).mostNodes = Greater(o.mostNodes, o.nodes + n) /\ NamedUp(o, n).depth = o.depth
         /\ NamedUp(o, n).scratch = o.scratch + n * FieldScratch
         /\ NamedUp(o, n).mostScratch = Greater(o.mostScratch, o.scratch + NameScratch(n))
<1> DEFINE k == n * FieldScratch
<1>1. k \in Nat /\ (n = 0 => k = 0)
  BY Scratches
<1>2. NameBytes(n) \in Nat
  BY DEF NameBytes
<1>3. NameScratch(n) = IF n = 0 THEN 0 ELSE k + StringScratch
  BY DEF NameScratch
<1> HIDE DEF k
<1>4. NameScratch(n) \in Nat /\ k <= NameScratch(n)
  BY <1>1, <1>3, Scratches
<1>5. Within(o.bytes, o.nodes, o.mostNodes, o.depth, o.scratch, o.mostScratch)
  BY BudgetIs
<1>6. Within(o.bytes + NameBytes(n), o.nodes, Greater(o.mostNodes, o.nodes + n), o.depth,
             o.scratch + k, Greater(o.mostScratch, o.scratch + NameScratch(n)))
  BY <1>1, <1>2, <1>4, <1>5 DEF Within, Greater
<1>7. NamedUp(o, n) = Bud(o.bytes + NameBytes(n), o.nodes, Greater(o.mostNodes, o.nodes + n), o.depth,
                          o.scratch + k, Greater(o.mostScratch, o.scratch + NameScratch(n)))
  BY DEF NamedUp, k
<1>8. NamedUp(o, n) \in Budget
  BY <1>6, <1>7, BudIsBudget
<1> QED
  BY <1>1, <1>2, <1>4, <1>7, <1>8, BudIs DEF k

(* The budget after one name more.                                         *)
LEMMA NextNamed ==
  ASSUME NEW o \in Budget, NEW n \in Nat
  PROVE  OneNamed(NamedUp(o, n), n + 1) = NamedUp(o, n + 1)
<1> DEFINE b == NamedUp(o, n)
           k == n * FieldScratch
           l == (n + 1) * FieldScratch
           more == OneMore(n + 1)
<1>1. /\ b \in Budget /\ k \in Nat
      /\ NameScratch(n) \in Nat
      /\ b.bytes = o.bytes + NameBytes(n) /\ b.nodes = o.nodes
      /\ b.mostNodes = Greater(o.mostNodes, o.nodes + n) /\ b.depth = o.depth
      /\ b.scratch = o.scratch + k
      /\ b.mostScratch = Greater(o.mostScratch, o.scratch + NameScratch(n))
  BY NamedUpIs
<1>2. l = k + FieldScratch
  BY Scratches
<1>3. NameScratch(n) = (IF n = 0 THEN 0 ELSE k + StringScratch) /\ NameScratch(n + 1) = l + StringScratch
  BY DEF NameScratch
<1>4. OneNamed(b, n + 1) =
        Bud(b.bytes + (4 + more), b.nodes, Greater(b.mostNodes, b.nodes + (n + 1)), b.depth,
            b.scratch + FieldScratch, Greater(b.mostScratch, (b.scratch + FieldScratch) + StringScratch))
  <2>1. n + 1 \in Nat
    OBVIOUS
  <2> HIDE DEF b
  <2> QED
    BY <1>1, <2>1, NameSpends
<1>5. Within(o.bytes, o.nodes, o.mostNodes, o.depth, o.scratch, o.mostScratch)
  BY BudgetIs
<1>6. NameBytes(n) \in Nat /\ NameBytes(n + 1) = NameBytes(n) + (4 + more) /\ more \in Nat
  BY DEF NameBytes, OneMore
<1>7. NamedUp(o, n + 1) = Bud(o.bytes + NameBytes(n + 1), o.nodes, Greater(o.mostNodes, o.nodes + (n + 1)), o.depth,
                              o.scratch + l, Greater(o.mostScratch, o.scratch + NameScratch(n + 1)))
  BY DEF NamedUp
<1> HIDE DEF b, k, l, more
<1>8. b.bytes + (4 + more) = o.bytes + NameBytes(n + 1)
  BY <1>1, <1>5, <1>6 DEF Within
<1>9. Greater(b.mostNodes, b.nodes + (n + 1)) = Greater(o.mostNodes, o.nodes + (n + 1))
  BY <1>1, <1>5 DEF Within, Greater
<1>10. b.scratch + FieldScratch = o.scratch + l
  BY <1>1, <1>2, <1>5, Scratches DEF Within
<1>11. Greater(b.mostScratch, (b.scratch + FieldScratch) + StringScratch) = Greater(o.mostScratch, o.scratch + NameScratch(n + 1))
  BY <1>1, <1>2, <1>3, <1>5, Scratches DEF Within, Greater
<1> QED
  BY <1>1, <1>4, <1>7, <1>8, <1>9, <1>10, <1>11 DEF b

(* Writing the names takes what depends only on how many there are.        *)
LEMMA NamesSpend ==
  ASSUME NEW o \in Budget, NEW n \in Nat
  PROVE  WalkNames(n, o) = NamedUp(o, n)
<1> DEFINE I == 1 .. n
           step == [i \in I |-> [budget \in Budget |-> OneNamed(budget, i)]]
<1>1. WalkNames(n, o) = Through(step, o, UpTo(n))
  BY DEF WalkNames, OneNamed
<1>2. UpTo(n) \in Seq(I) /\ Len(UpTo(n)) = n /\ \A i \in 1 .. n : UpTo(n)[i] = i
  BY UpToIs
<1>3. \A i \in I : \A b \in Budget : OneNamed(b, i) \in Budget
  BY NameSpends
<1>4. step \in [I -> [Budget -> Budget]] /\ \A i \in I : \A b \in Budget : step[i][b] = OneNamed(b, i)
  BY <1>3
<1> HIDE DEF step
<1>5. PICK f \in [0 .. Len(UpTo(n)) -> Budget] : Unfolds(f, step, o, UpTo(n))
  <2> HIDE DEF I
  <2> QED
    BY ONLY <1>2, <1>4, o \in Budget, ThroughUnfolds
<1>6. Through(step, o, UpTo(n)) = f[n] /\ f[0] = o /\ \A i \in 1 .. n : f[i] = step[UpTo(n)[i]][f[i - 1]]
  BY ONLY <1>2, <1>5 DEF Unfolds
<1> DEFINE T == {k \in Nat : k <= n => f[k] = NamedUp(o, k)}
<1>7. 0 \in T
  <2>1. o = Bud(o.bytes, o.nodes, o.mostNodes, o.depth, o.scratch, o.mostScratch)
    BY BudgetIs
  <2>2. Within(o.bytes, o.nodes, o.mostNodes, o.depth, o.scratch, o.mostScratch)
    BY BudgetIs
  <2>3. NameBytes(0) = 0 /\ NameScratch(0) = 0 /\ 0 * FieldScratch = 0
    BY Scratches DEF NameBytes, NameScratch
  <2>4. /\ o.bytes + 0 = o.bytes /\ Greater(o.mostNodes, o.nodes + 0) = o.mostNodes
        /\ o.scratch + 0 = o.scratch /\ Greater(o.mostScratch, o.scratch + 0) = o.mostScratch
    BY <2>2 DEF Within, Greater
  <2>5. NamedUp(o, 0) = o
    BY <2>1, <2>3, <2>4 DEF NamedUp
  <2> QED
    BY <1>6, <2>5
<1>8. ASSUME NEW k \in Nat, k \in T PROVE k + 1 \in T
  <2> SUFFICES ASSUME k + 1 <= n PROVE f[k + 1] = NamedUp(o, k + 1)
    OBVIOUS
  <2>1. k + 1 \in 1 .. n /\ (k + 1) - 1 = k /\ k <= n
    OBVIOUS
  <2>2. f[k] = NamedUp(o, k) /\ NamedUp(o, k) \in Budget
    BY <1>8, <2>1, NamedUpIs
  <2>3. f[k + 1] = step[k + 1][f[k]]
    BY <1>2, <1>6, <2>1
  <2>4. step[k + 1][f[k]] = OneNamed(NamedUp(o, k), k + 1)
    BY <1>4, <2>1, <2>2
  <2> QED
    BY <2>3, <2>4, NextNamed
<1>9. Nat \subseteq T
  <2> HIDE DEF T
  <2> QED
    BY <1>7, <1>8, EveryNumber
<1> QED
  BY <1>1, <1>6, <1>9

-----------------------------------------------------------------------------
(* What each kind of value takes.                                          *)

(* The budget when the node of a value is counted.                         *)
EnteredAt(b, depth) == Reserve(Node(b, depth), NodeScratch)

(* The budget when a value is entered.                                     *)
LEMMA EnteringIs ==
  ASSUME NEW b \in Budget, NEW depth \in Nat
  PROVE  EnteredAt(b, depth) = Bud(b.bytes, b.nodes + 1, Greater(b.mostNodes, b.nodes + 1), Greater(b.depth, depth),
                                  b.scratch + NodeScratch, Greater(b.mostScratch, b.scratch + NodeScratch))
<1>1. b = Bud(b.bytes, b.nodes, b.mostNodes, b.depth, b.scratch, b.mostScratch)
  BY BudgetIs
<1>2. Node(b, depth) = Bud(b.bytes, b.nodes + 1, Greater(b.mostNodes, b.nodes + 1), Greater(b.depth, depth),
                           b.scratch, b.mostScratch)
  BY <1>1, Spends
<1> QED
  BY <1>2, Spends DEF EnteredAt

LeafCost(k, depth, s) == [bytes |-> k, nodes |-> 1, depth |-> depth, scratch |-> NodeScratch + s]

(* Texts, numbers and null settle a cost of their own.                     *)
LEMMA LeavesSettle ==
  ASSUME NEW b \in Budget, NEW depth \in Nat, NEW k \in Nat
  PROVE  /\ LeafCost(k, depth, 0) \in Cost /\ LeafCost(k, depth, StringScratch) \in Cost
         /\ Release(AddBytes(EnteredAt(b, depth), k), NodeScratch) = Settling(b, LeafCost(k, depth, 0))
         /\ Release(WriteString(EnteredAt(b, depth), k), NodeScratch) = Settling(b, LeafCost(k, depth, StringScratch))
<1> DEFINE p == b.bytes
           q == b.nodes
           m == b.mostNodes
           d == b.depth
           s == b.scratch
           t == b.mostScratch
           q1 == q + 1
           m1 == Greater(m, q + 1)
           d1 == Greater(d, depth)
           s1 == s + NodeScratch
           t1 == Greater(t, s + NodeScratch)
           t2 == Greater(t1, s1 + StringScratch)
<1>1. Within(p, q, m, d, s, t)
  BY BudgetIs
<1>2. EnteredAt(b, depth) = Bud(p, q1, m1, d1, s1, t1)
  BY EnteringIs
<1>3. \A r \in Nat : /\ LeafCost(k, depth, r) \in Cost
                     /\ LeafCost(k, depth, r).bytes = k /\ LeafCost(k, depth, r).nodes = 1
                     /\ LeafCost(k, depth, r).depth = depth /\ LeafCost(k, depth, r).scratch = NodeScratch + r
  BY Scratches DEF LeafCost, Cost
<1>4. \A r \in Nat : Settling(b, LeafCost(k, depth, r)) = Bud(p + k, q1, m1, d1, s, Greater(t, s + (NodeScratch + r)))
  BY <1>3 DEF Settling
<1> HIDE DEF p, q, m, d, s, t
<1>5. s1 \in Int /\ t1 \in Int /\ s1 - NodeScratch = s
  BY <1>1, Scratches DEF Within, Greater
<1>6. t1 = Greater(t, s + (NodeScratch + 0)) /\ t2 = Greater(t, s + (NodeScratch + StringScratch))
  BY <1>1, Scratches DEF Within, Greater
<1> HIDE DEF q1, m1, d1, s1, t1
<1>7. AddBytes(Bud(p, q1, m1, d1, s1, t1), k) = Bud(p + k, q1, m1, d1, s1, t1)
  BY Spends
<1>8. WriteString(Bud(p, q1, m1, d1, s1, t1), k) = Bud(p + k, q1, m1, d1, s1, t2)
  BY <1>5, StringSpends
<1>9. \A r : Release(Bud(p + k, q1, m1, d1, s1, r), NodeScratch) = Bud(p + k, q1, m1, d1, s, r)
  BY <1>5, Spends
<1>10. 0 \in Nat /\ StringScratch \in Nat
  BY Scratches
<1> HIDE DEF t2
<1> QED
  BY <1>2, <1>3, <1>4, <1>6, <1>7, <1>8, <1>9, <1>10

ArrayCost(c, depth) ==
  [bytes |-> 2 + c.bytes, nodes |-> 1 + c.nodes, depth |-> Greater(depth, c.depth), scratch |-> NodeScratch + c.scratch]

(* An array settles the cost of its items and its own.                     *)
LEMMA ArraysSettle ==
  ASSUME NEW b \in Budget, NEW depth \in Nat, NEW n \in Nat, NEW c \in Cost, c.nodes >= n
  PROVE  /\ ArrayCost(c, depth) \in Cost
         /\ Foresee(AddBytes(EnteredAt(b, depth), 2), n) \in Budget
         /\ Release(Settling(Foresee(AddBytes(EnteredAt(b, depth), 2), n), c), NodeScratch)
              = Settling(b, ArrayCost(c, depth))
<1> DEFINE p == b.bytes
           q == b.nodes
           m == b.mostNodes
           d == b.depth
           s == b.scratch
           t == b.mostScratch
           e == c.bytes
           f == c.nodes
           g == c.depth
           h == c.scratch
           q1 == q + 1
           m1 == Greater(m, q + 1)
           d1 == Greater(d, depth)
           s1 == s + NodeScratch
           t1 == Greater(t, s + NodeScratch)
           m2 == Greater(m1, q1 + n)
           x == Bud(p + 2, q1, m2, d1, s1, t1)
           a == ArrayCost(c, depth)
<1>1. Within(p, q, m, d, s, t)
  BY BudgetIs
<1>2. EnteredAt(b, depth) = Bud(p, q1, m1, d1, s1, t1)
  BY EnteringIs
<1>3. e \in Nat /\ f \in Nat /\ g \in Nat /\ h \in Nat /\ f >= n
  BY DEF Cost
<1>4. a.bytes = 2 + e /\ a.nodes = 1 + f /\ a.depth = Greater(depth, g) /\ a.scratch = NodeScratch + h
  BY DEF ArrayCost
<1>5. a \in Cost
  BY <1>3, Scratches DEF ArrayCost, Cost, Greater
<1>6. Settling(b, a) = Bud(p + (2 + e), q + (1 + f), Greater(m, q + (1 + f)), Greater(d, Greater(depth, g)), s,
                           Greater(t, s + (NodeScratch + h)))
  BY <1>4 DEF Settling
<1>7. \A y \in Budget : Settling(y, c) =
        Bud(y.bytes + e, y.nodes + f, Greater(y.mostNodes, y.nodes + f), Greater(y.depth, g), y.scratch,
            Greater(y.mostScratch, y.scratch + h))
  BY DEF Settling
<1> HIDE DEF p, q, m, d, s, t, e, f, g, h, a
<1>8. Within(p + 2, q1, m2, d1, s1, t1)
  BY <1>1, Scratches DEF Within, Greater
<1>9. /\ (p + 2) + e = p + (2 + e)
      /\ q1 + f = q + (1 + f)
      /\ Greater(m2, q1 + f) = Greater(m, q + (1 + f))
  BY <1>1, <1>3 DEF Within, Greater
<1>10. /\ Greater(d1, g) = Greater(d, Greater(depth, g))
       /\ s1 - NodeScratch = s
       /\ Greater(t1, s1 + h) = Greater(t, s + (NodeScratch + h))
  BY <1>1, <1>3, Scratches DEF Within, Greater
<1> HIDE DEF q1, m1, d1, s1, t1
<1>11. AddBytes(Bud(p, q1, m1, d1, s1, t1), 2) = Bud(p + 2, q1, m1, d1, s1, t1)
  BY Spends
<1>12. Foresee(Bud(p + 2, q1, m1, d1, s1, t1), n) = x
  BY Spends
<1> HIDE DEF m2
<1>13. x \in Budget
  BY <1>8, BudIsBudget
<1>14. x.bytes = p + 2 /\ x.nodes = q1 /\ x.mostNodes = m2 /\ x.depth = d1 /\ x.scratch = s1 /\ x.mostScratch = t1
  BY BudIs
<1> HIDE DEF x
<1>15. Settling(x, c) = Bud(p + (2 + e), q + (1 + f), Greater(m, q + (1 + f)), Greater(d, Greater(depth, g)), s1,
                            Greater(t, s + (NodeScratch + h)))
  BY <1>7, <1>9, <1>10, <1>13, <1>14
<1>16. Release(Settling(x, c), NodeScratch) =
         Bud(p + (2 + e), q + (1 + f), Greater(m, q + (1 + f)), Greater(d, Greater(depth, g)), s,
             Greater(t, s + (NodeScratch + h)))
  BY <1>10, <1>15, Spends
<1> QED
  BY <1>2, <1>5, <1>6, <1>11, <1>12, <1>13, <1>16 DEF a

ObjectCost(c, depth, n) ==
  [bytes |-> 2 + (NameBytes(n) + c.bytes), nodes |-> 1 + c.nodes, depth |-> Greater(depth, c.depth),
   scratch |-> NodeScratch + Greater(NameScratch(n), n * FieldScratch + c.scratch)]

(* An object settles the cost of its fields, their names and its own.      *)
LEMMA ObjectsSettle ==
  ASSUME NEW b \in Budget, NEW depth \in Nat, NEW n \in Nat, NEW c \in Cost, c.nodes >= n
  PROVE  /\ ObjectCost(c, depth, n) \in Cost
         /\ AddBytes(EnteredAt(b, depth), 2) \in Budget
         /\ Release(Release(Settling(NamedUp(AddBytes(EnteredAt(b, depth), 2), n), c), n * FieldScratch), NodeScratch)
              = Settling(b, ObjectCost(c, depth, n))
<1> DEFINE p == b.bytes
           q == b.nodes
           m == b.mostNodes
           d == b.depth
           s == b.scratch
           t == b.mostScratch
           e == c.bytes
           f == c.nodes
           g == c.depth
           h == c.scratch
           w == n * FieldScratch
           nb == NameBytes(n)
           ns == NameScratch(n)
           q1 == q + 1
           m1 == Greater(m, q + 1)
           d1 == Greater(d, depth)
           s1 == s + NodeScratch
           t1 == Greater(t, s + NodeScratch)
           o == Bud(p + 2, q1, m1, d1, s1, t1)
           x == NamedUp(o, n)
           a == ObjectCost(c, depth, n)
<1>1. Within(p, q, m, d, s, t)
  BY BudgetIs
<1>2. EnteredAt(b, depth) = Bud(p, q1, m1, d1, s1, t1)
  BY EnteringIs
<1>3. e \in Nat /\ f \in Nat /\ g \in Nat /\ h \in Nat /\ f >= n
  BY DEF Cost
<1>4. /\ a.bytes = 2 + (nb + e) /\ a.nodes = 1 + f /\ a.depth = Greater(depth, g)
      /\ a.scratch = NodeScratch + Greater(ns, w + h)
  BY DEF ObjectCost
<1>5. nb \in Nat /\ ns \in Nat /\ w \in Nat /\ w <= ns
  <2>1. Unused \in Budget
    BY NothingUsed
  <2> QED
    BY <2>1, NamedUpIs
<1>6. Settling(b, a) = Bud(p + (2 + (nb + e)), q + (1 + f), Greater(m, q + (1 + f)), Greater(d, Greater(depth, g)), s,
                           Greater(t, s + (NodeScratch + Greater(ns, w + h))))
  BY <1>4 DEF Settling
<1>7. \A y \in Budget : Settling(y, c) =
        Bud(y.bytes + e, y.nodes + f, Greater(y.mostNodes, y.nodes + f), Greater(y.depth, g), y.scratch,
            Greater(y.mostScratch, y.scratch + h))
  BY DEF Settling
<1>8. a = [bytes |-> 2 + (nb + e), nodes |-> 1 + f, depth |-> Greater(depth, g), scratch |-> NodeScratch + Greater(ns, w + h)]
  BY DEF ObjectCost
<1> HIDE DEF p, q, m, d, s, t, e, f, g, h, a, w, nb, ns
<1>9. a \in Cost
  BY <1>3, <1>5, <1>8, Scratches DEF Cost, Greater
<1>10. Within(p + 2, q1, m1, d1, s1, t1)
  BY <1>1, Scratches DEF Within, Greater
<1>11. /\ ((p + 2) + nb) + e = p + (2 + (nb + e))
       /\ q1 + f = q + (1 + f)
       /\ Greater(Greater(m1, q1 + n), q1 + f) = Greater(m, q + (1 + f))
  BY <1>1, <1>3, <1>5 DEF Within, Greater
<1>12. /\ Greater(d1, g) = Greater(d, Greater(depth, g))
       /\ (s1 + w) - w = s1 /\ s1 - NodeScratch = s
       /\ Greater(Greater(t1, s1 + ns), (s1 + w) + h) = Greater(t, s + (NodeScratch + Greater(ns, w + h)))
  BY <1>1, <1>3, <1>5, Scratches DEF Within, Greater
<1> HIDE DEF q1, m1, d1, s1, t1
<1>13. AddBytes(Bud(p, q1, m1, d1, s1, t1), 2) = o
  BY Spends
<1>14. o \in Budget
  BY <1>10, BudIsBudget
<1>15. o.bytes = p + 2 /\ o.nodes = q1 /\ o.mostNodes = m1 /\ o.depth = d1 /\ o.scratch = s1 /\ o.mostScratch = t1
  BY BudIs
<1> HIDE DEF o
<1>16. /\ x \in Budget
       /\ x.bytes = (p + 2) + nb /\ x.nodes = q1 /\ x.mostNodes = Greater(m1, q1 + n) /\ x.depth = d1
       /\ x.scratch = s1 + w /\ x.mostScratch = Greater(t1, s1 + ns)
  <2>1. /\ NamedUp(o, n) \in Budget
        /\ NamedUp(o, n).bytes = o.bytes + NameBytes(n) /\ NamedUp(o, n).nodes = o.nodes
        /\ NamedUp(o, n).mostNodes = Greater(o.mostNodes, o.nodes + n) /\ NamedUp(o, n).depth = o.depth
        /\ NamedUp(o, n).scratch = o.scratch + n * FieldScratch
        /\ NamedUp(o, n).mostScratch = Greater(o.mostScratch, o.scratch + NameScratch(n))
    <3> HIDE DEF x
    <3> QED
      BY <1>14, NamedUpIs
  <2> QED
    BY ONLY <1>15, <2>1 DEF x, nb, w, ns
<1> HIDE DEF x
<1>17. Settling(x, c) = Bud(p + (2 + (nb + e)), q + (1 + f), Greater(m, q + (1 + f)), Greater(d, Greater(depth, g)), s1 + w,
                            Greater(t, s + (NodeScratch + Greater(ns, w + h))))
  BY <1>7, <1>11, <1>12, <1>16
<1>18. Release(Settling(x, c), w) =
         Bud(p + (2 + (nb + e)), q + (1 + f), Greater(m, q + (1 + f)), Greater(d, Greater(depth, g)), s1,
             Greater(t, s + (NodeScratch + Greater(ns, w + h))))
  BY <1>12, <1>17, Spends
<1>19. Release(Release(Settling(x, c), w), NodeScratch) =
         Bud(p + (2 + (nb + e)), q + (1 + f), Greater(m, q + (1 + f)), Greater(d, Greater(depth, g)), s,
             Greater(t, s + (NodeScratch + Greater(ns, w + h))))
  BY <1>12, <1>18, Spends
<1> QED
  BY <1>2, <1>6, <1>9, <1>13, <1>14, <1>19 DEF a, x, w

(* What walking a value does, by its kind.                                 *)
LEMMA WalkingIs ==
  ASSUME NEW W, NEW v, NEW b, NEW depth
  PROVE  /\ v.is = "string" =>
              Walking(W, v, b, depth) = Release(WriteString(EnteredAt(b, depth), BytesOfText(v)), NodeScratch)
         /\ v.is \in {"null", "number"} =>
              Walking(W, v, b, depth) = Release(AddBytes(EnteredAt(b, depth), 1), NodeScratch)
         /\ v.is = "array" =>
              Walking(W, v, b, depth) =
                Release(Through(ItemSteps(W, v), Foresee(AddBytes(EnteredAt(b, depth), 2), Len(v.items)),
                                UpTo(Len(v.items))), NodeScratch)
         /\ v.is = "object" =>
              Walking(W, v, b, depth) =
                Release(Release(Through(FieldSteps(W, v), WalkNames(Len(v.fields), AddBytes(EnteredAt(b, depth), 2)),
                                        UpTo(Len(v.fields))), Len(v.fields) * FieldScratch), NodeScratch)
<1>1. ASSUME v.is = "string"
      PROVE  Walking(W, v, b, depth) = Release(WriteString(EnteredAt(b, depth), BytesOfText(v)), NodeScratch)
  BY <1>1 DEF Walking, EnteredAt
<1>2. ASSUME v.is \in {"null", "number"}
      PROVE  Walking(W, v, b, depth) = Release(AddBytes(EnteredAt(b, depth), 1), NodeScratch)
  BY <1>2 DEF Walking, EnteredAt
<1>3. ASSUME v.is = "array"
      PROVE  Walking(W, v, b, depth) =
               Release(WalkItems(W, v.items, AddBytes(EnteredAt(b, depth), 2)), NodeScratch)
  BY <1>3 DEF Walking, EnteredAt
<1>4. ASSUME v.is = "object"
      PROVE  Walking(W, v, b, depth) =
               Release(WalkFields(W, v.fields, AddBytes(EnteredAt(b, depth), 2)), NodeScratch)
  BY <1>4 DEF Walking, EnteredAt
<1> QED
  BY <1>1, <1>2, <1>3, <1>4 DEF WalkItems, WalkFields, ItemSteps, FieldSteps

LEMMA TwoMore == \A k \in Nat : (1 + k) + 1 = 2 + k
OBVIOUS

(* What encloses a list adds two symbols.                                  *)
LEMMA EnclosedLength ==
  ASSUME NEW open \in {"[", "{"}, NEW close \in {"]", "}"}, NEW P \in Seq(Words)
  PROVE  Len(Enclosed(open, P, close)) = 2 + Len(Listed(P)) /\ Len(Listed(P)) \in Nat
<1> DEFINE x == Listed(P)
           o == <<Mark(open)>>
           c == <<Mark(close)>>
<1>1. x \in Words
  BY ListedTyped
<1>2. Mark(open) \in Symbols /\ Mark(close) \in Symbols
  BY MarksAreSymbols
<1>3. o \in Words /\ Len(o) = 1 /\ c \in Words /\ Len(c) = 1
  BY <1>2, OneSymbol
<1>4. Enclosed(open, P, close) = o \o x \o c
  BY DEF Enclosed
<1>5. Len(x) \in Nat
  BY <1>1, SequenceIsFunction DEF Words
<1> HIDE DEF x, o, c
<1>6. o \o x \in Words /\ Len(o \o x) = Len(o) + Len(x)
  BY <1>1, <1>3, WordsIndexed
<1>7. Len((o \o x) \o c) = Len(o \o x) + Len(c)
  BY <1>3, <1>6, WordsIndexed
<1>8. Len((o \o x) \o c) = (1 + Len(x)) + 1
  BY ONLY <1>3, <1>6, <1>7, Zenon
<1>9. Len(Enclosed(open, P, close)) = (1 + Len(x)) + 1
  BY ONLY <1>4, <1>8, Zenon
<1>10. (1 + Len(x)) + 1 = 2 + Len(x)
  BY ONLY <1>5, TwoMore, Zenon
<1>11. Len(Enclosed(open, P, close)) = 2 + Len(x)
  BY ONLY <1>9, <1>10, Zenon
<1> QED
  BY <1>5, <1>11 DEF x

(* What walking a value takes, however much was taken before.              *)
WalkTakes(W, E, v, depth) ==
  \E c \in Cost : /\ c.nodes >= 1 /\ c.bytes = Len(Emission(E, v))
                  /\ \A b \in Budget : Walking(W, v, b, depth) = Settling(b, c)

(* To walk a leaf settles a cost, with the bytes of what is emitted.       *)
LEMMA LeavesTake ==
  ASSUME NEW W, NEW E, NEW v, NEW depth \in Nat, IsText(v) \/ v.is \in {"null", "number"}, v.is = "null" => v = Null
  PROVE  WalkTakes(W, E, v, depth)
<1>1. ASSUME IsText(v) PROVE WalkTakes(W, E, v, depth)
  <2> DEFINE k == BytesOfText(v)
  <2>1. v.is = "string"
    BY <1>1 DEF IsText
  <2>2. Text(v) \in Seq(Letters)
    BY <1>1, TextTyped
  <2>3. k \in Nat
    BY <2>2 DEF BytesOfText
  <2>4. Len(Emission(E, v)) = k
    BY <2>1, <2>2, QuotedAt, EmissionIs DEF BytesOfText
  <2> DEFINE c == LeafCost(k, depth, StringScratch)
  <2>5. c.nodes = 1 /\ c.bytes = k
    BY DEF LeafCost
  <2>6. ASSUME NEW b \in Budget
        PROVE  /\ c \in Cost
               /\ Walking(W, v, b, depth) = Settling(b, c)
    <3> HIDE DEF k
    <3>1. Walking(W, v, b, depth) = Release(WriteString(EnteredAt(b, depth), k), NodeScratch)
      BY <2>1, WalkingIs DEF k
    <3> QED
      BY <2>3, <3>1, LeavesSettle
  <2>7. c \in Cost
    BY <2>6, NothingUsed
  <2> HIDE DEF c, k
  <2> QED
    BY <2>4, <2>5, <2>6, <2>7 DEF WalkTakes
<1>2. ASSUME v.is \in {"null", "number"} PROVE WalkTakes(W, E, v, depth)
  <2> DEFINE c == LeafCost(1, depth, 0)
  <2>1. Len(Emission(E, v)) = 1
    <3>1. Emission(E, v) = <<Mark("null")>> \/ Emission(E, v) = <<<<"number", v.n>>>>
      <4>1. CASE v.is = "null"
        BY <4>1, EmissionIs
      <4>2. CASE v.is = "number"
        BY <4>2, EmissionIs
      <4> QED
        BY <1>2, <4>1, <4>2
    <3>2. Len(<<Mark("null")>>) = 1 /\ Len(<<<<"number", v.n>>>>) = 1
      OBVIOUS
    <3> QED
      BY ONLY <3>1, <3>2, Zenon
  <2>2. c.nodes = 1 /\ c.bytes = 1
    BY DEF LeafCost
  <2>3. ASSUME NEW b \in Budget
        PROVE  /\ c \in Cost
               /\ Walking(W, v, b, depth) = Settling(b, c)
    <3>1. Walking(W, v, b, depth) = Release(AddBytes(EnteredAt(b, depth), 1), NodeScratch)
      BY <1>2, WalkingIs
    <3>2. 1 \in Nat
      OBVIOUS
    <3> DEFINE k == 1
    <3>3. k \in Nat
      BY <3>2
    <3> HIDE DEF k
    <3>4. LeafCost(k, depth, 0) \in Cost
          /\ Release(AddBytes(EnteredAt(b, depth), k), NodeScratch) = Settling(b, LeafCost(k, depth, 0))
      BY <3>3, LeavesSettle
    <3> QED
      BY <3>1, <3>4 DEF k
  <2>4. c \in Cost
    BY <2>3, NothingUsed
  <2> HIDE DEF c
  <2> QED
    BY <2>1, <2>2, <2>3, <2>4 DEF WalkTakes
<1> QED
  BY <1>1, <1>2

(* To walk an array settles a cost, if to walk its items does; that it may *)
(* be refused ahead is covered, since its items are nodes.                 *)
LEMMA ArraysTake ==
  ASSUME NEW B, NEW W, NEW E, Readable(E, B), Costed(W, E, B), NEW v, IsArray(v, B), NEW depth \in Nat
  PROVE  WalkTakes(W, E, v, depth)
<1> DEFINE n == Len(v.items)
           P == ItemPieces(E, v)
           step == ItemSteps(W, v)
<1>1. v.is = "array" /\ n \in Nat
  BY SequenceIsFunction DEF IsArray
<1>2. ItemPiecesRight(E, B, v)
  BY ItemPiecesTyped
<1>3. P \in Seq(Words)
  BY <1>2, ItemWordsAreRead, WiderElements DEF ItemPiecesRight
<1>4. PICK c \in Cost : ItemsTake(W, E, v, c)
  BY ItemsCost
<1>5. /\ c.nodes >= n /\ c.bytes = Len(Listed(P))
      /\ \A b \in Budget : Through(step, b, UpTo(n)) = Settling(b, c)
  BY ONLY <1>4 DEF ItemsTake
<1>6. Len(Emission(E, v)) = 2 + c.bytes
  <2>1. Emission(E, v) = Enclosed("[", P, "]")
    BY <1>1, EmissionIs
  <2>2. Len(Enclosed("[", P, "]")) = 2 + Len(Listed(P))
    <3> HIDE DEF P
    <3> QED
      BY <1>3, EnclosedLength
  <2> HIDE DEF P
  <2> QED
    BY ONLY <1>5, <2>1, <2>2, Zenon
<1> DEFINE a == ArrayCost(c, depth)
<1>7. a.bytes = 2 + c.bytes /\ a.nodes = 1 + c.nodes
  BY DEF ArrayCost
<1>8. ASSUME NEW b \in Budget
      PROVE  a \in Cost /\ Walking(W, v, b, depth) = Settling(b, a)
  <2> DEFINE o == Foresee(AddBytes(EnteredAt(b, depth), 2), n)
  <2>1. Walking(W, v, b, depth) = Release(Through(step, o, UpTo(n)), NodeScratch)
    BY <1>1, WalkingIs
  <2> HIDE DEF n, step
  <2>2. a \in Cost /\ o \in Budget /\ Release(Settling(o, c), NodeScratch) = Settling(b, a)
    BY <1>1, <1>5, ArraysSettle
  <2> QED
    BY <1>5, <2>1, <2>2
<1>9. a \in Cost
  BY <1>8, NothingUsed
<1>10. a.nodes >= 1
  <2>1. c.nodes \in Nat
    BY DEF Cost
  <2> QED
    BY <1>7, <2>1
<1> HIDE DEF a
<1> QED
  BY <1>6, <1>7, <1>8, <1>9, <1>10 DEF WalkTakes

(* To walk an object settles a cost, if to walk its values does, in        *)
(* whatever order they were written.                                       *)
LEMMA ObjectsTake ==
  ASSUME NEW B, NEW W, NEW E, Readable(E, B), Costed(W, E, B), NEW v, IsObject(v, B), NEW depth \in Nat
  PROVE  WalkTakes(W, E, v, depth)
<1> DEFINE n == Len(v.fields)
           P == FieldPieces(E, v)
           step == FieldSteps(W, v)
<1>1. v.is = "object" /\ n \in Nat
  BY FieldsAreValues DEF IsObject
<1>2. FieldLengths(E, v)
  BY FieldPieceLengths
<1>3. P \in Seq(Words)
  BY ONLY <1>2 DEF FieldLengths
<1>4. PICK c \in Cost : FieldsTake(W, E, v, c)
  BY FieldsCost
<1>5. /\ c.nodes >= n /\ NameBytes(n) + c.bytes = Len(Listed(P))
      /\ \A b \in Budget : Through(step, b, UpTo(n)) = Settling(b, c)
  BY ONLY <1>4 DEF FieldsTake
<1>6. Len(Emission(E, v)) = 2 + (NameBytes(n) + c.bytes)
  <2>1. Emission(E, v) = Enclosed("{", P, "}")
    BY <1>1, EmissionIs
  <2>2. Len(Enclosed("{", P, "}")) = 2 + Len(Listed(P))
    <3> HIDE DEF P
    <3> QED
      BY <1>3, EnclosedLength
  <2> HIDE DEF P, n
  <2> QED
    BY ONLY <1>5, <2>1, <2>2, Zenon
<1> DEFINE a == ObjectCost(c, depth, n)
<1>7. a.bytes = 2 + (NameBytes(n) + c.bytes) /\ a.nodes = 1 + c.nodes
  BY DEF ObjectCost
<1>8. ASSUME NEW b \in Budget
      PROVE  a \in Cost /\ Walking(W, v, b, depth) = Settling(b, a)
  <2> DEFINE o == AddBytes(EnteredAt(b, depth), 2)
  <2>1. Walking(W, v, b, depth) =
          Release(Release(Through(step, WalkNames(n, o), UpTo(n)), n * FieldScratch), NodeScratch)
    BY <1>1, WalkingIs
  <2> HIDE DEF n, step
  <2>2. /\ a \in Cost /\ o \in Budget
        /\ Release(Release(Settling(NamedUp(o, n), c), n * FieldScratch), NodeScratch) = Settling(b, a)
    BY <1>1, <1>5, ObjectsSettle
  <2> HIDE DEF o, a
  <2>3. WalkNames(n, o) = NamedUp(o, n) /\ NamedUp(o, n) \in Budget
    BY <1>1, <2>2, NamesSpend, NamedUpIs
  <2> QED
    BY <1>5, <2>1, <2>2, <2>3
<1>9. a \in Cost
  BY <1>8, NothingUsed
<1>10. a.nodes >= 1
  <2>1. c.nodes \in Nat
    BY DEF Cost
  <2> QED
    BY <1>7, <2>1
<1> HIDE DEF a
<1> QED
  BY <1>6, <1>7, <1>8, <1>9, <1>10 DEF WalkTakes

(* Every value takes one node or more, and the bytes of its emission.      *)
LEMMA ValuesTake ==
  ASSUME NEW B, NEW W, NEW E, Readable(E, B), Costed(W, E, B), NEW v \in Level(B), NEW depth \in Nat
  PROVE  WalkTakes(W, E, v, depth)
<1>1. KindRight(B, v)
  BY KindsAreRight
<1>2. \/ IsText(v) \/ v.is \in {"null", "number"}
      \/ IsArray(v, B) \/ IsObject(v, B)
  BY ONLY <1>1 DEF KindRight
<1>3. v.is = "null" => v = Null
  BY ONLY <1>1 DEF KindRight
<1>4. ASSUME IsText(v) \/ v.is \in {"null", "number"} PROVE WalkTakes(W, E, v, depth)
  BY <1>3, <1>4, LeavesTake
<1> QED
  BY <1>2, <1>4, ArraysTake, ObjectsTake

-----------------------------------------------------------------------------
(* Values that are emitted alike take the same.                            *)

WalkedAlike(W, v, w, depth) == \A b \in Budget : Walking(W, v, b, depth) = Walking(W, w, b, depth)

(* Leaves emitted alike are walked alike.                                  *)
LEMMA TextsWalkAlike ==
  ASSUME NEW E, NEW v, NEW w, Alike(E, v, w), v.is \in {"string", "null", "number"}, NEW W, NEW depth
  PROVE  WalkedAlike(W, v, w, depth)
<1>1. v.is = w.is /\ (v.is = "string" => Text(v) = Text(w))
  BY DEF Alike
<1>2. v.is = "string" => BytesOfText(v) = BytesOfText(w)
  BY <1>1 DEF BytesOfText
<1>3. ASSUME NEW b \in Budget PROVE Walking(W, v, b, depth) = Walking(W, w, b, depth)
  <2>1. CASE v.is = "string"
    <3> DEFINE k == BytesOfText(v)
               l == BytesOfText(w)
    <3>1. w.is = "string" /\ k = l
      BY <1>1, <1>2, <2>1
    <3> HIDE DEF k, l
    <3>2. Walking(W, v, b, depth) = Release(WriteString(EnteredAt(b, depth), k), NodeScratch)
      BY <2>1, WalkingIs DEF k
    <3>3. Walking(W, w, b, depth) = Release(WriteString(EnteredAt(b, depth), l), NodeScratch)
      BY <3>1, WalkingIs DEF l
    <3> QED
      BY ONLY <3>1, <3>2, <3>3
  <2>2. CASE v.is \in {"null", "number"}
    BY <1>1, <2>2, WalkingIs
  <2> QED
    BY <2>1, <2>2
<1> QED
  BY <1>3 DEF WalkedAlike

(* Arrays emitted alike are walked alike.                                  *)
LEMMA ArraysWalkAlike ==
  ASSUME NEW B, NEW W, NEW E, Uniform(W, E, B), NEW v, IsArray(v, B), NEW w, IsArray(w, B), AlikeArrays(E, v, w),
         NEW depth
  PROVE  WalkedAlike(W, v, w, depth)
<1> DEFINE x == v.items
           y == w.items
           n == Len(x)
<1>1. v.is = "array" /\ w.is = "array" /\ x \in Seq(B) /\ y \in Seq(B)
  BY DEF IsArray
<1>2. Len(y) = n /\ \A i \in 1 .. n : E[x[i]] = E[y[i]]
  BY DEF AlikeArrays
<1>3. DOMAIN x = 1 .. n /\ DOMAIN y = 1 .. n /\ \A i \in 1 .. n : x[i] \in B /\ y[i] \in B
  BY <1>1, <1>2, SequenceIsFunction
<1>4. \A i \in 1 .. n : W[x[i]] = W[y[i]]
  BY <1>2, <1>3 DEF Uniform
<1>5. ItemSteps(W, v) = ItemSteps(W, w)
  BY <1>3, <1>4 DEF ItemSteps
<1>6. ASSUME NEW b \in Budget PROVE Walking(W, v, b, depth) = Walking(W, w, b, depth)
  BY <1>1, <1>2, <1>5, WalkingIs
<1> QED
  BY <1>6 DEF WalkedAlike

LEMMA Opened ==
  ASSUME NEW b \in Budget, NEW depth \in Nat
  PROVE  AddBytes(EnteredAt(b, depth), 2) \in Budget
<1>1. Free \in Cost /\ Free.nodes = 0
  BY SettlingNothing DEF Free
<1> DEFINE none == 0
<1>2. none \in Nat /\ Free.nodes >= none
  BY <1>1
<1> HIDE DEF none
<1> QED
  BY <1>1, <1>2, ObjectsSettle

(* Objects emitted alike are walked alike: their fields may be in          *)
(* different orders, but the steps commute.                                *)
LEMMA ObjectsWalkAlike ==
  ASSUME NEW B, NEW W, NEW E, Costed(W, E, B), Uniform(W, E, B),
         NEW v, IsObject(v, B), NEW w, IsObject(w, B), AlikeObjects(E, v, w), NEW depth \in Nat
  PROVE  WalkedAlike(W, v, w, depth)
<1> DEFINE n == Len(v.fields)
           K == KeysOf(v)
           keys == KeysInOrder(v)
<1>1. v.is = "object" /\ w.is = "object"
  BY DEF IsObject
<1>2. KeysOf(w) = K /\ \A key \in K : E[ValueOf(v, key)] = E[ValueOf(w, key)]
  BY DEF AlikeObjects
<1>3. KeysInOrder(w) = keys
  BY <1>2 DEF KeysInOrder
<1>4. EachKey(v, keys) /\ EachKey(w, keys)
  <2>1. EachKey(v, KeysInOrder(v)) /\ EachKey(w, KeysInOrder(w))
    BY KeysSorted
  <2> QED
    BY <1>3, <2>1
<1>5. Len(w.fields) = n
  BY ONLY <1>4 DEF EachKey
<1>6. n \in Nat
  BY FieldsAreValues
<1>7. \A key \in K : W[ValueOf(v, key)] = W[ValueOf(w, key)]
  <2>1. \A key \in K : ValueOf(v, key) \in B /\ ValueOf(w, key) \in B
    BY <1>2, ValuesByKey
  <2> QED
    BY <1>2, <2>1 DEF Uniform
<1>8. ByKey(W, v) = ByKey(W, w)
  BY <1>2, <1>7 DEF ByKey
<1>9. ASSUME NEW b \in Budget PROVE Walking(W, v, b, depth) = Walking(W, w, b, depth)
  <2> DEFINE o == AddBytes(EnteredAt(b, depth), 2)
             u == WalkNames(n, o)
  <2>1. o \in Budget
    BY Opened
  <2> HIDE DEF o
  <2>2. u \in Budget
    BY <1>6, <2>1, NamesSpend, NamedUpIs
  <2> HIDE DEF u
  <2>3. Through(FieldSteps(W, v), u, UpTo(Len(v.fields))) = Through(ByKey(W, v), u, keys)
    BY <1>4, <2>2, FieldsInAnyOrder
  <2>4. Through(FieldSteps(W, w), u, UpTo(Len(w.fields))) = Through(ByKey(W, w), u, keys)
    BY <1>4, <2>2, FieldsInAnyOrder
  <2>5. Walking(W, v, b, depth) =
          Release(Release(Through(FieldSteps(W, v), u, UpTo(Len(v.fields))), n * FieldScratch), NodeScratch)
    BY <1>1, WalkingIs DEF o, u
  <2>6. Walking(W, w, b, depth) =
          Release(Release(Through(FieldSteps(W, w), u, UpTo(Len(w.fields))), n * FieldScratch), NodeScratch)
    BY <1>1, <1>5, WalkingIs DEF o, u
  <2> QED
    BY ONLY <1>8, <2>3, <2>4, <2>5, <2>6
<1> QED
  BY <1>9 DEF WalkedAlike

(* So values emitted alike are walked alike.                               *)
LEMMA ValuesWalkAlike ==
  ASSUME NEW B, NEW W, NEW E, Costed(W, E, B), Uniform(W, E, B), NEW v \in Level(B), NEW w \in Level(B),
         Alike(E, v, w), NEW depth \in Nat
  PROVE  WalkedAlike(W, v, w, depth)
<1>1. KindRight(B, v) /\ KindRight(B, w)
  BY KindsAreRight
<1>2. /\ v.is = w.is
      /\ v.is = "array" => AlikeArrays(E, v, w)
      /\ v.is = "object" => AlikeObjects(E, v, w)
  BY DEF Alike
<1>3. \/ v.is \in {"string", "null", "number"}
      \/ IsArray(v, B) /\ IsArray(w, B) /\ AlikeArrays(E, v, w)
      \/ IsObject(v, B) /\ IsObject(w, B) /\ AlikeObjects(E, v, w)
  BY ONLY <1>1, <1>2 DEF KindRight
<1> QED
  BY <1>3, TextsWalkAlike, ArraysWalkAlike, ObjectsWalkAlike

(* At every depth a value takes what its emission tells, and as many bytes *)
(* as that is long.                                                        *)
LEMMA WalksAreCosted ==
  \A d \in 0 .. Deepest : /\ Costed(Walk[d], EmitCanonical[d], Nested[d])
                          /\ Uniform(Walk[d], EmitCanonical[d], Nested[d])
<1> DEFINE Right(d) == /\ Costed(Walk[d], EmitCanonical[d], Nested[d])
                       /\ Uniform(Walk[d], EmitCanonical[d], Nested[d])
           T == {d \in Nat : d <= Deepest => Right(d)}
<1>1. 0 \in T
  BY NestedUnfolds DEF Costed, Uniform
<1>2. ASSUME NEW n \in Nat, n \in T PROVE n + 1 \in T
  <2> SUFFICES ASSUME n + 1 <= Deepest PROVE Right(n + 1)
    OBVIOUS
  <2> DEFINE B == Nested[n]
             E == EmitCanonical[n]
             W == Walk[n]
             F == EmitCanonical[n + 1]
             V == Walk[n + 1]
             L == Nested[n + 1]
             depth == Deepest + 1 - (n + 1)
  <2>1. n <= Deepest /\ n \in 0 .. Deepest /\ n + 1 \in 0 .. Deepest /\ n + 1 \in 1 .. Deepest /\ (n + 1) - 1 = n
        /\ depth \in Nat
    BY CanonicalAssumption
  <2>2. Costed(W, E, B) /\ Uniform(W, E, B)
    BY <1>2, <2>1
  <2>3. Readable(E, B) /\ Readable(F, L)
    BY <2>1, EmittedAsMeant
  <2>4. L = Level(B)
    BY <2>1, NestedUnfolds
  <2>5. F = [value \in L |-> Emission(E, value)]
    BY <2>1, EmitUnfolds
  <2>6. V = [value \in L |-> [budget \in Budget |-> Walking(W, value, budget, depth)]]
    BY <2>1, WalkUnfolds
  <2> HIDE DEF B, E, W, F, V, L, depth
  <2>7. \A v \in L : F[v] = Emission(E, v)
    BY <2>5
  <2>8. \A v \in L : V[v] = [budget \in Budget |-> Walking(W, v, budget, depth)]
    BY <2>6
  <2>9. Costed(V, F, L)
    <3> SUFFICES ASSUME NEW v \in L
                 PROVE  /\ V[v] \in [Budget -> Budget]
                        /\ F[v] \in Words
                        /\ \E c \in Cost : Settles(V[v], c) /\ c.nodes >= 1 /\ c.bytes = Len(F[v])
      BY DEF Costed
    <3>1. WalkTakes(W, E, v, depth)
      BY <2>1, <2>2, <2>3, <2>4, ValuesTake
    <3>2. PICK c \in Cost : /\ c.nodes >= 1 /\ c.bytes = Len(Emission(E, v))
                            /\ \A b \in Budget : Walking(W, v, b, depth) = Settling(b, c)
      BY ONLY <3>1 DEF WalkTakes
    <3>3. \A b \in Budget : Walking(W, v, b, depth) \in Budget
      BY <3>2, SettlingIs
    <3>4. V[v] \in [Budget -> Budget] /\ \A b \in Budget : V[v][b] = Settling(b, c)
      BY <2>8, <3>2, <3>3
    <3>5. F[v] \in Words
      BY <2>3 DEF Readable
    <3>6. Settles(V[v], c)
      BY <3>4 DEF Settles
    <3> QED
      BY <2>7, <3>2, <3>4, <3>5, <3>6
  <2>10. Uniform(V, F, L)
    <3> SUFFICES ASSUME NEW v \in L, NEW w \in L, F[v] = F[w] PROVE V[v] = V[w]
      BY DEF Uniform
    <3>1. Emission(E, v) = Emission(E, w)
      BY <2>7
    <3>2. Alike(E, v, w)
      BY <2>3, <2>4, <3>1, EmissionIsRead
    <3>3. WalkedAlike(W, v, w, depth)
      BY <2>1, <2>2, <2>4, <3>2, ValuesWalkAlike
    <3>4. \A b \in Budget : Walking(W, v, b, depth) = Walking(W, w, b, depth)
      BY ONLY <3>3 DEF WalkedAlike
    <3> QED
      BY <2>8, <3>4
  <2> QED
    BY <2>9, <2>10 DEF V, F, L
<1>3. Nat \subseteq T
  <2> HIDE DEF T
  <2> QED
    BY <1>1, <1>2, EveryNumber
<1> QED
  BY <1>3, CanonicalAssumption

(* Messages that are emitted alike are measured alike.                     *)
LEMMA MeasuredAsHashed ==
  ASSUME NEW m, IsMessage(m), NEW n, IsMessage(n), Emitted(m) = Emitted(n)
  PROVE  Measured(m) = Measured(n) /\ Measured(m).bytes = Len(Emitted(m))
<1> DEFINE B == Nested[Deepest]
           E == EmitCanonical[Deepest]
           W == Walk[Deepest]
           x == Projected(m)
           y == Projected(n)
<1>1. Hashed(m) /\ Hashed(n)
  BY MessagesAreHashed
<1>2. x \in B /\ y \in B
  BY ONLY <1>1 DEF Hashed
<1>3. Costed(W, E, B) /\ Uniform(W, E, B)
  <2>1. Deepest \in 0 .. Deepest
    BY CanonicalAssumption
  <2> QED
    BY <2>1, WalksAreCosted
<1>4. E[x] = E[y] /\ Emitted(m) = E[x] /\ Measured(m) = W[x][Unused] /\ Measured(n) = W[y][Unused]
  BY DEF Emitted, Measured
<1> HIDE DEF B, E, W, x, y
<1>5. W[x] = W[y]
  BY <1>2, <1>3, <1>4 DEF Uniform
<1>6. PICK c \in Cost : Settles(W[x], c) /\ c.bytes = Len(E[x])
  BY <1>2, <1>3 DEF Costed
<1>7. Unused \in Budget /\ Unused.bytes = 0
  BY NothingUsed
<1>8. W[x][Unused] = Settling(Unused, c)
  BY <1>6, <1>7 DEF Settles
<1>9. Settling(Unused, c).bytes = Unused.bytes + c.bytes /\ c.bytes \in Nat
  BY <1>7, SettlingIs DEF Cost
<1>10. W[x][Unused].bytes = c.bytes
  BY <1>7, <1>8, <1>9
<1> QED
  BY <1>4, <1>5, <1>6, <1>10

(* Whatever the limits and whatever is reserved, what is counted as bytes  *)
(* is what is hashed, and a message is refused however it is written.      *)
THEOREM TheLimitsMeetTheIdentity == Messages => []LimitsMeetTheIdentity
<1>1. WrittenOK => LimitsMeetTheIdentity
  <2> SUFFICES ASSUME WrittenOK, Emitted(left) = Emitted(right)
               PROVE  /\ Measured(left).bytes = Len(Emitted(left))
                      /\ \A limits \in Limits : Refused(Measured(left), limits) = Refused(Measured(right), limits)
    BY DEF LimitsMeetTheIdentity
  <2>1. IsMessage(left) /\ IsMessage(right)
    BY WrittenMessages
  <2>2. Measured(left) = Measured(right) /\ Measured(left).bytes = Len(Emitted(left))
    BY <2>1, MeasuredAsHashed
  <2> QED
    BY <2>2
<1> QED
  BY <1>1, MessagesAreValues, PTL

=============================================================================
