------------------------- MODULE BenchResultsProofs -------------------------
(***************************************************************************)
(* Proofs about the results of llmbench: BenchCell, for every server,      *)
(* every stream of lines and every number of requests, and BenchSite, for  *)
(* any number of runs, cells and configurations.                           *)
(***************************************************************************)
EXTENDS BenchCell, BenchSite, ListsProofs

-----------------------------------------------------------------------------
\* The stream of a request and the wire

\* The lines of a wire w that count, as Chunks, Deltas and Usages of the state.
ChunksOf(w) == {i \in DOMAIN w : w[i].line.kind = "chunk"}
DeltasOf(w) == {i \in ChunksOf(w) : w[i].line.delta}
UsagesOf(w) == {i \in ChunksOf(w) : w[i].line.usage # {}}
TimesOf(w, places) == {w[i].at : i \in places}
CountedOf(w) == {d \in DeltasOf(w) : \A u \in UsagesOf(w) : d >= u}
ToldOf(w) == UNION {{u.completion : u \in w[i].line.usage} : i \in Latest(UsagesOf(w))}

Received == [line : Lines, at : Nat]

Finishes == {"none"} \cup {line.finish : line \in Lines}

Streams ==
    [ttfb : SUBSET Nat, first : SUBSET Nat, prev : SUBSET Nat, itls : Seq(Nat),
     completion : Nat, prompt : Nat, finish : Finishes, done : BOOLEAN, usage : BOOLEAN]

\* One time, if there is any.
Single(S) == \A x, y \in S : x = y

\* What s says of the first bytes of w.
BytesAgree(s, w) ==
    /\ s.ttfb = Earliest(TimesOf(w, ChunksOf(w))) /\ Single(s.ttfb)
    /\ ChunksOf(w) # {} => s.ttfb # {}

\* What s says of the deltas of w: the first of them, the last if there is a
\* second, and a gap before each from the third on.
DeltasAgree(s, w) ==
    LET deltas == Cardinality(DeltasOf(w))
        times == TimesOf(w, DeltasOf(w))
    IN /\ s.first = Earliest(times) /\ Single(s.first)
       /\ DeltasOf(w) # {} => s.first # {}
       /\ s.prev = (IF deltas < 2 THEN {} ELSE Latest(times)) /\ Single(s.prev)
       /\ deltas >= 2 => s.prev # {}
       /\ Len(s.itls) = IF deltas < 2 THEN 0 ELSE deltas - 2
       /\ \A f \in s.first, p \in s.prev : SumOf(s.itls) <= p - f

\* What s says of the tokens of w.
TokensAgree(s, w) ==
    /\ s.completion - Cardinality(CountedOf(w)) \in (IF ToldOf(w) = {} THEN {0} ELSE ToldOf(w))
    /\ s.done <=> \E i \in DOMAIN w : w[i].line.kind = "done"
    /\ s.usage <=> UsagesOf(w) # {}

\* The state of one_request agrees with the wire at time t.
Agrees(s, t, w) ==
    /\ s \in Streams /\ t \in Nat /\ w \in Seq(Received)
    /\ \A i \in DOMAIN w : w[i].at <= t
    /\ BytesAgree(s, w) /\ DeltasAgree(s, w) /\ TokensAgree(s, w)

\* What a line without an object leaves alone.
LEMMA PlainFields ==
    ASSUME NEW s \in Streams, NEW line \in Lines, line.kind # "chunk", NEW u \in Nat
    PROVE  OnLine(s, line, u) = IF line.kind = "done" THEN [s EXCEPT !.done = TRUE] ELSE s
  BY DEF OnLine

\* What a chunk makes of each field.
LEMMA ChunkFields ==
    ASSUME NEW s \in Streams, NEW line \in Lines, line.kind = "chunk", NEW u \in Nat
    PROVE  OnLine(s, line, u) =
             [ttfb |-> IF s.ttfb = {} THEN {u} ELSE s.ttfb,
              first |-> IF line.delta /\ s.first = {} THEN {u} ELSE s.first,
              prev |-> IF line.delta /\ s.first # {} THEN {u} ELSE s.prev,
              itls |-> IF line.delta /\ s.first # {}
                       THEN s.itls \o (IF s.prev = {} THEN <<>> ELSE <<u - CHOOSE t \in s.prev : TRUE>>)
                       ELSE s.itls,
              completion |-> (IF line.usage = {} THEN s.completion
                              ELSE (CHOOSE x \in line.usage : TRUE).completion)
                               + (IF line.delta THEN 1 ELSE 0),
              prompt |-> IF line.usage = {} THEN s.prompt
                         ELSE (CHOOSE x \in line.usage : TRUE).prompt,
              finish |-> IF line.finish = "none" THEN s.finish ELSE line.finish,
              done |-> s.done,
              usage |-> IF line.usage = {} THEN s.usage ELSE TRUE]
<1> DEFINE told == CHOOSE x \in line.usage : TRUE
           s1 == FirstByte(s, u)
           s2 == OnUsage(s1, line.usage)
           s3 == OnDelta(s2, line.delta, u)
           s4 == OnFinish(s3, line.finish)
<1>1. OnLine(s, line, u) = s4
  BY DEF OnLine
<1>2. s1 = [s EXCEPT !.ttfb = IF s.ttfb = {} THEN {u} ELSE s.ttfb]
  BY DEF FirstByte, Streams
<1>3. s1 = [ttfb |-> IF s.ttfb = {} THEN {u} ELSE s.ttfb, first |-> s.first, prev |-> s.prev,
            itls |-> s.itls, completion |-> s.completion, prompt |-> s.prompt,
            finish |-> s.finish, done |-> s.done, usage |-> s.usage]
  BY <1>2 DEF Streams
<1> HIDE DEF s1
<1>4. s2 = [ttfb |-> IF s.ttfb = {} THEN {u} ELSE s.ttfb, first |-> s.first, prev |-> s.prev,
            itls |-> s.itls,
            completion |-> IF line.usage = {} THEN s.completion ELSE told.completion,
            prompt |-> IF line.usage = {} THEN s.prompt ELSE told.prompt,
            finish |-> s.finish, done |-> s.done, usage |-> IF line.usage = {} THEN s.usage ELSE TRUE]
  <2>1. CASE line.usage = {}
    BY <1>3, <2>1 DEF OnUsage
  <2>2. CASE line.usage # {}
    <3>1. s2 = [s1 EXCEPT !.usage = TRUE, !.prompt = told.prompt, !.completion = told.completion]
      BY <2>2 DEF OnUsage
    <3> HIDE DEF told
    <3> QED
      BY <1>3, <2>2, <3>1
  <2> QED
    BY <2>1, <2>2
<1> DEFINE bytes == IF s.ttfb = {} THEN {u} ELSE s.ttfb
           tokens == IF line.usage = {} THEN s.completion ELSE told.completion
           asked == IF line.usage = {} THEN s.prompt ELSE told.prompt
           used == IF line.usage = {} THEN s.usage ELSE TRUE
           gap == IF s.prev = {} THEN <<>> ELSE <<u - CHOOSE t \in s.prev : TRUE>>
<1>5. s2 = [ttfb |-> bytes, first |-> s.first, prev |-> s.prev, itls |-> s.itls,
            completion |-> tokens, prompt |-> asked, finish |-> s.finish, done |-> s.done,
            usage |-> used]
  BY <1>4
<1>6. tokens \in Nat
  BY LinesAssumption DEF Streams, Usage
<1>7. CASE ~ line.delta
  <2>1. s3 = s2
    BY <1>7 DEF OnDelta
  <2>2. tokens + 0 = tokens
    BY <1>6
  <2> HIDE DEF s2, s3, bytes, tokens, asked, used, gap
  <2>3. s3 = [ttfb |-> bytes, first |-> s.first, prev |-> s.prev, itls |-> s.itls,
              completion |-> tokens + 0, prompt |-> asked, finish |-> s.finish, done |-> s.done,
              usage |-> used]
    BY <1>5, <2>1, <2>2
  <2>4. s4 = [ttfb |-> bytes, first |-> s.first, prev |-> s.prev, itls |-> s.itls,
              completion |-> tokens + 0, prompt |-> asked,
              finish |-> IF line.finish = "none" THEN s.finish ELSE line.finish, done |-> s.done,
              usage |-> used]
    BY <2>3 DEF OnFinish
  <2> QED
    BY <1>1, <1>7, <2>4 DEF bytes, tokens, asked, used, told
<1>8. CASE line.delta /\ s.first = {}
  <2>1. s3 = [[s2 EXCEPT !.completion = @ + 1] EXCEPT !.first = {u}]
    BY <1>5, <1>8 DEF OnDelta
  <2> HIDE DEF s2, s3, bytes, tokens, asked, used, gap
  <2>2. s3 = [ttfb |-> bytes, first |-> {u}, prev |-> s.prev, itls |-> s.itls,
              completion |-> tokens + 1, prompt |-> asked, finish |-> s.finish, done |-> s.done,
              usage |-> used]
    BY <1>5, <2>1
  <2>3. s4 = [ttfb |-> bytes, first |-> {u}, prev |-> s.prev, itls |-> s.itls,
              completion |-> tokens + 1, prompt |-> asked,
              finish |-> IF line.finish = "none" THEN s.finish ELSE line.finish, done |-> s.done,
              usage |-> used]
    BY <2>2 DEF OnFinish
  <2> QED
    BY <1>1, <1>8, <2>3 DEF bytes, tokens, asked, used, told
<1>9. CASE line.delta /\ s.first # {}
  <2>1. s3 = [[s2 EXCEPT !.completion = @ + 1] EXCEPT !.prev = {u}, !.itls = @ \o gap]
    BY <1>5, <1>9 DEF OnDelta
  <2> HIDE DEF s2, s3, bytes, tokens, asked, used, gap
  <2>2. s3 = [ttfb |-> bytes, first |-> s.first, prev |-> {u}, itls |-> s.itls \o gap,
              completion |-> tokens + 1, prompt |-> asked, finish |-> s.finish, done |-> s.done,
              usage |-> used]
    BY <1>5, <2>1
  <2>3. s4 = [ttfb |-> bytes, first |-> s.first, prev |-> {u}, itls |-> s.itls \o gap,
              completion |-> tokens + 1, prompt |-> asked,
              finish |-> IF line.finish = "none" THEN s.finish ELSE line.finish, done |-> s.done,
              usage |-> used]
    BY <2>2 DEF OnFinish
  <2> QED
    BY <1>1, <1>9, <2>3 DEF bytes, tokens, asked, used, gap, told
<1> QED
  BY <1>7, <1>8, <1>9, LinesAssumption

\* Field by field, x is what a chunk makes of s.
ChunkGives(s, line, u, x) ==
    /\ x.ttfb = (IF s.ttfb = {} THEN {u} ELSE s.ttfb)
    /\ x.first = (IF line.delta /\ s.first = {} THEN {u} ELSE s.first)
    /\ x.prev = (IF line.delta /\ s.first # {} THEN {u} ELSE s.prev)
    /\ x.itls =
         (IF line.delta /\ s.first # {}
          THEN s.itls \o (IF s.prev = {} THEN <<>> ELSE <<u - CHOOSE t \in s.prev : TRUE>>)
          ELSE s.itls)
    /\ x.completion =
         (IF line.usage = {} THEN s.completion
          ELSE (CHOOSE y \in line.usage : TRUE).completion)
           + (IF line.delta THEN 1 ELSE 0)
    /\ x.prompt = (IF line.usage = {} THEN s.prompt
                   ELSE (CHOOSE y \in line.usage : TRUE).prompt)
    /\ x.finish = (IF line.finish = "none" THEN s.finish ELSE line.finish)
    /\ x.done = s.done
    /\ x.usage = (IF line.usage = {} THEN s.usage ELSE TRUE)
    /\ x = [ttfb |-> x.ttfb, first |-> x.first, prev |-> x.prev, itls |-> x.itls,
            completion |-> x.completion, prompt |-> x.prompt, finish |-> x.finish,
            done |-> x.done, usage |-> x.usage]

LEMMA ChunkField ==
    ASSUME NEW s \in Streams, NEW line \in Lines, line.kind = "chunk", NEW u \in Nat
    PROVE  ChunkGives(s, line, u, OnLine(s, line, u))
<1> DEFINE ttfb == IF s.ttfb = {} THEN {u} ELSE s.ttfb
           first == IF line.delta /\ s.first = {} THEN {u} ELSE s.first
           prev == IF line.delta /\ s.first # {} THEN {u} ELSE s.prev
           itls == IF line.delta /\ s.first # {}
                   THEN s.itls \o (IF s.prev = {} THEN <<>> ELSE <<u - CHOOSE t \in s.prev : TRUE>>)
                   ELSE s.itls
           completion == (IF line.usage = {} THEN s.completion
                          ELSE (CHOOSE y \in line.usage : TRUE).completion)
                           + (IF line.delta THEN 1 ELSE 0)
           prompt == IF line.usage = {} THEN s.prompt
                     ELSE (CHOOSE y \in line.usage : TRUE).prompt
           finish == IF line.finish = "none" THEN s.finish ELSE line.finish
           usage == IF line.usage = {} THEN s.usage ELSE TRUE
           x == OnLine(s, line, u)
<1>1. x = [ttfb |-> ttfb, first |-> first, prev |-> prev, itls |-> itls,
           completion |-> completion, prompt |-> prompt, finish |-> finish,
           done |-> s.done, usage |-> usage]
  BY ChunkFields, Zenon
<1> HIDE DEF ttfb, first, prev, itls, completion, prompt, finish, usage, x
<1>2. /\ x.ttfb = ttfb /\ x.first = first /\ x.prev = prev /\ x.itls = itls
      /\ x.completion = completion /\ x.prompt = prompt /\ x.finish = finish
      /\ x.done = s.done /\ x.usage = usage
      /\ x = [ttfb |-> x.ttfb, first |-> x.first, prev |-> x.prev, itls |-> x.itls,
              completion |-> x.completion, prompt |-> x.prompt, finish |-> x.finish,
              done |-> x.done, usage |-> x.usage]
  BY <1>1
<1> QED
  BY <1>2, Zenon DEF ChunkGives, ttfb, first, prev, itls, completion, prompt, finish, usage, x

LEMMA WireTypes ==
    ASSUME NEW w \in Seq(Received)
    PROVE  \A i \in DOMAIN w : w[i] \in Received /\ w[i].line \in Lines /\ w[i].at \in Nat
<1>1. \A i \in DOMAIN w : w[i] \in Received
  OBVIOUS
<1> QED
  BY <1>1 DEF Received

\* A wire with one line more.
LEMMA WireGrows ==
    ASSUME NEW w \in Seq(Received), NEW e \in Received
    PROVE  LET v == Append(w, e)
               n == Len(w) + 1
           IN /\ v \in Seq(Received) /\ n \in Nat /\ n \notin DOMAIN w
              /\ DOMAIN v = DOMAIN w \cup {n} /\ v[n] = e
              /\ \A i \in DOMAIN w : v[i] = w[i] /\ i \in Nat /\ i < n
              /\ ChunksOf(v) = ChunksOf(w) \cup (IF e.line.kind = "chunk" THEN {n} ELSE {})
              /\ DeltasOf(v) =
                   DeltasOf(w) \cup (IF e.line.kind = "chunk" /\ e.line.delta THEN {n} ELSE {})
              /\ UsagesOf(v) =
                   UsagesOf(w) \cup (IF e.line.kind = "chunk" /\ e.line.usage # {} THEN {n} ELSE {})
<1> DEFINE v == Append(w, e)
           n == Len(w) + 1
<1>1. /\ v \in Seq(Received) /\ n \in Nat /\ n \notin DOMAIN w
      /\ DOMAIN v = DOMAIN w \cup {n} /\ v[n] = e
      /\ \A i \in DOMAIN w : v[i] = w[i] /\ i \in Nat /\ i < n
  OBVIOUS
<1> HIDE DEF v, n
<1>2. ChunksOf(v) = ChunksOf(w) \cup (IF e.line.kind = "chunk" THEN {n} ELSE {})
  BY <1>1 DEF ChunksOf
<1>3. DeltasOf(v) =
        DeltasOf(w) \cup (IF e.line.kind = "chunk" /\ e.line.delta THEN {n} ELSE {})
  BY <1>1, <1>2 DEF ChunksOf, DeltasOf
<1>4. UsagesOf(v) =
        UsagesOf(w) \cup (IF e.line.kind = "chunk" /\ e.line.usage # {} THEN {n} ELSE {})
  BY <1>1, <1>2 DEF ChunksOf, UsagesOf
<1> QED
  BY <1>1, <1>2, <1>3, <1>4 DEF v, n

\* The times of the old lines stay, the new one has its own.
LEMMA TimesGrow ==
    ASSUME NEW w \in Seq(Received), NEW e \in Received, NEW S \in SUBSET (DOMAIN w)
    PROVE  /\ TimesOf(Append(w, e), S) = TimesOf(w, S)
           /\ TimesOf(Append(w, e), S \cup {Len(w) + 1}) = TimesOf(w, S) \cup {e.at}
           /\ TimesOf(w, S) \in SUBSET Nat
           /\ (S = {} <=> TimesOf(w, S) = {})
<1>1. ASSUME NEW i \in S PROVE Append(w, e)[i] = w[i] /\ w[i].at \in Nat
  <2>1. i \in DOMAIN w /\ w[i] \in Received
    OBVIOUS
  <2>2. Append(w, e)[i] = w[i]
    BY <2>1
  <2> QED
    BY <2>1, <2>2 DEF Received
<1>2. Append(w, e)[Len(w) + 1] = e
  OBVIOUS
<1>3. TimesOf(Append(w, e), S) = TimesOf(w, S)
  BY <1>1 DEF TimesOf
<1>4. TimesOf(Append(w, e), S \cup {Len(w) + 1}) = TimesOf(w, S) \cup {e.at}
  BY <1>1, <1>2 DEF TimesOf
<1> QED
  BY <1>1, <1>3, <1>4 DEF TimesOf

\* A time later than the others leaves the earliest alone and is the latest.
LEMMA LaterTime ==
    ASSUME NEW A \in SUBSET Nat, NEW u \in Nat, \A x \in A : x <= u
    PROVE  /\ A = {} => Earliest(A \cup {u}) = {u}
           /\ Earliest(A) # {} => Earliest(A \cup {u}) = Earliest(A)
           /\ Latest(A \cup {u}) = {u}
<1>1. A = {} => Earliest(A \cup {u}) = {u}
  BY DEF Earliest
<1>2. ASSUME Earliest(A) # {} PROVE Earliest(A \cup {u}) = Earliest(A)
  <2>1. PICK a \in Earliest(A) : TRUE
    BY <1>2
  <2>2. a \in A /\ \A y \in A : a <= y
    BY <2>1 DEF Earliest
  <2>3. ASSUME NEW x \in Earliest(A \cup {u}) PROVE x \in Earliest(A)
    <3>1. x \in A \cup {u} /\ \A y \in A \cup {u} : x <= y
      BY <2>3 DEF Earliest
    <3>2. x \in A
      BY <2>2, <3>1
    <3> QED
      BY <3>1, <3>2 DEF Earliest
  <2>4. ASSUME NEW x \in Earliest(A) PROVE x \in Earliest(A \cup {u})
    BY <2>4 DEF Earliest
  <2> QED
    BY <2>3, <2>4
<1>3. Latest(A \cup {u}) = {u}
  <2>1. u \in Latest(A \cup {u})
    BY DEF Latest
  <2>2. ASSUME NEW x \in Latest(A \cup {u}) PROVE x = u
    <3>1. x \in A \cup {u} /\ u <= x
      BY <2>2 DEF Latest
    <3>2. x <= u /\ x \in Nat
      BY <3>1
    <3> QED
      BY <3>1, <3>2
  <2> QED
    BY <2>1, <2>2
<1> QED
  BY <1>1, <1>2, <1>3

\* The places on a wire are finitely many.
LEMMA PlacesAreFinite ==
    ASSUME NEW w \in Seq(Received)
    PROVE  /\ DOMAIN w \in SUBSET Nat /\ IsFiniteSet(DOMAIN w)
           /\ ChunksOf(w) \in SUBSET (DOMAIN w)
           /\ DeltasOf(w) \in SUBSET ChunksOf(w) /\ IsFiniteSet(DeltasOf(w))
           /\ Cardinality(DeltasOf(w)) \in Nat
           /\ (Cardinality(DeltasOf(w)) = 0 <=> DeltasOf(w) = {})
           /\ UsagesOf(w) \in SUBSET ChunksOf(w)
           /\ CountedOf(w) \in SUBSET DeltasOf(w) /\ IsFiniteSet(CountedOf(w))
           /\ Cardinality(CountedOf(w)) \in Nat
<1>1. Len(w) \in Nat /\ DOMAIN w = 1 .. Len(w)
  OBVIOUS
<1>2. IsFiniteSet(DOMAIN w)
  BY <1>1, FS_Interval
<1>3. ChunksOf(w) \in SUBSET (DOMAIN w) /\ UsagesOf(w) \in SUBSET ChunksOf(w)
  BY DEF ChunksOf, UsagesOf
<1>4. DeltasOf(w) \in SUBSET ChunksOf(w) /\ CountedOf(w) \in SUBSET DeltasOf(w)
  BY DEF DeltasOf, CountedOf
<1>5. IsFiniteSet(DeltasOf(w))
  <2>1. DeltasOf(w) \in SUBSET (DOMAIN w)
    BY <1>3, <1>4
  <2> QED
    BY <1>2, <2>1, FS_Subset
<1>6. IsFiniteSet(CountedOf(w))
  BY <1>4, <1>5, FS_Subset
<1>7. /\ Cardinality(DeltasOf(w)) \in Nat /\ Cardinality(CountedOf(w)) \in Nat
      /\ (Cardinality(DeltasOf(w)) = 0 <=> DeltasOf(w) = {})
  BY <1>5, <1>6, FS_CardinalityType, FS_EmptySet
<1> QED
  BY <1>1, <1>2, <1>3, <1>4, <1>5, <1>6, <1>7

\* A place that no set had adds one to its number of elements.
LEMMA OneMore ==
    ASSUME NEW S, IsFiniteSet(S), NEW x, x \notin S
    PROVE  Cardinality(S \cup {x}) = Cardinality(S) + 1
  BY FS_AddElement

\* The bytes stay in agreement.
LEMMA BytesKeep ==
    ASSUME NEW s, NEW t, NEW w, Agrees(s, t, w), NEW line \in Lines, NEW u \in Nat, t <= u
    PROVE  BytesAgree(OnLine(s, line, u), Append(w, [line |-> line, at |-> u]))
<1> DEFINE e == [line |-> line, at |-> u]
           v == Append(w, e)
           n == Len(w) + 1
           x == OnLine(s, line, u)
           A == TimesOf(w, ChunksOf(w))
<1>1. /\ s \in Streams /\ w \in Seq(Received) /\ \A i \in DOMAIN w : w[i].at <= u
      /\ s.ttfb = Earliest(A) /\ Single(s.ttfb) /\ (ChunksOf(w) # {} => s.ttfb # {})
  <2>1. w \in Seq(Received) /\ \A i \in DOMAIN w : w[i].at <= t
    BY DEF Agrees
  <2>2. \A i \in DOMAIN w : w[i].at \in Nat
    BY <2>1, WireTypes
  <2> QED
    BY <2>1, <2>2 DEF Agrees, BytesAgree
<1>2. e \in Received
  BY DEF Received
<1>3. ChunksOf(v) = ChunksOf(w) \cup (IF line.kind = "chunk" THEN {n} ELSE {})
  BY <1>1, <1>2, WireGrows
<1>4. ChunksOf(w) \in SUBSET (DOMAIN w)
  BY <1>1, PlacesAreFinite
<1>5. /\ TimesOf(v, ChunksOf(w)) = A /\ TimesOf(v, ChunksOf(w) \cup {n}) = A \cup {u}
      /\ A \in SUBSET Nat /\ (ChunksOf(w) = {} <=> A = {})
  <2>1. e.at = u
    OBVIOUS
  <2>2. PICK S \in SUBSET (DOMAIN w) : S = ChunksOf(w)
    BY <1>4
  <2> HIDE DEF e
  <2>3. /\ TimesOf(Append(w, e), S) = TimesOf(w, S)
        /\ TimesOf(Append(w, e), S \cup {Len(w) + 1}) = TimesOf(w, S) \cup {e.at}
        /\ TimesOf(w, S) \in SUBSET Nat
        /\ (S = {} <=> TimesOf(w, S) = {})
    BY <1>1, <1>2, TimesGrow
  <2> QED
    BY <2>1, <2>2, <2>3
<1>6. \A y \in A : y <= u
  BY <1>1, <1>4 DEF TimesOf
<1>7. CASE line.kind # "chunk"
  <2>1. x.ttfb = s.ttfb
    BY <1>1, <1>7, PlainFields DEF Streams
  <2>2. ChunksOf(v) = ChunksOf(w)
    BY <1>3, <1>7
  <2> HIDE DEF x, v, A
  <2>3. BytesAgree(x, v)
    BY <1>1, <1>5, <2>1, <2>2 DEF BytesAgree
  <2> QED
    BY <2>3 DEF x, v
<1>8. CASE line.kind = "chunk"
  <2>1. x.ttfb = IF s.ttfb = {} THEN {u} ELSE s.ttfb
    <3>1. ChunkGives(s, line, u, x)
      BY <1>1, <1>8, ChunkField
    <3> QED
      BY <3>1, Zenon DEF ChunkGives
  <2>2. ChunksOf(v) = ChunksOf(w) \cup {n}
    BY <1>3, <1>8
  <2> HIDE DEF x, v, A, n
  <2>3. x.ttfb = Earliest(A \cup {u})
    BY <1>1, <1>5, <1>6, <2>1, LaterTime
  <2>4. Single(x.ttfb) /\ x.ttfb # {}
    BY <1>1, <2>1 DEF Single
  <2>5. BytesAgree(x, v)
    BY <1>5, <2>2, <2>3, <2>4 DEF BytesAgree
  <2> QED
    BY <2>5 DEF x, v
<1> QED
  BY <1>7, <1>8

\* What a line does to the places and times of the deltas.
LEMMA DeltaTimes ==
    ASSUME NEW w \in Seq(Received), NEW line \in Lines, NEW u \in Nat,
           \A i \in DOMAIN w : w[i].at <= u
    PROVE  LET v == Append(w, [line |-> line, at |-> u])
               A == TimesOf(w, DeltasOf(w))
               d == Cardinality(DeltasOf(w))
               counts == line.kind = "chunk" /\ line.delta
           IN /\ A \in SUBSET Nat /\ (\A y \in A : y <= u) /\ (DeltasOf(w) = {} <=> A = {})
              /\ d \in Nat /\ (d = 0 <=> DeltasOf(w) = {})
              /\ counts => /\ TimesOf(v, DeltasOf(v)) = A \cup {u}
                           /\ Cardinality(DeltasOf(v)) = d + 1 /\ DeltasOf(v) # {}
              /\ ~ counts => /\ TimesOf(v, DeltasOf(v)) = A /\ DeltasOf(v) = DeltasOf(w)
<1> DEFINE e == [line |-> line, at |-> u]
           v == Append(w, e)
           n == Len(w) + 1
           A == TimesOf(w, DeltasOf(w))
           d == Cardinality(DeltasOf(w))
           counts == line.kind = "chunk" /\ line.delta
<1>1. e \in Received /\ e.line = line /\ e.at = u
  BY DEF Received
<1> HIDE DEF e
<1>2. PICK D \in SUBSET (DOMAIN w) : D = DeltasOf(w)
  BY PlacesAreFinite
<1>3. /\ IsFiniteSet(D) /\ d \in Nat /\ (d = 0 <=> D = {})
  BY <1>2, PlacesAreFinite
<1>4. /\ DeltasOf(v) = D \cup (IF counts THEN {n} ELSE {}) /\ n \notin D
  BY <1>1, <1>2, WireGrows
<1>5. /\ TimesOf(v, D) = A /\ TimesOf(v, D \cup {n}) = A \cup {u}
      /\ A \in SUBSET Nat /\ (D = {} <=> A = {})
  <2>1. /\ TimesOf(Append(w, e), D) = TimesOf(w, D)
        /\ TimesOf(Append(w, e), D \cup {Len(w) + 1}) = TimesOf(w, D) \cup {e.at}
        /\ TimesOf(w, D) \in SUBSET Nat
        /\ (D = {} <=> TimesOf(w, D) = {})
    BY <1>1, TimesGrow
  <2> QED
    BY <1>1, <1>2, <2>1
<1>6. \A y \in A : y <= u
  BY <1>2 DEF TimesOf
<1> HIDE DEF v, n, A
<1>7. counts => /\ TimesOf(v, DeltasOf(v)) = A \cup {u}
                /\ Cardinality(DeltasOf(v)) = d + 1 /\ DeltasOf(v) # {}
  BY <1>2, <1>3, <1>4, <1>5, OneMore
<1>8. ~ counts => /\ TimesOf(v, DeltasOf(v)) = A /\ DeltasOf(v) = DeltasOf(w)
  <2>1. ~ counts => DeltasOf(v) = D
    BY <1>4
  <2> QED
    BY <1>2, <1>5, <2>1
<1> QED
  BY <1>2, <1>3, <1>5, <1>6, <1>7, <1>8 DEF v, A, e

\* The deltas stay in agreement.
LEMMA DeltasKeep ==
    ASSUME NEW s, NEW t, NEW w, Agrees(s, t, w), NEW line \in Lines, NEW u \in Nat, t <= u
    PROVE  /\ DeltasAgree(OnLine(s, line, u), Append(w, [line |-> line, at |-> u]))
           /\ OnLine(s, line, u) \in Streams
<1> DEFINE v == Append(w, [line |-> line, at |-> u])
           x == OnLine(s, line, u)
           A == TimesOf(w, DeltasOf(w))
           d == Cardinality(DeltasOf(w))
           counts == line.kind = "chunk" /\ line.delta
<1>1. s \in Streams /\ w \in Seq(Received) /\ \A i \in DOMAIN w : w[i].at <= u
  <2>1. w \in Seq(Received) /\ \A i \in DOMAIN w : w[i].at <= t
    BY DEF Agrees
  <2>2. \A i \in DOMAIN w : w[i].at \in Nat
    BY <2>1, WireTypes
  <2> QED
    BY <2>1, <2>2 DEF Agrees
<1>2. /\ s.first = Earliest(A) /\ Single(s.first)
      /\ DeltasOf(w) # {} => s.first # {}
      /\ s.prev = (IF d < 2 THEN {} ELSE Latest(A)) /\ Single(s.prev)
      /\ d >= 2 => s.prev # {}
      /\ Len(s.itls) = IF d < 2 THEN 0 ELSE d - 2
      /\ \A f \in s.first, p \in s.prev : SumOf(s.itls) <= p - f
  BY DEF Agrees, DeltasAgree
<1>3. /\ A \in SUBSET Nat /\ (\A y \in A : y <= u) /\ (DeltasOf(w) = {} <=> A = {})
      /\ d \in Nat /\ (d = 0 <=> DeltasOf(w) = {})
      /\ counts => /\ TimesOf(v, DeltasOf(v)) = A \cup {u}
                   /\ Cardinality(DeltasOf(v)) = d + 1 /\ DeltasOf(v) # {}
      /\ ~ counts => /\ TimesOf(v, DeltasOf(v)) = A /\ DeltasOf(v) = DeltasOf(w)
  BY <1>1, DeltaTimes
<1>4. /\ s.ttfb \in SUBSET Nat /\ s.first \in SUBSET Nat /\ s.prev \in SUBSET Nat
      /\ s.itls \in Seq(Nat) /\ s.completion \in Nat /\ s.prompt \in Nat /\ s.finish \in Finishes
      /\ s.done \in BOOLEAN /\ s.usage \in BOOLEAN
  BY <1>1 DEF Streams
<1>5. /\ line.delta \in BOOLEAN /\ line.finish \in Finishes
      /\ line.usage # {} => (CHOOSE y \in line.usage : TRUE) \in Usage
  BY LinesAssumption DEF Finishes
<1> HIDE DEF v, A, d
<1>6. CASE line.kind # "chunk"
  <2>1. x = IF line.kind = "done" THEN [s EXCEPT !.done = TRUE] ELSE s
    BY <1>1, <1>6, PlainFields
  <2>2. x \in Streams /\ x.first = s.first /\ x.prev = s.prev /\ x.itls = s.itls
    BY <1>1, <2>1 DEF Streams
  <2> HIDE DEF x
  <2>3. DeltasAgree(x, v)
    BY <1>2, <1>3, <1>6, <2>2 DEF DeltasAgree, A, d
  <2> QED
    BY <2>2, <2>3 DEF x, v
<1>7. CASE line.kind = "chunk"
  <2>1. ChunkGives(s, line, u, x)
    BY <1>1, <1>7, ChunkField
  <2> HIDE DEF x
  <2> DEFINE told == CHOOSE y \in line.usage : TRUE
             gap == u - CHOOSE y \in s.prev : TRUE
  <2>2. /\ x.ttfb = (IF s.ttfb = {} THEN {u} ELSE s.ttfb)
        /\ x.first = (IF line.delta /\ s.first = {} THEN {u} ELSE s.first)
        /\ x.prev = (IF line.delta /\ s.first # {} THEN {u} ELSE s.prev)
        /\ x.itls = (IF line.delta /\ s.first # {}
                     THEN s.itls \o (IF s.prev = {} THEN <<>> ELSE <<gap>>)
                     ELSE s.itls)
        /\ x.completion = (IF line.usage = {} THEN s.completion ELSE told.completion)
                            + (IF line.delta THEN 1 ELSE 0)
        /\ x.prompt = (IF line.usage = {} THEN s.prompt ELSE told.prompt)
        /\ x.finish = (IF line.finish = "none" THEN s.finish ELSE line.finish)
        /\ x.done = s.done
        /\ x.usage = (IF line.usage = {} THEN s.usage ELSE TRUE)
        /\ x = [ttfb |-> x.ttfb, first |-> x.first, prev |-> x.prev, itls |-> x.itls,
                completion |-> x.completion, prompt |-> x.prompt, finish |-> x.finish,
                done |-> x.done, usage |-> x.usage]
    BY <2>1, Zenon DEF ChunkGives
  <2>3. \A p \in s.prev : p <= u /\ d >= 2 /\ gap = u - p /\ gap \in Nat
    <3> SUFFICES ASSUME NEW p \in s.prev PROVE p <= u /\ d >= 2 /\ gap = u - p /\ gap \in Nat
      OBVIOUS
    <3>1. ~ (d < 2) /\ p \in Latest(A)
      BY <1>2 DEF A, d
    <3>2. p \in A
      BY <3>1 DEF Latest
    <3>3. (CHOOSE y \in s.prev : TRUE) = p
      BY <1>2 DEF Single
    <3>4. gap = u - p /\ p \in Nat /\ p <= u
      BY <1>3, <3>2, <3>3
    <3> HIDE DEF gap
    <3> QED
      BY <1>3, <3>1, <3>4
  <2>4. x.completion \in Nat /\ x.prompt \in Nat
    <3>1. line.usage # {} => told.completion \in Nat /\ told.prompt \in Nat
      BY <1>5 DEF Usage
    <3> HIDE DEF told
    <3> QED
      BY <1>4, <2>2, <3>1
  <2> HIDE DEF told, gap
  <2>5. x.itls \in Seq(Nat)
    <3>1. s.prev # {} => <<gap>> \in Seq(Nat)
      BY <2>3
    <3> QED
      BY <1>4, <2>2, <3>1
  <2>6. x \in Streams
    <3>1. /\ x.ttfb \in SUBSET Nat /\ x.first \in SUBSET Nat /\ x.prev \in SUBSET Nat
          /\ x.finish \in Finishes /\ x.done \in BOOLEAN /\ x.usage \in BOOLEAN
      BY <1>4, <1>5, <2>2
    <3> QED
      BY <2>2, <2>4, <2>5, <3>1 DEF Streams
  <2>7. CASE ~ line.delta
    <3>1. x.first = s.first /\ x.prev = s.prev /\ x.itls = s.itls
      BY <2>2, <2>7
    <3>2. DeltasAgree(x, v)
      BY <1>2, <1>3, <2>7, <3>1 DEF DeltasAgree, A, d
    <3> QED
      BY <2>6, <3>2 DEF x, v
  <2>8. CASE line.delta /\ d = 0
    <3>1. /\ s.first = {} /\ s.prev = {} /\ x.first = {u} /\ x.prev = {} /\ x.itls = s.itls
          /\ Len(s.itls) = 0 /\ A = {}
      <4>1. A = {} /\ Earliest(A) = {}
        BY <1>3, <2>8 DEF Earliest
      <4> QED
        BY <1>2, <2>2, <2>8, <4>1 DEF A, d
    <3>2. x.first = Earliest(A \cup {u}) /\ Single(x.first)
      BY <1>3, <3>1, LaterTime DEF Single
    <3>3. DeltasAgree(x, v)
      <4>1. /\ Cardinality(DeltasOf(v)) = 1 /\ TimesOf(v, DeltasOf(v)) = A \cup {u}
            /\ DeltasOf(v) # {}
        BY <1>3, <1>7, <2>8
      <4>2. Single(x.prev)
        BY <3>1 DEF Single
      <4> QED
        BY <3>1, <3>2, <4>1, <4>2 DEF DeltasAgree
    <3> QED
      BY <2>6, <3>3 DEF x, v
  <2>9. CASE line.delta /\ d >= 1
    <3>1. s.first # {} /\ x.first = s.first /\ x.prev = {u}
      BY <1>2, <1>3, <2>2, <2>9
    <3>2. x.first = Earliest(A \cup {u}) /\ x.prev = Latest(A \cup {u})
      BY <1>2, <1>3, <3>1, LaterTime DEF A
    <3>3. \A f \in x.first : f \in Nat /\ f <= u
      <4> SUFFICES ASSUME NEW f \in x.first PROVE f \in A
        BY <1>3
      <4> QED
        BY <1>2, <3>1 DEF Earliest, A
    <3>4. /\ Len(x.itls) = d + 1 - 2
          /\ \A f \in x.first : SumOf(x.itls) <= u - f
      <4>1. CASE d < 2
        <5>1. s.prev = {} /\ Len(s.itls) = 0
          BY <1>2, <4>1 DEF d
        <5>2. s.itls = <<>> /\ x.itls = <<>>
          BY <1>4, <2>2, <2>9, <3>1, <5>1
        <5>3. SumOf(x.itls) = 0
          <6>1. <<>> \in Seq(Int) /\ x.itls = <<>>
            BY <5>2
          <6> QED
            BY <6>1, SumType
        <5> QED
          BY <1>3, <2>9, <3>3, <4>1, <5>2, <5>3
      <4>2. CASE d >= 2
        <5>1. PICK p \in s.prev : p \in Nat
          BY <1>2, <1>4, <4>2 DEF d
        <5>2. x.itls = Append(s.itls, gap) /\ gap = u - p /\ gap \in Nat
          <6>1. gap = u - p /\ gap \in Nat
            BY <2>3, <5>1
          <6>2. x.itls = s.itls \o <<gap>>
            BY <2>2, <2>9, <3>1, <5>1
          <6> QED
            BY <1>4, <6>1, <6>2
        <5>3. s.itls \in Seq(Int) /\ gap \in Int
          BY <1>4, <5>2, SeqWidens
        <5>4. SumOf(x.itls) = SumOf(s.itls) + gap /\ SumOf(s.itls) \in Int
          BY <5>2, <5>3, SumOfAppend, SumType
        <5>5. Len(s.itls) = d - 2 /\ Len(x.itls) = Len(s.itls) + 1
          BY <1>2, <4>2, <5>2, <5>3, <1>3 DEF d
        <5>6. \A f \in x.first : SumOf(s.itls) <= p - f
          BY <1>2, <3>1, <5>1
        <5> QED
          BY <1>3, <3>3, <5>1, <5>2, <5>4, <5>5, <5>6
      <4> QED
        BY <1>3, <4>1, <4>2
    <3>5. DeltasAgree(x, v)
      <4>1. ~ (d + 1 < 2) /\ Single(x.first) /\ Single(x.prev) /\ x.first # {} /\ x.prev # {}
        BY <1>2, <1>3, <2>9, <3>1 DEF Single
      <4>2. Cardinality(DeltasOf(v)) = d + 1 /\ TimesOf(v, DeltasOf(v)) = A \cup {u}
        BY <1>3, <1>7, <2>9
      <4> QED
        <5>1. /\ x.first = Earliest(TimesOf(v, DeltasOf(v)))
              /\ x.prev = Latest(TimesOf(v, DeltasOf(v)))
              /\ Len(x.itls) = Cardinality(DeltasOf(v)) - 2
              /\ ~ (Cardinality(DeltasOf(v)) < 2)
          <6>1. /\ x.first = Earliest(TimesOf(v, DeltasOf(v)))
                /\ x.prev = Latest(TimesOf(v, DeltasOf(v)))
            BY <3>2, <4>2
          <6>2. Len(x.itls) = Cardinality(DeltasOf(v)) - 2
            <7>1. PICK card : card = Cardinality(DeltasOf(v))
              OBVIOUS
            <7>2. card = d + 1
              BY <4>2, <7>1
            <7> QED
              BY <1>3, <3>4, <7>1, <7>2
          <6> QED
            BY <4>1, <4>2, <6>1, <6>2
        <5>2. \A f \in x.first, p \in x.prev : SumOf(x.itls) <= p - f
          BY <3>1, <3>4
        <5> QED
          BY <4>1, <5>1, <5>2 DEF DeltasAgree
    <3> QED
      BY <2>6, <3>5 DEF x, v
  <2> QED
    BY <1>3, <1>5, <2>7, <2>8, <2>9
<1> QED
  BY <1>6, <1>7

\* The tokens and the flags stay in agreement.
LEMMA TokensKeep ==
    ASSUME NEW s, NEW t, NEW w, Agrees(s, t, w), NEW line \in Lines, NEW u \in Nat, t <= u
    PROVE  TokensAgree(OnLine(s, line, u), Append(w, [line |-> line, at |-> u]))
<1> DEFINE e == [line |-> line, at |-> u]
           v == Append(w, e)
           n == Len(w) + 1
           x == OnLine(s, line, u)
           C == CountedOf(w)
           counts == line.kind = "chunk" /\ line.delta
           tells == line.kind = "chunk" /\ line.usage # {}
<1>1. s \in Streams /\ w \in Seq(Received) /\ TokensAgree(s, w)
  BY DEF Agrees
<1>2. /\ s.completion - Cardinality(C) \in (IF ToldOf(w) = {} THEN {0} ELSE ToldOf(w))
      /\ s.done <=> \E i \in DOMAIN w : w[i].line.kind = "done"
      /\ s.usage <=> UsagesOf(w) # {}
      /\ s.completion \in Nat /\ s.done \in BOOLEAN /\ s.usage \in BOOLEAN
  BY <1>1 DEF TokensAgree, Streams
<1>3. e \in Received /\ e.line = line /\ e.at = u
  BY DEF Received
<1> HIDE DEF e
<1>4. /\ n \in Nat /\ n \notin DOMAIN w /\ DOMAIN v = DOMAIN w \cup {n} /\ v[n] = e
      /\ \A i \in DOMAIN w : v[i] = w[i] /\ i \in Nat /\ i < n
      /\ DeltasOf(v) = DeltasOf(w) \cup (IF counts THEN {n} ELSE {})
      /\ UsagesOf(v) = UsagesOf(w) \cup (IF tells THEN {n} ELSE {})
  BY <1>1, <1>3, WireGrows
<1>5. /\ IsFiniteSet(C) /\ Cardinality(C) \in Nat /\ C \in SUBSET (DOMAIN w)
      /\ DeltasOf(w) \in SUBSET (DOMAIN w) /\ UsagesOf(w) \in SUBSET (DOMAIN w)
  <2>1. /\ IsFiniteSet(C) /\ Cardinality(C) \in Nat /\ C \in SUBSET DeltasOf(w)
        /\ DeltasOf(w) \in SUBSET ChunksOf(w) /\ UsagesOf(w) \in SUBSET ChunksOf(w)
        /\ ChunksOf(w) \in SUBSET (DOMAIN w)
    BY <1>1, PlacesAreFinite
  <2> QED
    BY <2>1
<1> HIDE DEF v, n
<1>6. /\ line.delta \in BOOLEAN
      /\ line.usage # {} => /\ (CHOOSE y \in line.usage : TRUE) \in Usage
                            /\ line.usage = {CHOOSE y \in line.usage : TRUE}
  BY LinesAssumption
<1>7. /\ ~ tells => CountedOf(v) = C \cup (IF counts THEN {n} ELSE {})
      /\ tells => CountedOf(v) = (IF counts THEN {n} ELSE {})
  <2>1. CASE ~ tells
    <3>1. UsagesOf(v) = UsagesOf(w)
      BY <1>4, <2>1
    <3>2. \A i \in DeltasOf(v) :
            (\A j \in UsagesOf(v) : i >= j) <=> (i = n /\ counts) \/ i \in C
      <4> SUFFICES ASSUME NEW i \in DeltasOf(v)
                   PROVE  (\A j \in UsagesOf(v) : i >= j) <=> (i = n /\ counts) \/ i \in C
        OBVIOUS
      <4>1. CASE i = n
        BY <1>4, <1>5, <3>1, <4>1
      <4>2. CASE i # n
        <5>1. i \in DeltasOf(w)
          BY <1>4, <4>2
        <5> QED
          BY <3>1, <4>2, <5>1 DEF CountedOf
      <4> QED
        BY <4>1, <4>2
    <3>3. C \in SUBSET DeltasOf(v)
      BY <1>4 DEF CountedOf
    <3> QED
      BY <1>4, <2>1, <3>2, <3>3 DEF CountedOf
  <2>2. CASE tells
    <3>1. n \in UsagesOf(v) /\ \A j \in UsagesOf(v) : j \in Nat /\ j <= n
      BY <1>4, <1>5, <2>2
    <3>2. \A i \in DeltasOf(v) : (\A j \in UsagesOf(v) : i >= j) <=> i = n
      <4> SUFFICES ASSUME NEW i \in DeltasOf(v)
                   PROVE  (\A j \in UsagesOf(v) : i >= j) <=> i = n
        OBVIOUS
      <4>1. i = n \/ (i \in Nat /\ i < n)
        BY <1>4, <1>5
      <4> QED
        BY <1>4, <3>1, <4>1
    <3>3. n \in DeltasOf(v) <=> counts
      BY <1>4, <1>5
    <3> QED
      BY <2>2, <3>2, <3>3 DEF CountedOf
  <2> QED
    BY <2>1, <2>2
<1>8. /\ ~ tells => ToldOf(v) = ToldOf(w)
      /\ tells => ToldOf(v) = {(CHOOSE y \in line.usage : TRUE).completion}
  <2>1. CASE ~ tells
    <3>1. UsagesOf(v) = UsagesOf(w)
      BY <1>4, <2>1
    <3>2. Latest(UsagesOf(v)) = Latest(UsagesOf(w)) /\ Latest(UsagesOf(w)) \in SUBSET (DOMAIN w)
      BY <1>5, <3>1 DEF Latest
    <3>3. \A i \in Latest(UsagesOf(w)) : v[i] = w[i]
      BY <1>4, <3>2
    <3> QED
      BY <2>1, <3>2, <3>3 DEF ToldOf
  <2>2. CASE tells
    <3>1. n \in UsagesOf(v) /\ \A j \in UsagesOf(v) : j \in Nat /\ j <= n
      BY <1>4, <1>5, <2>2
    <3>2. Latest(UsagesOf(v)) = {n}
      <4>1. n \in Latest(UsagesOf(v))
        BY <3>1 DEF Latest
      <4>2. ASSUME NEW i \in Latest(UsagesOf(v)) PROVE i = n
        <5>1. i \in UsagesOf(v) /\ n <= i
          BY <3>1, <4>2 DEF Latest
        <5> QED
          BY <1>4, <3>1, <5>1
      <4> QED
        BY <4>1, <4>2
    <3>3. v[n].line.usage = {CHOOSE y \in line.usage : TRUE}
      BY <1>3, <1>4, <1>6, <2>2
    <3>4. PICK told : told = CHOOSE y \in line.usage : TRUE
      OBVIOUS
    <3>5. {y.completion : y \in {told}} = {told.completion}
      OBVIOUS
    <3>6. ToldOf(v) = {told.completion}
      <4>1. ToldOf(v) = UNION {{y.completion : y \in v[i].line.usage} : i \in {n}}
        BY <3>2 DEF ToldOf
      <4>2. {y.completion : y \in v[n].line.usage} = {told.completion}
        BY <3>3, <3>4, <3>5
      <4> HIDE DEF n, v
      <4>3. ToldOf(v) = {y.completion : y \in v[n].line.usage}
        BY <4>1
      <4> QED
        BY <4>2, <4>3
    <3> QED
      BY <2>2, <3>4, <3>6
  <2> QED
    BY <2>1, <2>2
<1>9. (\E i \in DOMAIN v : v[i].line.kind = "done") <=> s.done \/ line.kind = "done"
  BY <1>2, <1>3, <1>4
<1>10. UsagesOf(v) # {} <=> s.usage \/ tells
  BY <1>2, <1>4
<1>11. n \notin C /\ Cardinality(C \cup {n}) = Cardinality(C) + 1
  BY <1>4, <1>5, OneMore
<1>12. Cardinality({n}) = 1 /\ Cardinality({}) = 0
  BY FS_Singleton, FS_EmptySet
<1> HIDE DEF C
<1>13. CASE line.kind # "chunk"
  <2>1. x = IF line.kind = "done" THEN [s EXCEPT !.done = TRUE] ELSE s
    BY <1>1, <1>13, PlainFields
  <2>2. /\ x.completion = s.completion /\ x.usage = s.usage
        /\ x.done <=> s.done \/ line.kind = "done"
    BY <1>1, <1>2, <2>1 DEF Streams
  <2> HIDE DEF x
  <2>3. CountedOf(v) = C /\ ToldOf(v) = ToldOf(w)
    BY <1>7, <1>8, <1>13
  <2>4. TokensAgree(x, v)
    BY <1>2, <1>9, <1>10, <1>13, <2>2, <2>3 DEF TokensAgree
  <2> QED
    BY <2>4 DEF x, v, e
<1>14. CASE line.kind = "chunk"
  <2> DEFINE told == CHOOSE y \in line.usage : TRUE
  <2>1. ChunkGives(s, line, u, x)
    BY <1>1, <1>14, ChunkField
  <2> HIDE DEF x
  <2>2. /\ x.completion = (IF line.usage = {} THEN s.completion ELSE told.completion)
                            + (IF line.delta THEN 1 ELSE 0)
        /\ x.done = s.done
        /\ x.usage = (IF line.usage = {} THEN s.usage ELSE TRUE)
    BY <2>1, Zenon DEF ChunkGives
  <2>3. line.usage # {} => told.completion \in Nat
    BY <1>6 DEF Usage
  <2>4. line.usage # {} => ToldOf(v) = {told.completion}
    BY <1>8, <1>14
  <2> HIDE DEF told
  <2>5. (x.done <=> \E i \in DOMAIN v : v[i].line.kind = "done") /\ (x.usage <=> UsagesOf(v) # {})
    BY <1>2, <1>9, <1>10, <1>14, <2>2
  <2>6. CASE line.usage = {}
    <3>1. /\ x.completion = s.completion + (IF line.delta THEN 1 ELSE 0)
          /\ ToldOf(v) = ToldOf(w)
          /\ Cardinality(CountedOf(v)) = Cardinality(C) + (IF line.delta THEN 1 ELSE 0)
      <4>1. ~ tells /\ (counts <=> line.delta)
        BY <1>14, <2>6
      <4>2. ToldOf(v) = ToldOf(w) /\ CountedOf(v) = C \cup (IF line.delta THEN {n} ELSE {})
        BY <1>7, <1>8, <4>1
      <4>3. C \cup {} = C /\ Cardinality(C) + 0 = Cardinality(C)
        BY <1>5
      <4> HIDE DEF tells, counts
      <4>4. CASE line.delta
        BY <1>11, <2>2, <2>6, <4>2, <4>4
      <4>5. CASE ~ line.delta
        BY <2>2, <2>6, <4>2, <4>3, <4>5
      <4> QED
        BY <4>4, <4>5
    <3>2. x.completion - Cardinality(CountedOf(v)) = s.completion - Cardinality(C)
      BY <1>2, <1>5, <1>6, <3>1
    <3>3. TokensAgree(x, v)
      BY <1>2, <2>5, <3>1, <3>2 DEF TokensAgree
    <3> QED
      BY <3>3 DEF x, v, e
  <2>7. CASE line.usage # {}
    <3>1. /\ x.completion = told.completion + (IF line.delta THEN 1 ELSE 0)
          /\ Cardinality(CountedOf(v)) = (IF line.delta THEN 1 ELSE 0)
      BY <1>6, <1>7, <1>12, <1>14, <2>2, <2>7
    <3>2. x.completion - Cardinality(CountedOf(v)) = told.completion
      BY <1>6, <2>3, <2>7, <3>1
    <3>3. TokensAgree(x, v)
      BY <2>4, <2>5, <2>7, <3>2 DEF TokensAgree
    <3> QED
      BY <3>3 DEF x, v, e
  <2> QED
    BY <2>6, <2>7
<1> QED
  BY <1>13, <1>14

\* One line more, at a time that is not earlier.
LEMMA LineKeeps ==
    ASSUME NEW s, NEW t, NEW w, Agrees(s, t, w), NEW line \in Lines, NEW u \in Nat, t <= u
    PROVE  Agrees(OnLine(s, line, u), u, Append(w, [line |-> line, at |-> u]))
<1> DEFINE e == [line |-> line, at |-> u]
           v == Append(w, e)
<1>1. w \in Seq(Received) /\ t \in Nat /\ \A i \in DOMAIN w : w[i].at <= t
  BY DEF Agrees
<1>2. e \in Received /\ e.at = u
  BY DEF Received
<1>3. /\ v \in Seq(Received) /\ v[Len(w) + 1] = e /\ DOMAIN v = DOMAIN w \cup {Len(w) + 1}
      /\ \A i \in DOMAIN w : v[i] = w[i]
  BY <1>1, <1>2, WireGrows
<1>4. \A i \in DOMAIN w : w[i].at \in Nat
  BY <1>1, WireTypes
<1> HIDE DEF e, v
<1>5. \A i \in DOMAIN v : v[i].at <= u
  BY <1>1, <1>2, <1>3, <1>4
<1> USE DEF e, v
<1>6. BytesAgree(OnLine(s, line, u), v)
  BY BytesKeep
<1>7. DeltasAgree(OnLine(s, line, u), v) /\ OnLine(s, line, u) \in Streams
  BY DeltasKeep
<1>8. TokensAgree(OnLine(s, line, u), v)
  BY TokensKeep
<1> HIDE DEF e, v
<1> QED
  BY <1>3, <1>5, <1>6, <1>7, <1>8 DEF Agrees, v, e

\* A request begins with nothing on the wire.
LEMMA NothingYet == Agrees(NewStream, 0, <<>>)
<1>1. ChunksOf(<<>>) = {} /\ DeltasOf(<<>>) = {} /\ UsagesOf(<<>>) = {}
  BY DEF ChunksOf, DeltasOf, UsagesOf
<1>2. CountedOf(<<>>) = {} /\ ToldOf(<<>>) = {} /\ TimesOf(<<>>, {}) = {} /\ Earliest({}) = {}
  BY <1>1 DEF CountedOf, ToldOf, TimesOf, Latest, Earliest
<1>3. Cardinality({}) = 0
  BY FS_EmptySet
<1>4. NewStream \in Streams /\ <<>> \in Seq(Received)
  <2>1. <<>> \in Seq(Nat)
    OBVIOUS
  <2>2. <<>> \in Seq(Received)
    OBVIOUS
  <2>3. {} \in SUBSET Nat /\ 0 \in Nat /\ FALSE \in BOOLEAN
    OBVIOUS
  <2>4. "none" \in Finishes
    BY DEF Finishes
  <2>5. NewStream \in Streams
    BY <2>1, <2>3, <2>4, Zenon DEF NewStream, Streams
  <2> QED
    BY <2>2, <2>5
<1>5. BytesAgree(NewStream, <<>>)
  BY <1>1, <1>2 DEF BytesAgree, NewStream, Single
<1>6. DeltasAgree(NewStream, <<>>)
  <2>1. NewStream.first = {} /\ NewStream.prev = {} /\ Len(NewStream.itls) = 0
    BY DEF NewStream
  <2>2. /\ DeltasOf(<<>>) = {} /\ Cardinality(DeltasOf(<<>>)) = 0
        /\ Earliest(TimesOf(<<>>, DeltasOf(<<>>))) = {}
    BY <1>1, <1>2, <1>3
  <2> QED
    BY <2>1, <2>2 DEF DeltasAgree, Single
<1>7. TokensAgree(NewStream, <<>>)
  <2>1. NewStream.completion = 0 /\ ~ NewStream.done /\ ~ NewStream.usage
    BY DEF NewStream
  <2>2. /\ Cardinality(CountedOf(<<>>)) = 0 /\ ToldOf(<<>>) = {} /\ UsagesOf(<<>>) = {}
        /\ DOMAIN <<>> = {}
    <3>1. DOMAIN <<>> = {}
      OBVIOUS
    <3> QED
      BY <1>1, <1>2, <1>3, <3>1
  <2> QED
    BY <2>1, <2>2 DEF TokensAgree
<1> QED
  BY <1>4, <1>5, <1>6, <1>7 DEF Agrees

-----------------------------------------------------------------------------
\* What a request records

Errors ==
    {"none", "timeout", "http", "auth_error", "not_found", "context_overflow", "server_error"}

Rates == [num : Int, den : Int]

Outcomes ==
    [ok : BOOLEAN, error : Errors, completed_stream : BOOLEAN, latency : Nat, ttfb : SUBSET Nat,
     ttft : SUBSET Nat, decode : SUBSET Int, prefill : SUBSET Nat, itls : Seq(Nat),
     decode_tps : SUBSET Rates, prefill_tps : SUBSET Rates, input : Nat, output : Nat,
     finish : Finishes]

\* The decoding time of a stream, if it has one.
Decodes(s) == s.completion > 1 /\ s.prev # {} /\ s.first # {}
Decode(s) == IF Decodes(s) THEN {p - f : p \in s.prev, f \in s.first} ELSE {}

\* Field by field, r is what the stream s gives when it ends at time t.
AnswerGives(s, t, r) ==
    /\ r \in Outcomes
    /\ r.ok /\ r.completed_stream = (s.done \/ s.usage) /\ r.latency = t
    /\ r.ttfb = s.ttfb /\ r.ttft = s.first /\ r.itls = s.itls /\ r.decode = Decode(s)
    /\ r.output = s.completion

LEMMA AnswerFields ==
    ASSUME NEW s \in Streams, NEW t \in Nat
    PROVE  AnswerGives(s, t, Answered(s, t))
<1> DEFINE decodes == s.completion > 1 /\ s.prev # {} /\ s.first # {}
           decode == {p - f : p \in s.prev, f \in s.first}
           lasting == decodes /\ 0 \notin decode
           prefill == IF lasting /\ s.itls # <<>> /\ s.prompt > 0 THEN s.first \ {0} ELSE {}
           ended == s.done \/ s.usage
           lasts == IF decodes THEN decode ELSE {}
           rates == IF lasting THEN {Ratio(s.completion - 1, d) : d \in decode} ELSE {}
           speeds == {Ratio(s.prompt, p) : p \in prefill}
           r == Answered(s, t)
<1>1. r = [RawRequest(t) EXCEPT
             !.completed_stream = ended, !.ttfb = s.ttfb, !.ttft = s.first, !.itls = s.itls,
             !.decode = lasts, !.decode_tps = rates, !.prefill = prefill, !.prefill_tps = speeds,
             !.input = s.prompt, !.output = s.completion, !.finish = s.finish]
  BY DEF Answered
<1>2. /\ s.ttfb \in SUBSET Nat /\ s.first \in SUBSET Nat /\ s.prev \in SUBSET Nat
      /\ s.itls \in Seq(Nat) /\ s.completion \in Nat /\ s.prompt \in Nat /\ s.finish \in Finishes
      /\ s.done \in BOOLEAN /\ s.usage \in BOOLEAN
  BY DEF Streams
<1>3. decode \in SUBSET Int
  BY <1>2
<1>4. ended \in BOOLEAN /\ lasts \in SUBSET Int /\ prefill \in SUBSET Nat
  BY <1>2, <1>3
<1> HIDE DEF decode, decodes, lasting, prefill
<1>5. rates \in SUBSET Rates
  <2>1. ASSUME NEW d \in decode PROVE Ratio(s.completion - 1, d) \in Rates
    BY <1>2, <1>3 DEF Ratio, Rates
  <2> QED
    BY <2>1
<1>6. speeds \in SUBSET Rates
  <2>1. ASSUME NEW p \in prefill PROVE Ratio(s.prompt, p) \in Rates
    BY <1>2, <1>4 DEF Ratio, Rates
  <2> QED
    BY <2>1
<1> HIDE DEF ended, lasts, rates, speeds, r
<1>7. r = [ok |-> TRUE, error |-> "none", completed_stream |-> ended, latency |-> t,
           ttfb |-> s.ttfb, ttft |-> s.first, decode |-> lasts, prefill |-> prefill,
           itls |-> s.itls, decode_tps |-> rates, prefill_tps |-> speeds, input |-> s.prompt,
           output |-> s.completion, finish |-> s.finish]
  BY <1>1 DEF RawRequest
<1>8. "none" \in Errors
  BY DEF Errors
<1>9. r \in Outcomes
  BY <1>2, <1>4, <1>5, <1>6, <1>7, <1>8 DEF Outcomes
<1>10. lasts = Decode(s)
  BY DEF lasts, decode, decodes, Decode, Decodes
<1>11. AnswerGives(s, t, r)
  BY <1>7, <1>9, <1>10 DEF AnswerGives, ended
<1> QED
  BY <1>11 DEF r

LEMMA FailedFields ==
    ASSUME NEW s \in Streams, NEW t \in Nat, NEW error \in Errors
    PROVE  LET r == Failed(s, error, t)
           IN r \in Outcomes /\ ~ r.ok /\ r.latency = t /\ r.ttfb = s.ttfb /\ r.ttft = s.first
<1> DEFINE r == Failed(s, error, t)
<1>1. /\ s.ttfb \in SUBSET Nat /\ s.first \in SUBSET Nat
  BY DEF Streams
<1>2. r = [ok |-> FALSE, error |-> error, completed_stream |-> FALSE, latency |-> t,
           ttfb |-> s.ttfb, ttft |-> s.first, decode |-> {}, prefill |-> {},
           itls |-> <<>>, decode_tps |-> {}, prefill_tps |-> {}, input |-> 0,
           output |-> 0, finish |-> "none"]
  <2>1. PICK base : base = RawRequest(t)
    OBVIOUS
  <2>2. base = [ok |-> TRUE, error |-> "none", completed_stream |-> TRUE, latency |-> t,
                ttfb |-> {}, ttft |-> {}, decode |-> {}, prefill |-> {},
                itls |-> <<>>, decode_tps |-> {}, prefill_tps |-> {}, input |-> 0,
                output |-> 0, finish |-> "none"]
    BY <2>1 DEF RawRequest
  <2>3. r = [base EXCEPT !.ok = FALSE, !.completed_stream = FALSE,
                         !.error = error, !.ttfb = s.ttfb, !.ttft = s.first]
    BY <2>1 DEF Failed
  <2> HIDE DEF r
  <2> QED
    BY <2>2, <2>3
<1>3. "none" \in Finishes /\ <<>> \in Seq(Nat)
  BY DEF Finishes
<1> HIDE DEF r
<1>4. r \in Outcomes
  BY <1>1, <1>2, <1>3, Zenon DEF Outcomes
<1> QED
  BY <1>2, <1>4 DEF r

LEMMA ClassifyType ==
    ASSUME NEW status, NEW body
    PROVE  Classify(status, body) \in Errors
  BY DEF Classify, Errors

\* The request that has just ended is the one on the wire.
JustEnded(r) ==
    \/ r = Answered(stream, now)
    \/ \E error \in Errors : r = Failed(stream, error, now + 1)

\* The inductive invariant of the requests: the state of the stream agrees with
\* the wire, and the last request was made of it.
RequestInv ==
    /\ Agrees(stream, now, wire)
    /\ requests \in Seq(Outcomes)
    /\ pc = "sent" => now = 0
    /\ pc = "ended" => requests # <<>> /\ JustEnded(requests[Len(requests)])

LEMMA Recording ==
    ASSUME NEW q \in Seq(Outcomes), NEW r \in Outcomes
    PROVE  /\ Append(q, r) \in Seq(Outcomes) /\ Append(q, r) # <<>>
           /\ Append(q, r)[Len(Append(q, r))] = r
  OBVIOUS

LEMMA RequestInit == Init => RequestInv
<1> SUFFICES ASSUME Init PROVE RequestInv
  OBVIOUS
<1>1. stream = NewStream /\ now = 0 /\ wire = <<>> /\ requests = <<>> /\ pc = "start"
  BY DEF Init
<1>2. Agrees(stream, now, wire)
  BY <1>1, NothingYet
<1>3. requests \in Seq(Outcomes)
  BY <1>1
<1> QED
  BY <1>1, <1>2, <1>3 DEF RequestInv

LEMMA RequestStep == RequestInv /\ [Next]_vars => RequestInv'
<1> SUFFICES ASSUME RequestInv, [Next]_vars PROVE RequestInv'
  OBVIOUS
<1>1. /\ Agrees(stream, now, wire) /\ requests \in Seq(Outcomes)
      /\ stream \in Streams /\ now \in Nat
  BY DEF RequestInv, Agrees
<1>2. ASSUME UNCHANGED request, requests' = requests, pc' \notin {"sent", "ended"}
      PROVE  RequestInv'
  BY <1>1, <1>2 DEF RequestInv, request
<1>3. ASSUME stream' = NewStream, now' = 0, wire' = <<>>, requests' = requests, pc' # "ended"
      PROVE  RequestInv'
  <2>1. Agrees(stream', now', wire')
    BY <1>3, NothingYet
  <2> QED
    BY <1>1, <1>3, <2>1 DEF RequestInv
<1>4. ASSUME NEW r \in Outcomes, Ends(r), Agrees(stream', now', wire'),
             \/ r = Answered(stream', now')
             \/ \E error \in Errors : r = Failed(stream', error, now' + 1)
      PROVE  RequestInv'
  <2>1. requests' = Append(requests, r) /\ pc' = "ended"
    BY <1>4 DEF Ends
  <2>2. /\ requests' \in Seq(Outcomes) /\ requests' # <<>>
        /\ requests'[Len(requests')] = r
    BY <1>1, <2>1, Recording
  <2> QED
    BY <1>4, <2>1, <2>2 DEF RequestInv, JustEnded
<1>5. CASE Discover
  BY <1>2, <1>5 DEF Discover
<1>6. CASE Inspect
  BY <1>2, <1>6 DEF Inspect
<1>7. CASE Setup
  BY <1>2, <1>7 DEF Setup
<1>8. CASE Prepare
  BY <1>2, <1>8 DEF Prepare
<1>9. CASE Begin
  BY <1>2, <1>9 DEF Begin
<1>10. CASE Send
  BY <1>3, <1>10 DEF Send
<1>11. CASE Accept
  <2>1. pc = "sent" /\ now' = 1 /\ pc' = "reading" /\ UNCHANGED <<stream, wire, requests>>
    BY <1>11 DEF Accept
  <2>2. now = 0 /\ wire \in Seq(Received)
    BY <1>1, <2>1 DEF RequestInv, Agrees
  <2>3. \A i \in DOMAIN wire : wire[i].at <= 1
    <3>1. \A i \in DOMAIN wire : wire[i].at \in Nat /\ wire[i].at <= 0
      BY <1>1, <2>2, WireTypes DEF Agrees
    <3> QED
      BY <3>1
  <2>4. Agrees(stream, 1, wire)
    BY <1>1, <2>3 DEF Agrees
  <2>5. Agrees(stream', now', wire') /\ requests' \in Seq(Outcomes)
    BY <1>1, <2>1, <2>4
  <2>6. pc' # "ended" /\ pc' # "sent"
    BY <2>1
  <2> QED
    BY <2>5, <2>6 DEF RequestInv
<1>12. CASE Refuse
  <2>1. PICK a \in Refusals : Ends(Failed(stream, Classify(a.status, a.body), now + 1))
    BY <1>12 DEF Refuse
  <2>2. UNCHANGED request
    BY <1>12 DEF Refuse
  <2>3. Classify(a.status, a.body) \in Errors
    BY ClassifyType
  <2>4. Failed(stream, Classify(a.status, a.body), now + 1) \in Outcomes
    BY <1>1, <2>3, FailedFields
  <2> QED
    BY <1>1, <1>4, <2>1, <2>2, <2>3, <2>4 DEF request
<1>13. CASE Raise
  BY <1>3, <1>13 DEF Raise
<1>14. CASE StreamEnds
  <2>1. Ends(Answered(stream, now)) /\ UNCHANGED request
    BY <1>14 DEF StreamEnds
  <2>2. Answered(stream, now) \in Outcomes
    BY <1>1, AnswerFields DEF AnswerGives
  <2> QED
    BY <1>1, <1>4, <2>1, <2>2 DEF request
<1>15. CASE Break
  <2>1. PICK error \in {"timeout", "http"} : Ends(Failed(stream, error, now + 1))
    BY <1>15 DEF Break
  <2>2. UNCHANGED request
    BY <1>15 DEF Break
  <2>3. error \in Errors
    BY DEF Errors
  <2>4. Failed(stream, error, now + 1) \in Outcomes
    BY <1>1, <2>3, FailedFields
  <2> QED
    BY <1>1, <1>4, <2>1, <2>2, <2>3, <2>4 DEF request
<1>16. CASE Recorded
  BY <1>3, <1>16 DEF Recorded
<1>17. CASE \E line \in Lines : Receive(line)
  <2>1. PICK line \in Lines : Receive(line)
    BY <1>17
  <2>2. PICK u \in Nat : u = now' /\ now <= u
    BY <1>1, <2>1 DEF Receive
  <2>3. /\ stream' = OnLine(stream, line, u) /\ now' = u
        /\ wire' = Append(wire, [line |-> line, at |-> u])
    BY <2>1, <2>2 DEF Receive
  <2>4. Agrees(stream', now', wire')
    BY <1>1, <2>2, <2>3, LineKeeps
  <2>5. CASE line.kind = "done"
    <3>1. Ends(Answered(stream', now'))
      BY <2>1, <2>5 DEF Receive
    <3>2. stream' \in Streams /\ now' \in Nat
      BY <2>4 DEF Agrees
    <3>3. Answered(stream', now') \in Outcomes
      BY <3>2, AnswerFields DEF AnswerGives
    <3> QED
      BY <1>4, <2>4, <3>1, <3>3
  <2>6. CASE line.kind # "done"
    <3>1. pc' = "reading" /\ requests' = requests
      BY <2>1, <2>6 DEF Receive
    <3> QED
      BY <1>1, <2>4, <3>1 DEF RequestInv
  <2> QED
    BY <2>5, <2>6
<1>18. CASE Judge
  BY <1>2, <1>18 DEF Judge
<1>19. CASE UNCHANGED vars
  BY <1>19 DEF RequestInv, JustEnded, vars, request
<1> QED
  BY <1>5, <1>6, <1>7, <1>8, <1>9, <1>10, <1>11, <1>12, <1>13, <1>14, <1>15, <1>16, <1>17, <1>18,
     <1>19 DEF Next

\* At every step the state of a stream is that of the lines received so far, and
\* the last request is made of it (benchmark/streaming.py, one_request).
THEOREM RequestsAgree == Spec => []RequestInv
<1>1. Init => RequestInv
  BY RequestInit
<1>2. RequestInv /\ [Next]_vars => RequestInv'
  BY RequestStep
<1> QED
  BY <1>1, <1>2, PTL DEF Spec

\* What is recorded of a request that has just ended adds up.
LEMMA EndedAddsUp == RequestInv => StreamAddsUp
<1> SUFFICES ASSUME RequestInv, pc = "ended" PROVE StreamAddsUp
  BY DEF StreamAddsUp
<1> DEFINE r == requests[Len(requests)]
           d == Cardinality(Deltas)
           told == UNION {{u.completion : u \in wire[i].line.usage} : i \in Latest(Usages)}
           counted == {x \in Deltas : \A u \in Usages : x >= u}
<1>1. /\ Agrees(stream, now, wire) /\ stream \in Streams /\ now \in Nat /\ wire \in Seq(Received)
      /\ \A i \in DOMAIN wire : wire[i].at <= now
  BY DEF RequestInv, Agrees
<1>2. /\ Chunks = ChunksOf(wire) /\ Deltas = DeltasOf(wire) /\ Usages = UsagesOf(wire)
  BY DEF Chunks, Deltas, Usages, ChunksOf, DeltasOf, UsagesOf
<1>3. told = ToldOf(wire) /\ counted = CountedOf(wire)
  BY <1>2 DEF ToldOf, CountedOf
<1>4. At(Chunks) = TimesOf(wire, ChunksOf(wire)) /\ At(Deltas) = TimesOf(wire, DeltasOf(wire))
  BY <1>2 DEF At, TimesOf
<1>5. d \in Nat /\ Deltas \in SUBSET Chunks /\ Chunks \in SUBSET DOMAIN wire
  BY <1>1, <1>2, PlacesAreFinite
<1> HIDE DEF r, d, told, counted
<1>6. /\ stream.ttfb = Earliest(At(Chunks)) /\ stream.first = Earliest(At(Deltas))
      /\ Single(stream.first) /\ Single(stream.prev)
      /\ stream.prev = (IF d < 2 THEN {} ELSE Latest(At(Deltas)))
      /\ d >= 2 => stream.prev # {}
      /\ Deltas # {} => stream.first # {}
      /\ Len(stream.itls) = (IF d < 2 THEN 0 ELSE d - 2)
      /\ \A f \in stream.first, p \in stream.prev : SumOf(stream.itls) <= p - f
  <2>1. BytesAgree(stream, wire) /\ DeltasAgree(stream, wire)
    BY <1>1 DEF Agrees
  <2> QED
    BY <1>2, <1>4, <2>1 DEF BytesAgree, DeltasAgree, d
<1>7. /\ stream.completion - Cardinality(counted) \in (IF told = {} THEN {0} ELSE told)
      /\ stream.done <=> \E i \in DOMAIN wire : wire[i].line.kind = "done"
      /\ stream.usage <=> Usages # {}
  BY <1>1, <1>2, <1>3 DEF Agrees, TokensAgree
<1>8. \A b \in stream.ttfb, t \in stream.first : b <= t /\ t \in Nat /\ t <= now
  <2> SUFFICES ASSUME NEW b \in stream.ttfb, NEW t \in stream.first
               PROVE  b <= t /\ t \in Nat /\ t <= now
    OBVIOUS
  <2>1. t \in At(Deltas) /\ \A x \in At(Chunks) : b <= x
    BY <1>6 DEF Earliest
  <2>2. PICK i \in Deltas : t = wire[i].at
    BY <2>1 DEF At
  <2>3. i \in Chunks /\ t \in At(Chunks) /\ i \in DOMAIN wire
    BY <1>5, <2>2 DEF At
  <2> QED
    BY <1>1, <2>1, <2>2, <2>3, WireTypes
<1>9. JustEnded(r)
  BY DEF RequestInv, r
<1>10. CASE r = Answered(stream, now)
  <2>1. AnswerGives(stream, now, r)
    BY <1>1, <1>10, AnswerFields
  <2>2. /\ r.ok /\ r.completed_stream = (stream.done \/ stream.usage) /\ r.latency = now
        /\ r.ttfb = stream.ttfb /\ r.ttft = stream.first /\ r.itls = stream.itls
        /\ r.decode = Decode(stream) /\ r.output = stream.completion
    BY <2>1 DEF AnswerGives
  <2>3. r.completed_stream <=> Usages # {} \/ \E i \in DOMAIN wire : wire[i].line.kind = "done"
    BY <1>7, <2>2
  <2>4. r.decode # {} <=> r.output > 1 /\ d > 1
    <3>1. stream.prev # {} <=> d >= 2
      BY <1>5, <1>6
    <3>2. d >= 2 => stream.first # {}
      <4>1. d >= 2 => Deltas # {}
        BY FS_EmptySet DEF d
      <4> QED
        BY <1>6, <4>1
    <3>3. Decodes(stream) <=> stream.completion > 1 /\ d > 1
      BY <1>5, <3>1, <3>2 DEF Decodes
    <3>4. Decodes(stream) => \E x : x \in Decode(stream)
      <4> SUFFICES ASSUME Decodes(stream) PROVE \E x : x \in Decode(stream)
        OBVIOUS
      <4>1. PICK p \in stream.prev, f \in stream.first : TRUE
        BY DEF Decodes
      <4>2. p - f \in Decode(stream)
        BY DEF Decode
      <4> QED
        BY <4>2
    <3> QED
      BY <2>2, <3>3, <3>4 DEF Decode
  <2>5. ASSUME NEW x \in r.decode, NEW f \in Earliest(At(Deltas)), NEW l \in Latest(At(Deltas))
        PROVE  x = l - f /\ SumOf(r.itls) <= x
    <3>1. PICK p \in stream.prev, g \in stream.first : x = p - g
      BY <2>2 DEF Decode
    <3>2. g = f
      BY <1>6, <3>1 DEF Single
    <3>3. stream.prev = Latest(At(Deltas))
      BY <1>6, <3>1
    <3>4. p = l
      BY <1>6, <3>1, <3>3 DEF Single
    <3> QED
      BY <1>6, <2>2, <3>1, <3>2, <3>4
  <2> HIDE DEF Deltas
  <2>6. /\ r.output - Cardinality(counted) \in (IF told = {} THEN {0} ELSE told)
        /\ Len(r.itls) = (IF d < 2 THEN 0 ELSE d - 2)
        /\ r.ttfb = Earliest(At(Chunks)) /\ r.ttft = Earliest(At(Deltas))
        /\ \A b \in r.ttfb, t \in r.ttft : b <= t /\ t <= r.latency
    BY <1>6, <1>7, <1>8, <2>2
  <2> QED
    BY <2>3, <2>4, <2>5, <2>6 DEF StreamAddsUp, r, d, told, counted
<1>11. CASE \E error \in Errors : r = Failed(stream, error, now + 1)
  <2>1. PICK error \in Errors : r = Failed(stream, error, now + 1)
    BY <1>11
  <2>2. /\ ~ r.ok /\ r.latency = now + 1 /\ r.ttfb = stream.ttfb /\ r.ttft = stream.first
    <3>1. now + 1 \in Nat
      BY <1>1
    <3> QED
      BY <1>1, <2>1, <3>1, FailedFields
  <2>3. /\ r.ttfb = Earliest(At(Chunks)) /\ r.ttft = Earliest(At(Deltas))
        /\ \A b \in r.ttfb, t \in r.ttft : b <= t /\ t <= r.latency
    BY <1>1, <1>6, <1>8, <2>2
  <2> QED
    BY <2>2, <2>3 DEF StreamAddsUp, r
<1> QED
  BY <1>9, <1>10, <1>11 DEF JustEnded

\* What a request records is what was on the wire, seen as a whole
\* (benchmark/streaming.py, one_request).
THEOREM StreamHolds == Spec => []StreamAddsUp
  BY RequestsAgree, EndedAddsUp, PTL

-----------------------------------------------------------------------------
\* Distributions

\* Sorted numbers.
Rising(v) == \A i, j \in 1 .. Len(v) : i <= j => v[i] <= v[j]

LEMMA Scaled ==
    ASSUME NEW a \in Nat, NEW x \in Int, NEW y \in Int, x <= y
    PROVE  a * x <= a * y /\ a * x \in Int /\ a * y \in Int
<1>1. y - x \in Nat
  OBVIOUS
<1>2. a * (y - x) \in Nat
  BY <1>1
<1>3. a * (y - x) = a * y - a * x
  OBVIOUS
<1> QED
  BY <1>2, <1>3

\* Where the percentile q/1000 is taken from: f of the last + 1 places, and r
\* thousandths of the way to the place c.
Place(last, q, f, c, r) ==
    /\ f \in 0 .. last /\ c \in f .. last /\ r \in 0 .. 999
    /\ last * q = 1000 * f + r
    /\ c = f + 1 \/ (c = f /\ f = last)
Point(a, b, r) == 1000 * a + (b - a) * r
HasPlace(v, last, q) ==
    \E f, c, r \in Int :
        Place(last, q, f, c, r) /\ Percentile(v, q) = Point(v[f + 1], v[c + 1], r)
\* The percentile as a function of the last place and of last * q.
Upper(last, f) == IF f + 1 < last THEN f + 1 ELSE last
PointAt(v, last, f, r) == Point(v[f + 1], v[Upper(last, f) + 1], r)
PercentileOf(v, last, k) == PointAt(v, last, k \div 1000, k % 1000)

LEMMA Thousandths ==
    ASSUME NEW k \in Nat
    PROVE  k \div 1000 \in Int /\ k % 1000 \in 0 .. 999 /\ k = 1000 * (k \div 1000) + (k % 1000)
  OBVIOUS

LEMMA PercentilePlace ==
    ASSUME NEW v \in Seq(Int), NEW last \in Nat, last = Len(v) - 1,
           NEW q \in Int, 0 <= q, q <= 1000
    PROVE  HasPlace(v, last, q)
<1>3. PICK k \in Nat : k = last * q /\ k <= last * 1000
  <2>1. last * 0 <= last * q /\ last * q <= last * 1000 /\ last * q \in Int
    BY Scaled
  <2>2. last * 0 = 0
    OBVIOUS
  <2> QED
    BY <2>1, <2>2
<1>4. PICK f \in Int, r \in Int : f = k \div 1000 /\ r = k % 1000
                                  /\ r \in 0 .. 999 /\ k = 1000 * f + r
  BY Thousandths
<1>5. PICK c \in Int : c = Upper(last, f)
  <2>1. Upper(last, f) \in Int
    BY DEF Upper
  <2> QED
    BY <2>1, Zenon
<1>6. f \in 0 .. last
  <2>1. 1000 * f + r >= 0 /\ 1000 * f + r <= 1000 * last /\ 0 <= r /\ r <= 999
    BY <1>3, <1>4
  <2> QED
    BY <2>1
<1>7. c \in f .. last /\ (c = f + 1 \/ (c = f /\ f = last))
  BY <1>5, <1>6 DEF Upper
<1>8. Percentile(v, q) = Point(v[f + 1], v[c + 1], r)
  <2>1. Percentile(v, q) = PercentileOf(v, Len(v) - 1, (Len(v) - 1) * q)
    BY DEF Percentile, PercentileOf, PointAt, Upper, Point
  <2>2. Percentile(v, q) = PercentileOf(v, last, k)
    BY <1>3, <2>1, Zenon
  <2>3. PercentileOf(v, last, k) = PointAt(v, last, f, r)
    <3>1. f = k \div 1000
      BY <1>4
    <3>2. r = k % 1000
      BY <1>4
    <3> QED
      BY <3>1, <3>2, SMT DEF PercentileOf
  <2>4. PointAt(v, last, f, r) = Point(v[f + 1], v[c + 1], r)
    BY <1>5, Zenon DEF PointAt
  <2> QED
    BY <2>2, <2>3, <2>4, Zenon
<1>9. Place(last, q, f, c, r)
  BY <1>3, <1>4, <1>6, <1>7 DEF Place
<1> QED
  BY <1>8, <1>9, Zenon DEF HasPlace

\* What rises is larger at a later place.
LEMMA RisingAt ==
    ASSUME NEW v \in Seq(Int), Rising(v), NEW last \in Nat, last = Len(v) - 1,
           NEW f \in 0 .. last, NEW c \in f .. last
    PROVE  v[f + 1] \in Int /\ v[c + 1] \in Int /\ v[f + 1] <= v[c + 1]
<1>1. Len(v) \in Nat
  OBVIOUS
<1>2. f + 1 \in 1 .. Len(v) /\ c + 1 \in 1 .. Len(v) /\ f + 1 <= c + 1
  BY <1>1
<1> QED
  BY <1>2 DEF Rising

\* A point between two numbers is between them.
IsBetween(a, b, r) ==
    Point(a, b, r) \in Int /\ 1000 * a <= Point(a, b, r) /\ Point(a, b, r) <= 1000 * b
LEMMA Between ==
    ASSUME NEW a \in Int, NEW b \in Int, a <= b, NEW r \in Int, 0 <= r, r <= 999
    PROVE  IsBetween(a, b, r)
<1>1. PICK m \in Nat : m = b - a
  OBVIOUS
<1>2. m * 0 <= m * r /\ m * r <= m * 1000 /\ m * r \in Int
  <2>1. r <= 1000
    OBVIOUS
  <2> QED
    BY <2>1, Scaled
<1>3. PICK x \in Int : x = m * r
  BY <1>2
<1>4. m * 0 = 0 /\ m * 1000 = 1000 * b - 1000 * a
  BY <1>1
<1>5. 0 <= x /\ x <= 1000 * b - 1000 * a
  BY <1>2, <1>3, <1>4
<1>6. Point(a, b, r) = 1000 * a + x
  BY <1>1, <1>3 DEF Point
<1> QED
  BY <1>5, <1>6 DEF IsBetween

\* A point further on is no smaller.
LEMMA Further ==
    ASSUME NEW a \in Int, NEW b \in Int, a <= b, NEW r \in Int, NEW s \in Int, r <= s
    PROVE  Point(a, b, r) <= Point(a, b, s)
<1>1. PICK m \in Nat : m = b - a
  OBVIOUS
<1>2. m * r <= m * s /\ m * r \in Int /\ m * s \in Int
  BY Scaled
<1>3. PICK x \in Int, y \in Int : x = m * r /\ y = m * s
  BY <1>2
<1>4. Point(a, b, r) = 1000 * a + x /\ Point(a, b, s) = 1000 * a + y
  BY <1>1, <1>3 DEF Point
<1> QED
  BY <1>2, <1>3, <1>4

\* A point between two numbers is no smaller than one between two smaller numbers.
IsShare(r) == r \in Int /\ 0 <= r /\ r <= 999
LEMMA PointsRise ==
    ASSUME NEW a \in Int, NEW b \in Int, NEW x \in Int, NEW y \in Int, a <= b, b <= x, x <= y,
           NEW r, NEW s, IsShare(r), IsShare(s)
    PROVE  Point(a, b, r) <= Point(x, y, s)
<1>1. IsBetween(a, b, r)
  BY Between DEF IsShare
<1>2. IsBetween(x, y, s)
  BY Between DEF IsShare
<1> QED
  BY <1>1, <1>2 DEF IsBetween

\* A higher percentile is no smaller.
LEMMA PercentilesRise ==
    ASSUME NEW v \in Seq(Int), v # <<>>, Rising(v),
           NEW p \in Int, NEW q \in Int, 0 <= p, p <= q, q <= 1000
    PROVE  Percentile(v, p) <= Percentile(v, q)
<1>1. PICK last \in Nat : last = Len(v) - 1
  OBVIOUS
<1>2. PICK f \in Int, c \in Int, r \in Int :
         Place(last, p, f, c, r) /\ Percentile(v, p) = Point(v[f + 1], v[c + 1], r)
  <2>1. HasPlace(v, last, p)
    <3>1. p <= 1000
      OBVIOUS
    <3> QED
      BY <1>1, <3>1, PercentilePlace
  <2> QED
    BY <2>1, Zenon DEF HasPlace
<1>3. PICK g \in Int, d \in Int, s \in Int :
         Place(last, q, g, d, s) /\ Percentile(v, q) = Point(v[g + 1], v[d + 1], s)
  <2>1. HasPlace(v, last, q)
    <3>1. 0 <= q
      OBVIOUS
    <3> QED
      BY <1>1, <3>1, PercentilePlace
  <2> QED
    BY <2>1, Zenon DEF HasPlace
<1>4. f \in 0 .. last /\ c \in f .. last /\ r \in 0 .. 999
  BY <1>2, Zenon DEF Place
<1>10. g \in 0 .. last /\ d \in g .. last /\ s \in 0 .. 999
  BY <1>3, Zenon DEF Place
<1>11. 1000 * f + r <= 1000 * g + s
  <2>1. last * p = 1000 * f + r
    BY <1>2, Zenon DEF Place
  <2>2. last * q = 1000 * g + s
    BY <1>3, Zenon DEF Place
  <2>3. last * p <= last * q
    BY Scaled
  <2> QED
    BY <2>1, <2>2, <2>3
<1>12. c = f + 1 \/ (c = f /\ f = last)
  BY <1>2, Zenon DEF Place
<1>13. d = g + 1 \/ (d = g /\ g = last)
  BY <1>3, Zenon DEF Place
<1>14. r \in Int /\ s \in Int /\ IsShare(r) /\ IsShare(s)
  BY <1>4, <1>10 DEF IsShare
<1>5. PICK a \in Int, b \in Int, x \in Int, y \in Int :
         /\ a = v[f + 1] /\ b = v[c + 1] /\ x = v[g + 1] /\ y = v[d + 1]
         /\ a <= b /\ x <= y
  <2>1. v[f + 1] \in Int /\ v[c + 1] \in Int /\ v[f + 1] <= v[c + 1]
    BY <1>1, <1>4, RisingAt
  <2>2. v[g + 1] \in Int /\ v[d + 1] \in Int /\ v[g + 1] <= v[d + 1]
    BY <1>1, <1>10, RisingAt
  <2> QED
    BY <2>1, <2>2
<1>15. a <= b
  BY <1>5
<1>16. x <= y
  BY <1>5
<1>6. Percentile(v, p) = Point(a, b, r) /\ Percentile(v, q) = Point(x, y, s)
  <2>1. Percentile(v, p) = Point(a, b, r)
    BY <1>2, <1>5, Zenon
  <2>2. Percentile(v, q) = Point(x, y, s)
    BY <1>3, <1>5, Zenon
  <2> QED
    BY <2>1, <2>2
<1>7. CASE f = g
  <2>1. r <= s
    BY <1>4, <1>10, <1>11, <1>7
  <2>2. c = d
    BY <1>4, <1>10, <1>12, <1>13, <1>7
  <2>3. a = x /\ b = y
    BY <1>5, <1>7, <2>2
  <2>4. Point(a, b, r) <= Point(a, b, s)
    BY <1>14, <1>15, <2>1, Further, Zenon
  <2> QED
    BY <1>6, <2>3, <2>4
<1>8. CASE f < g
  <2>1. c \in 0 .. last /\ g \in c .. last
    BY <1>4, <1>10, <1>12, <1>8
  <2>2. b <= x
    <3>1. v[c + 1] <= v[g + 1]
      BY <1>1, <2>1, RisingAt
    <3> QED
      BY <1>5, <3>1, Zenon
  <2>5. Point(a, b, r) <= Point(x, y, s)
    BY <1>14, <1>15, <1>16, <2>2, PointsRise, Zenon
  <2> QED
    BY <1>6, <2>5
<1>9. ~ (g < f)
  <2>1. r \in Int /\ s \in Int /\ 0 <= r /\ s <= 999 /\ 1000 * f + r <= 1000 * g + s
    BY <1>4, <1>10, <1>11
  <2> QED
    BY <2>1
<1> QED
  BY <1>7, <1>8, <1>9

\* The ends of the percentiles are the extremes.
LEMMA LowestPercentile ==
    ASSUME NEW v \in Seq(Int), v # <<>>, Rising(v)
    PROVE  Percentile(v, 0) = 1000 * v[1]
<1>1. PICK last \in Nat : last = Len(v) - 1
  OBVIOUS
<1>2. PICK f \in Int, c \in Int, r \in Int :
         Place(last, 0, f, c, r) /\ Percentile(v, 0) = Point(v[f + 1], v[c + 1], r)
  <2>1. HasPlace(v, last, 0)
    BY <1>1, PercentilePlace
  <2> QED
    BY <2>1, Zenon DEF HasPlace
<1>3. /\ f \in 0 .. last /\ c \in f .. last /\ r \in 0 .. 999
      /\ last * 0 = 1000 * f + r
  BY <1>2 DEF Place
<1>4. f = 0 /\ r = 0
  BY <1>3
<1>5. PICK a \in Int, b \in Int : a = v[f + 1] /\ b = v[c + 1]
  BY <1>1, <1>3, RisingAt
<1>6. Point(a, b, 0) = 1000 * a
  BY DEF Point
<1>7. f + 1 = 1
  BY <1>1, <1>4
<1>8. Percentile(v, 0) = Point(a, b, 0)
  BY <1>2, <1>4, <1>5, Zenon
<1>9. a = v[1]
  BY <1>5, <1>7, Zenon
<1> QED
  BY <1>6, <1>8, <1>9

LEMMA HighestPercentile ==
    ASSUME NEW v \in Seq(Int), v # <<>>, Rising(v)
    PROVE  Percentile(v, 1000) = 1000 * v[Len(v)]
<1>1. PICK last \in Nat : last = Len(v) - 1
  OBVIOUS
<1>2. PICK f \in Int, c \in Int, r \in Int :
         Place(last, 1000, f, c, r) /\ Percentile(v, 1000) = Point(v[f + 1], v[c + 1], r)
  <2>1. HasPlace(v, last, 1000)
    BY <1>1, PercentilePlace
  <2> QED
    BY <2>1, Zenon DEF HasPlace
<1>3. /\ f \in 0 .. last /\ c \in f .. last /\ r \in 0 .. 999
      /\ last * 1000 = 1000 * f + r
  BY <1>2 DEF Place
<1>4. f = last /\ r = 0
  BY <1>3
<1>5. PICK a \in Int, b \in Int : a = v[f + 1] /\ b = v[c + 1]
  BY <1>1, <1>3, RisingAt
<1>6. Point(a, b, 0) = 1000 * a
  BY DEF Point
<1>7. f + 1 = Len(v)
  BY <1>1, <1>4
<1>8. Percentile(v, 1000) = Point(a, b, 0)
  <2>1. Percentile(v, 1000) = Point(v[f + 1], v[c + 1], r)
    BY <1>2
  <2>2. Percentile(v, 1000) = Point(a, b, r)
    BY <1>5, <2>1, Zenon
  <2> QED
    BY <1>4, <2>2, Zenon
<1>9. a = v[Len(v)]
  BY <1>5, <1>7, Zenon
<1> QED
  BY <1>6, <1>8, <1>9

\* Percentiles in order between the extremes, and a mean between them.
InOrder(d) ==
    /\ 1000 * d.min =< d.p50 /\ d.p50 =< d.p75 /\ d.p75 =< d.p90
    /\ d.p90 =< d.p95 /\ d.p95 =< d.p99 /\ d.p99 =< 1000 * d.max
    /\ d.min * d.count =< d.sum /\ d.sum =< d.max * d.count

LEMMA DistributionInOrder ==
    ASSUME NEW s \in Seq(Int)
    PROVE  InOrder(Distribution(s))
<1>1. CASE s = <<>>
  <2>1. Distribution(s) = NoDistribution
    BY <1>1 DEF Distribution
  <2> QED
    BY <2>1 DEF NoDistribution, InOrder
<1>2. CASE s # <<>>
  <2>1. PICK v \in Seq(Int) : v = Sorted(s) /\ Len(v) = Len(s) /\ Rising(v)
    BY SortedIs DEF Rising
  <2>2. PICK n \in Nat : n = Len(v) /\ n > 0
    BY <1>2, <2>1
  <2>3. v # <<>>
    BY <2>2
  <2>4. PICK d : d = Distribution(s)
    OBVIOUS
  <2>5. /\ d.count = n /\ d.sum = SumOf(v) /\ d.min = v[1] /\ d.max = v[n]
        /\ d.p50 = Percentile(v, 500) /\ d.p75 = Percentile(v, 750) /\ d.p90 = Percentile(v, 900)
        /\ d.p95 = Percentile(v, 950) /\ d.p99 = Percentile(v, 990)
    BY <1>2, <2>1, <2>2, <2>4 DEF Distribution
  <2>6. Percentile(v, 0) = 1000 * v[1]
    BY <2>1, <2>3, LowestPercentile
  <2>7. Percentile(v, 1000) = 1000 * v[n]
    BY <2>1, <2>2, <2>3, HighestPercentile
  <2>8. 1000 * d.min <= d.p50
    BY <2>1, <2>3, <2>5, <2>6, PercentilesRise
  <2>9. d.p50 <= d.p75
    BY <2>1, <2>3, <2>5, PercentilesRise
  <2>10. d.p75 <= d.p90
    BY <2>1, <2>3, <2>5, PercentilesRise
  <2>11. d.p90 <= d.p95
    BY <2>1, <2>3, <2>5, PercentilesRise
  <2>12. d.p95 <= d.p99
    BY <2>1, <2>3, <2>5, PercentilesRise
  <2>13. d.p99 <= 1000 * d.max
    BY <2>1, <2>3, <2>5, <2>7, PercentilesRise
  <2>14. v[1] \in Int /\ v[n] \in Int /\ \A i \in 1 .. n : v[1] <= v[i] /\ v[i] <= v[n]
    <3>1. 1 \in 1 .. n /\ n \in 1 .. n /\ DOMAIN v = 1 .. n
      BY <2>2
    <3>2. v[1] \in Int /\ v[n] \in Int
      BY <3>1
    <3>3. ASSUME NEW i \in 1 .. n PROVE v[1] <= v[i] /\ v[i] <= v[n]
      <4>1. 1 <= i /\ i <= n
        OBVIOUS
      <4> QED
        BY <2>1, <2>2, <3>1, <4>1 DEF Rising
    <3> QED
      BY <3>2, <3>3
  <2>15. v[1] * n <= SumOf(v) /\ SumOf(v) <= v[n] * n
    BY <2>2, <2>14, SumBounds
  <2>16. d.min * d.count <= d.sum /\ d.sum <= d.max * d.count
    BY <2>5, <2>15
  <2>17. InOrder(d)
    BY <2>8, <2>9, <2>10, <2>11, <2>12, <2>13, <2>16, Zenon DEF InOrder
  <2> QED
    BY <2>4, <2>17
<1> QED
  BY <1>1, <1>2

-----------------------------------------------------------------------------
\* The verdict on a cell

LEMMA PickedLen ==
    ASSUME NEW S, NEW s \in Seq(S), NEW P \in SUBSET (1 .. Len(s))
    PROVE  Len(Picked(s, P)) = Cardinality(P) /\ Cardinality(P) \in Nat /\ IsFiniteSet(P)
<1>1. P \subseteq Nat /\ IsFiniteSet(P)
  <2>1. Len(s) \in Nat
    OBVIOUS
  <2>2. IsFiniteSet(1 .. Len(s))
    BY <2>1, FS_Interval
  <2>3. IsFiniteSet(P)
    BY <2>2, FS_Subset, Zenon
  <2> QED
    BY <2>1, <2>3
<1>2. Ascending(P) \in [1 .. Cardinality(P) -> P] /\ Cardinality(P) \in Nat
  BY <1>1, AscendingType
<1>3. PICK n \in Nat : n = Cardinality(P)
  BY <1>2
<1>4. Picked(s, P) = [k \in 1 .. n |-> s[Ascending(P)[k]]]
  BY <1>2, <1>3 DEF Picked
<1>5. Len([k \in 1 .. n |-> s[Ascending(P)[k]]]) = n
  OBVIOUS
<1> QED
  BY <1>1, <1>3, <1>4, <1>5

\* Two parts that have nothing in common count no more than the whole.
Apart(A, B, D) ==
    /\ Cardinality(A \cup B) = Cardinality(A) + Cardinality(B)
    /\ Cardinality(A) \in Nat /\ Cardinality(B) \in Nat /\ Cardinality(D) \in Nat
    /\ Cardinality(A \cup B) \in Nat /\ Cardinality(A \cup B) <= Cardinality(D)
LEMMA TwoParts ==
    ASSUME NEW D, IsFiniteSet(D), NEW A \in SUBSET D, NEW B \in SUBSET D, A \cap B = {}
    PROVE  Apart(A, B, D)
<1>1. IsFiniteSet(A) /\ IsFiniteSet(B)
  BY FS_Subset
<1>2. Cardinality(A \cup B) = Cardinality(A) + Cardinality(B) - Cardinality(A \cap B)
  BY <1>1, FS_Union
<1>3. Cardinality(A \cap B) = 0
  BY FS_EmptySet
<1>4. A \cup B \in SUBSET D
  OBVIOUS
<1>5. IsFiniteSet(A \cup B) /\ Cardinality(A \cup B) <= Cardinality(D)
  BY <1>4, FS_Subset
<1>6. /\ Cardinality(A) \in Nat /\ Cardinality(B) \in Nat /\ Cardinality(D) \in Nat
      /\ Cardinality(A \cup B) \in Nat
  BY <1>1, <1>5, FS_CardinalityType
<1> QED
  BY <1>2, <1>3, <1>5, <1>6 DEF Apart

LEMMA FourParts ==
    ASSUME NEW D, IsFiniteSet(D), NEW A \in SUBSET D, NEW B \in SUBSET D,
           NEW C \in SUBSET D, NEW E \in SUBSET D,
           A \cap B = {}, (A \cup B) \cap C = {}, (A \cup B \cup C) \cap E = {}
    PROVE  Cardinality(A) + Cardinality(B) + Cardinality(C) + Cardinality(E) <= Cardinality(D)
<1>1. Apart(A, B, D)
  BY TwoParts
<1>2. PICK U \in SUBSET D : U = A \cup B
  OBVIOUS
<1>3. Apart(U, C, D)
  <2>1. U \cap C = {}
    BY <1>2
  <2> QED
    BY <2>1, TwoParts
<1>4. PICK V \in SUBSET D : V = U \cup C
  OBVIOUS
<1>5. V \cap E = {}
  BY <1>2, <1>4
<1>6. Apart(V, E, D)
  BY <1>5, TwoParts
<1> QED
  BY <1>1, <1>2, <1>3, <1>4, <1>6 DEF Apart

\* The positions of the requests that ended well, and of the others.
Oks(q) == {i \in DOMAIN q : q[i].ok}
NotOks(q) == {i \in DOMAIN q : ~ q[i].ok}

LEMMA OksAndOthers ==
    ASSUME NEW q \in Seq(Outcomes)
    PROVE  /\ Ok(q) \in Seq(Outcomes) /\ NotOk(q) \in Seq(Outcomes)
           /\ Len(Ok(q)) = Cardinality(Oks(q)) /\ Len(NotOk(q)) = Cardinality(NotOks(q))
           /\ Len(Ok(q)) + Len(NotOk(q)) = Len(q)
           /\ Len(Ok(q)) = 0 <=> \A i \in DOMAIN q : ~ q[i].ok
<1>1. PICK n \in Nat : n = Len(q) /\ DOMAIN q = 1 .. n
  OBVIOUS
<1>2. Oks(q) \in SUBSET (1 .. n) /\ NotOks(q) \in SUBSET (1 .. n)
  BY <1>1 DEF Oks, NotOks
<1>3. Oks(q) \cap NotOks(q) = {} /\ Oks(q) \cup NotOks(q) = 1 .. n
  BY <1>1 DEF Oks, NotOks
<1>4. IsFiniteSet(1 .. n) /\ Cardinality(1 .. n) = n
  <2>1. 1 \in Int /\ n \in Int
    OBVIOUS
  <2>2. IsFiniteSet(1 .. n) /\ Cardinality(1 .. n) = IF 1 > n THEN 0 ELSE n - 1 + 1
    BY <2>1, FS_Interval, Zenon
  <2> QED
    BY <2>2
<1>5. Cardinality(Oks(q) \cup NotOks(q)) = Cardinality(Oks(q)) + Cardinality(NotOks(q))
  BY <1>2, <1>3, <1>4, TwoParts DEF Apart
<1>6. \A i \in 1 .. n : q[i] \in Outcomes
  BY <1>1
<1>7. Ok(q) = Picked(q, Oks(q)) /\ NotOk(q) = Picked(q, NotOks(q))
  BY DEF Ok, NotOk, Oks, NotOks
<1>8. Picked(q, Oks(q)) \in Seq(Outcomes) /\ Picked(q, NotOks(q)) \in Seq(Outcomes)
  <2>1. \A i \in Oks(q) : q[i] \in Outcomes
    BY <1>2, <1>6
  <2>2. \A i \in NotOks(q) : q[i] \in Outcomes
    BY <1>2, <1>6
  <2> QED
    BY <1>1, <1>2, <2>1, <2>2, PickedType
<1>9. /\ Len(Picked(q, Oks(q))) = Cardinality(Oks(q))
      /\ Cardinality(Oks(q)) \in Nat /\ IsFiniteSet(Oks(q))
  BY <1>1, <1>2, PickedLen
<1>10. Len(Picked(q, NotOks(q))) = Cardinality(NotOks(q)) /\ Cardinality(NotOks(q)) \in Nat
  BY <1>1, <1>2, PickedLen
<1>11. Len(Ok(q)) = Cardinality(Oks(q)) /\ Len(NotOk(q)) = Cardinality(NotOks(q))
  BY <1>7, <1>9, <1>10
<1>12. Len(Ok(q)) + Len(NotOk(q)) = Len(q)
  BY <1>1, <1>3, <1>4, <1>5, <1>11
<1>13. Cardinality(Oks(q)) = 0 <=> Oks(q) = {}
  BY <1>9, FS_EmptySet
<1>14. Oks(q) = {} <=> \A i \in DOMAIN q : ~ q[i].ok
  BY DEF Oks
<1> QED
  BY <1>7, <1>8, <1>11, <1>12, <1>13, <1>14

\* Errors of different kinds are not the same requests.
LEMMA ErrorsApart ==
    ASSUME NEW failed \in Seq(Outcomes)
    PROVE  HowMany(failed, "http") + HowMany(failed, "timeout")
             + HowMany(failed, "malformed_stream") + HowMany(failed, "context_overflow")
             <= Len(failed)
<1> DEFINE with(e) == {i \in DOMAIN failed : failed[i].error = e}
<1>1. PICK n \in Nat : n = Len(failed) /\ DOMAIN failed = 1 .. n
  OBVIOUS
<1>2. IsFiniteSet(1 .. n) /\ Cardinality(1 .. n) = n
  <2>1. 1 \in Int /\ n \in Int
    OBVIOUS
  <2>2. IsFiniteSet(1 .. n) /\ Cardinality(1 .. n) = IF 1 > n THEN 0 ELSE n - 1 + 1
    BY <2>1, FS_Interval, Zenon
  <2> QED
    BY <2>2
<1>3. PICK A \in SUBSET (1 .. n), B \in SUBSET (1 .. n), C \in SUBSET (1 .. n), E \in SUBSET (1 .. n) :
         /\ A = with("http") /\ B = with("timeout")
         /\ C = with("malformed_stream") /\ E = with("context_overflow")
  BY <1>1
<1>4. A \cap B = {} /\ (A \cup B) \cap C = {} /\ (A \cup B \cup C) \cap E = {}
  BY <1>3
<1>5. Cardinality(A) + Cardinality(B) + Cardinality(C) + Cardinality(E) <= Cardinality(1 .. n)
  BY <1>2, <1>4, FourParts
<1>6. /\ HowMany(failed, "http") = Cardinality(A) /\ HowMany(failed, "timeout") = Cardinality(B)
      /\ HowMany(failed, "malformed_stream") = Cardinality(C)
      /\ HowMany(failed, "context_overflow") = Cardinality(E)
  BY <1>3 DEF HowMany
<1> QED
  BY <1>1, <1>2, <1>5, <1>6

\* The values that are given are numbers.
LEMMA GivenType ==
    ASSUME NEW options \in Seq(SUBSET Nat)
    PROVE  Given(options) \in Seq(Int)
<1>1. PICK P : P = {i \in DOMAIN options : options[i] # {}}
  OBVIOUS
<1>2. P \in SUBSET (1 .. Len(options)) /\ \A i \in P : options[i] \in (SUBSET Nat) \ {{}}
  BY <1>1
<1>3. PICK given \in Seq((SUBSET Nat) \ {{}}) : given = Picked(options, P)
  BY <1>2, PickedType
<1>4. Given(options) = [k \in DOMAIN given |-> CHOOSE v \in given[k] : TRUE]
  BY <1>1, <1>3 DEF Given
<1>5. ASSUME NEW k \in DOMAIN given PROVE (CHOOSE v \in given[k] : TRUE) \in Int
  <2>1. given[k] \in (SUBSET Nat) \ {{}}
    BY <1>3, <1>5
  <2>2. (CHOOSE v \in given[k] : TRUE) \in given[k]
    BY <2>1
  <2> QED
    BY <2>1, <2>2
<1>6. PICK f : f = [k \in DOMAIN given |-> CHOOSE v \in given[k] : TRUE]
  OBVIOUS
<1>7. f \in [DOMAIN given -> Int]
  BY <1>5, <1>6
<1>8. f \in Seq(Int)
  BY <1>7, SeqOver
<1> QED
  BY <1>4, <1>6, <1>8

LEMMA GapsType ==
    ASSUME NEW ok \in Seq(Outcomes)
    PROVE  Gaps(ok) \in Seq(Int)
<1>1. PICK f : f = [i \in DOMAIN ok |-> ok[i].itls]
  OBVIOUS
<1>2. ASSUME NEW i \in DOMAIN ok PROVE ok[i].itls \in Seq(Nat)
  <2>1. ok[i] \in Outcomes
    BY <1>2
  <2> QED
    BY <2>1 DEF Outcomes
<1>3. f \in [DOMAIN ok -> Seq(Nat)]
  BY <1>1, <1>2
<1>4. f \in Seq(Seq(Nat))
  BY <1>3, SeqOver
<1>5. FlattenSeq(f) \in Seq(Nat)
  BY <1>4, FlattenType
<1>6. FlattenSeq(f) \in Seq(Int)
  BY <1>5
<1> QED
  BY <1>1, <1>6 DEF Gaps

\* What is found out of the requests q.
MetricsHold(q, m) ==
    /\ m.completed \in Nat /\ m.failed \in Nat /\ m.completed + m.failed = Len(q)
    /\ m.total = Len(q) /\ m.output \in Int /\ m.output >= 0
    /\ m.http + m.timeouts + m.malformed + m.overflow <= m.failed
    /\ m.completed = 0 <=> \A i \in DOMAIN q : ~ q[i].ok
    /\ InOrder(m.ttft) /\ InOrder(m.itl) /\ InOrder(m.latency)

LEMMA TokensType ==
    ASSUME NEW ok \in Seq(Outcomes)
    PROVE  SumOf([i \in DOMAIN ok |-> ok[i].output]) \in Int
           /\ SumOf([i \in DOMAIN ok |-> ok[i].output]) >= 0
<1>1. PICK f : f = [i \in DOMAIN ok |-> ok[i].output]
  OBVIOUS
<1>2. ASSUME NEW i \in DOMAIN ok PROVE ok[i].output \in Nat
  <2>1. ok[i] \in Outcomes
    BY <1>2
  <2> QED
    BY <2>1 DEF Outcomes
<1>3. f \in [DOMAIN ok -> Nat]
  BY <1>1, <1>2
<1>4. f \in Seq(Nat)
  BY <1>3, SeqOver
<1>5. SumOf(f) \in Nat
  BY <1>4, SumOfNats
<1> QED
  BY <1>1, <1>5

\* What is measured of a request is a number, or several.
LEMMA MeasuredTypes ==
    ASSUME NEW ok \in Seq(Outcomes)
    PROVE  /\ Given([i \in DOMAIN ok |-> ok[i].ttft]) \in Seq(Int)
           /\ [i \in DOMAIN ok |-> ok[i].latency] \in Seq(Int)
<1>1. ASSUME NEW i \in DOMAIN ok PROVE ok[i].ttft \in SUBSET Nat /\ ok[i].latency \in Nat
  <2>1. ok[i] \in Outcomes
    BY <1>1
  <2> QED
    BY <2>1 DEF Outcomes
<1>2. PICK f, g : f = [i \in DOMAIN ok |-> ok[i].ttft] /\ g = [i \in DOMAIN ok |-> ok[i].latency]
  OBVIOUS
<1>3. f \in [DOMAIN ok -> SUBSET Nat] /\ g \in [DOMAIN ok -> Int]
  BY <1>1, <1>2
<1>4. f \in Seq(SUBSET Nat)
  BY <1>3, SeqOver
<1>5. g \in Seq(Int)
  BY <1>3, SeqOver
<1>6. Given(f) \in Seq(Int)
  BY <1>4, GivenType
<1> QED
  BY <1>2, <1>5, <1>6

LEMMA AggregatedHolds ==
    ASSUME NEW q \in Seq(Outcomes), NEW workload, NEW duration
    PROVE  MetricsHold(q, Aggregated(q, workload, duration))
<1>1. PICK ok, failed : ok = Ok(q) /\ failed = NotOk(q)
  OBVIOUS
<1>2. PICK m : m = Aggregated(q, workload, duration)
  OBVIOUS
<1>3. /\ m.completed = Len(ok) /\ m.failed = Len(failed) /\ m.total = Len(q)
      /\ m.http = HowMany(failed, "http") /\ m.timeouts = HowMany(failed, "timeout")
      /\ m.malformed = HowMany(failed, "malformed_stream")
      /\ m.overflow = HowMany(failed, "context_overflow")
  BY <1>1, <1>2 DEF Aggregated
<1>4. m.output = SumOf([i \in DOMAIN ok |-> ok[i].output])
  BY <1>1, <1>2 DEF Aggregated
<1>5. /\ m.ttft = Distribution(Given([i \in DOMAIN ok |-> ok[i].ttft]))
      /\ m.itl = Distribution(Gaps(ok))
      /\ m.latency = Distribution([i \in DOMAIN ok |-> ok[i].latency])
  BY <1>1, <1>2 DEF Aggregated
<1>6. /\ ok \in Seq(Outcomes) /\ failed \in Seq(Outcomes) /\ Len(ok) + Len(failed) = Len(q)
      /\ Len(ok) = 0 <=> \A i \in DOMAIN q : ~ q[i].ok
  BY <1>1, OksAndOthers
<1>7. Len(ok) \in Nat /\ Len(failed) \in Nat
  BY <1>6
<1>8. m.output \in Int /\ m.output >= 0
  BY <1>4, <1>6, TokensType
<1>9. m.http + m.timeouts + m.malformed + m.overflow <= m.failed
  BY <1>3, <1>6, ErrorsApart
<1>10. InOrder(m.ttft)
  BY <1>5, <1>6, MeasuredTypes, DistributionInOrder
<1>11. InOrder(m.itl)
  BY <1>5, <1>6, GapsType, DistributionInOrder
<1>12. InOrder(m.latency)
  BY <1>5, <1>6, MeasuredTypes, DistributionInOrder
<1>13. MetricsHold(q, m)
  BY <1>3, <1>6, <1>7, <1>8, <1>9, <1>10, <1>11, <1>12 DEF MetricsHold
<1> QED
  BY <1>2, <1>13

\* What the state of a verdict says of what was measured.
LEMMA VerdictSays ==
    ASSUME NEW q, NEW m, Len(q) \in Nat, MetricsHold(q, m), NEW osl \in Nat, NEW differ
    PROVE  LET state == Evaluate(m, osl, {}, differ).state
           IN /\ state = "INVALID" <=> m.completed = 0
              /\ state = "VALID" =>
                   /\ m.completed >= MinSamples \/ 2 * m.failed >= Len(q)
                   /\ 5 * m.output >= 4 * osl * m.completed
<1> DEFINE state == Evaluate(m, osl, {}, differ).state
<1>1. /\ m.completed \in Nat /\ m.failed \in Nat /\ m.total = Len(q)
      /\ m.output \in Int /\ m.output >= 0
  BY DEF MetricsHold
<1>2. state = IF m.completed = 0 THEN "INVALID"
              ELSE IF TooFew(m) \/ HighVariance(m) \/ TooShort(m, osl) \/ differ # {}
                   THEN "VALID_WITH_WARNINGS" ELSE "VALID"
  <2>1. {} \cap Hard = {}
    OBVIOUS
  <2> QED
    BY <2>1 DEF Evaluate
<1> HIDE DEF state
<1>3. state = "INVALID" <=> m.completed = 0
  BY <1>2
<1>4. ASSUME state = "VALID"
      PROVE  /\ m.completed >= MinSamples \/ 2 * m.failed >= Len(q)
             /\ 5 * m.output >= 4 * osl * m.completed
  <2>1. ~ TooFew(m) /\ ~ TooShort(m, osl) /\ m.completed # 0
    BY <1>2, <1>4
  <2>2. MinSamples \in Nat
    BY VerdictAssumption
  <2>3. m.completed >= MinSamples \/ 2 * m.failed >= Len(q)
    BY <1>1, <2>1, <2>2 DEF TooFew
  <2>4. CASE osl = 0
    <3>1. 4 * osl * m.completed = 0
      BY <1>1, <2>4
    <3> QED
      BY <1>1, <2>3, <3>1
  <2>5. CASE osl > 0
    <3>1. ~ (5 * m.output < 4 * osl * m.completed)
      BY <2>1, <2>5 DEF TooShort
    <3>2. 4 * osl * m.completed \in Int /\ 5 * m.output \in Int
      <4>1. PICK n \in Nat, o \in Int : n = m.completed /\ o = m.output
        BY <1>1
      <4>2. 4 * osl * n \in Int /\ 5 * o \in Int
        OBVIOUS
      <4> QED
        BY <4>1, <4>2
    <3> QED
      BY <2>3, <3>1, <3>2
  <2> QED
    BY <2>4, <2>5
<1> QED
  BY <1>3, <1>4 DEF state

\* The inductive invariant of the verdict: what was measured was measured of the
\* requests there are.
VerdictInv ==
    /\ result # {} => pc = "judged"
    /\ \A c \in result :
         /\ MetricsHold(requests, c.metrics) /\ c.workload = Workload
         /\ \E differ : c.verdict = Evaluate(c.metrics, Workload.osl, {}, differ)

LEMMA VerdictInit == Init => VerdictInv
  BY DEF Init, VerdictInv

LEMMA VerdictStep == RequestInv /\ VerdictInv /\ [Next]_vars => VerdictInv'
<1> SUFFICES ASSUME RequestInv, VerdictInv, [Next]_vars PROVE VerdictInv'
  OBVIOUS
<1>1. ASSUME pc # "judged", result' = result PROVE VerdictInv'
  BY <1>1 DEF VerdictInv
<1>2. CASE Discover
  BY <1>1, <1>2 DEF Discover
<1>3. CASE Inspect
  BY <1>1, <1>3 DEF Inspect
<1>4. CASE Setup
  BY <1>1, <1>4 DEF Setup
<1>5. CASE Prepare
  BY <1>1, <1>5 DEF Prepare
<1>6. CASE Begin
  BY <1>1, <1>6 DEF Begin
<1>7. CASE Send
  BY <1>1, <1>7 DEF Send
<1>8. CASE Accept
  BY <1>1, <1>8 DEF Accept
<1>9. CASE Refuse
  BY <1>1, <1>9 DEF Refuse
<1>10. CASE Raise
  BY <1>1, <1>10 DEF Raise
<1>11. CASE StreamEnds
  BY <1>1, <1>11 DEF StreamEnds
<1>12. CASE Break
  BY <1>1, <1>12 DEF Break
<1>13. CASE Recorded
  BY <1>1, <1>13 DEF Recorded
<1>14. CASE \E line \in Lines : Receive(line)
  BY <1>1, <1>14 DEF Receive
<1>15. CASE Judge
  <2>1. PICK scrape \in Scrapes, series \in GpuSeries : result' = {Measured(scrape, series)}
    BY <1>15 DEF Judge
  <2>2. pc' = "judged" /\ requests' = requests
    BY <1>15 DEF Judge
  <2>3. PICK c : c = Measured(scrape, series)
    OBVIOUS
  <2>4. PICK m : m = Aggregated(requests, Workload, Duration)
    OBVIOUS
  <2>5. PICK differ : differ = Discrepancies(adapter, m, Parsed(scrape.pre), Parsed(scrape.post))
    OBVIOUS
  <2>6. c.metrics = m /\ c.workload = Workload /\ c.verdict = Evaluate(m, Workload.osl, {}, differ)
    BY <2>3, <2>4, <2>5 DEF Measured
  <2>7. requests \in Seq(Outcomes)
    BY DEF RequestInv
  <2>8. MetricsHold(requests, m)
    BY <2>4, <2>7, AggregatedHolds
  <2>9. result' = {c}
    BY <2>1, <2>3
  <2> QED
    BY <2>2, <2>6, <2>8, <2>9 DEF VerdictInv
<1>16. CASE UNCHANGED vars
  BY <1>16 DEF VerdictInv, vars
<1> QED
  BY <1>2, <1>3, <1>4, <1>5, <1>6, <1>7, <1>8, <1>9, <1>10, <1>11, <1>12, <1>13, <1>14, <1>15,
     <1>16 DEF Next

LEMMA MeasuredIsHonest == RequestInv /\ VerdictInv => VerdictIsHonest
<1> SUFFICES ASSUME RequestInv, VerdictInv, NEW c \in result
             PROVE  /\ MetricsHold(requests, c.metrics)
                    /\ c.verdict.state = "INVALID" <=> \A i \in DOMAIN requests : ~ requests[i].ok
                    /\ c.verdict.state = "VALID" =>
                         /\ c.metrics.completed >= MinSamples
                              \/ 2 * c.metrics.failed >= Len(requests)
                         /\ 5 * c.metrics.output >= 4 * c.workload.osl * c.metrics.completed
  BY DEF VerdictIsHonest, MetricsHold, InOrder
<1>1. PICK m : m = c.metrics
  OBVIOUS
<1>2. /\ MetricsHold(requests, m) /\ c.workload = Workload
      /\ \E differ : c.verdict = Evaluate(m, Workload.osl, {}, differ)
  BY <1>1 DEF VerdictInv
<1>3. PICK differ : c.verdict = Evaluate(m, Workload.osl, {}, differ)
  BY <1>2
<1>4. Len(requests) \in Nat /\ Workload.osl \in Nat
  BY WorkloadAssumption DEF RequestInv
<1>5. PICK state : state = c.verdict.state
  OBVIOUS
<1>6. /\ state = "INVALID" <=> m.completed = 0
      /\ state = "VALID" =>
            /\ m.completed >= MinSamples \/ 2 * m.failed >= Len(requests)
            /\ 5 * m.output >= 4 * Workload.osl * m.completed
  BY <1>2, <1>3, <1>4, <1>5, VerdictSays
<1>7. m.completed = 0 <=> \A i \in DOMAIN requests : ~ requests[i].ok
  BY <1>2 DEF MetricsHold
<1> QED
  BY <1>1, <1>2, <1>5, <1>6, <1>7

\* Every request of a cell is counted once, as completed or as failed; a cell is
\* INVALID exactly when no request of it ended well, and VALID only with enough
\* requests of enough tokens; its percentiles are in order: for every server and
\* every number of requests, of any length (metrics/aggregate.py,
\* integrity/check.py).
THEOREM VerdictHolds == Spec => []VerdictIsHonest
<1>1. Init => VerdictInv
  BY VerdictInit
<1>2. RequestInv /\ RequestInv' /\ VerdictInv /\ [Next]_vars => VerdictInv'
  BY VerdictStep
<1>3. Spec => []RequestInv
  BY RequestsAgree
<1> QED
  BY <1>1, <1>2, <1>3, MeasuredIsHonest, PTL DEF Spec

-----------------------------------------------------------------------------
\* Discovery

\* The adapters in turn, and how sure each is.
LEMMA AdaptersAre ==
    DOMAIN Adapters = {1, 2} /\ Adapters[1] = "vllm" /\ Adapters[2] = "llamacpp"
  BY DEF Adapters

\* The most confident adapter, the first of two that are as sure.
LEMMA DetectedIs ==
    ASSUME NEW meta, NEW x \in Nat, NEW y \in Nat,
           x = Confidence("vllm", meta), y = Confidence("llamacpp", meta)
    PROVE  Detected(meta) = IF x = 0 /\ y = 0 THEN "generic-openai"
                            ELSE IF x >= y THEN "vllm" ELSE "llamacpp"
<1> DEFINE s == [i \in DOMAIN Adapters |-> Confidence(Adapters[i], meta)]
           best == MaxOf(s)
           at == {i \in DOMAIN Adapters : Confidence(Adapters[i], meta) = best}
           first == CHOOSE i \in at : \A j \in at : i =< j
<1>1. Detected(meta) = IF best = 0 THEN "generic-openai" ELSE Adapters[first]
  BY DEF Detected
<1>2. DOMAIN s = {1, 2} /\ s[1] = x /\ s[2] = y
  BY AdaptersAre
<1>3. best = IF x >= y THEN x ELSE y
  <2> HIDE DEF s
  <2>1. {s[i] : i \in DOMAIN s} = {x, y}
    BY <1>2
  <2>2. PICK z \in Nat : z = IF x >= y THEN x ELSE y
    OBVIOUS
  <2>3. \A u \in {x, y} : (\A i \in DOMAIN s : s[i] =< u) <=> u = z
    BY <1>2, <2>2
  <2>4. z \in {x, y}
    BY <2>2
  <2>5. MaxOf(s) = z
    BY <2>1, <2>3, <2>4 DEF MaxOf
  <2> QED
    BY <2>2, <2>5
<1> HIDE DEF best
<1>4. at \subseteq {1, 2} /\ (1 \in at <=> x = best) /\ (2 \in at <=> y = best)
  BY AdaptersAre
<1> HIDE DEF at, s
<1>5. CASE x >= y
  <2>1. 1 \in at /\ best = x
    BY <1>3, <1>4, <1>5
  <2>2. \A i \in at : (\A j \in at : i =< j) <=> i = 1
    BY <1>4, <2>1
  <2>3. first = 1
    BY <2>1, <2>2
  <2> HIDE DEF first
  <2>4. Detected(meta) = IF x = 0 THEN "generic-openai" ELSE "vllm"
    BY <1>1, <2>1, <2>3, AdaptersAre
  <2> QED
    BY <1>5, <2>4
<1>6. CASE ~ (x >= y)
  <2>1. best = y /\ x # y /\ y # 0
    BY <1>3, <1>6
  <2>2. 1 \notin at /\ 2 \in at
    BY <1>4, <2>1
  <2>3. at = {2}
    BY <1>4, <2>2
  <2>4. first = 2
    BY <2>3
  <2> HIDE DEF first
  <2>5. Detected(meta) = "llamacpp"
    BY <1>1, <2>1, <2>4, AdaptersAre
  <2> QED
    BY <1>6, <2>1, <2>5
<1> QED
  BY <1>5, <1>6

\* What the metrics, the version and the processes say of the engine.
LEMMA EngineOf ==
    ASSUME NEW server \in Targets, NEW asked, NEW meta, meta = Discovered(server, asked)
    PROVE  /\ "vllm" \in server.metrics => Detected(meta) = "vllm"
           /\ "llama" \in server.metrics /\ "vllm" \notin server.metrics =>
                Detected(meta) = "llamacpp"
           /\ server.metrics = {} /\ ~ server.version => Detected(meta) = "generic-openai"
<1>1. /\ server.metrics \subseteq {"vllm", "llama", "sglang", "tgi"}
      /\ server.version \in BOOLEAN
  BY TargetsAssumption DEF HintOf
<1>2. PICK hints : /\ hints = meta.hints
                   /\ hints = {HintOf[w] : w \in server.metrics}
                                \cup (IF server.processes # {} THEN {"proc-inspection"} ELSE {})
  BY Zenon DEF Discovered
<1>3. /\ HintOf["vllm"] = "vllm" /\ HintOf["llama"] = "llamacpp"
      /\ HintOf["sglang"] = "sglang" /\ HintOf["tgi"] = "tgi"
  BY DEF HintOf
<1>4. "vllm" \in hints <=> "vllm" \in server.metrics
  BY <1>1, <1>2, <1>3
<1>5. "llamacpp" \in hints <=> "llama" \in server.metrics
  BY <1>1, <1>2, <1>3
<1>6. meta.version = server.version
  BY Zenon DEF Discovered
<1>7. PICK x \in Nat : /\ x = Confidence("vllm", meta)
                       /\ x = (IF "vllm" \in hints THEN 7 ELSE 0) + (IF server.version THEN 1 ELSE 0)
  BY <1>2, <1>6 DEF Confidence, VllmDetect, AsDict
<1>8. PICK y \in Nat : y = Confidence("llamacpp", meta) /\ y = IF "llamacpp" \in hints THEN 7 ELSE 0
  BY <1>2 DEF Confidence, LlamaCppDetect, AsDict
<1>9. Detected(meta) = IF x = 0 /\ y = 0 THEN "generic-openai"
                       ELSE IF x >= y THEN "vllm" ELSE "llamacpp"
  BY <1>7, <1>8, DetectedIs
<1>10. ASSUME "vllm" \in server.metrics PROVE Detected(meta) = "vllm"
  BY <1>4, <1>7, <1>8, <1>9, <1>10
<1>11. ASSUME "llama" \in server.metrics, "vllm" \notin server.metrics
       PROVE  Detected(meta) = "llamacpp"
  BY <1>4, <1>5, <1>7, <1>8, <1>9, <1>11
<1>12. ASSUME server.metrics = {}, ~ server.version PROVE Detected(meta) = "generic-openai"
  BY <1>4, <1>5, <1>7, <1>8, <1>9, <1>12
<1> QED
  BY <1>10, <1>11, <1>12

-----------------------------------------------------------------------------
\* The configuration

\* An argument of a command line, or what a switch without a value stands for.
IsSaid(args, v) == v = Word("true") \/ \E i \in DOMAIN args : args[i] = v

LEMMA ValueIsSaid ==
    ASSUME NEW a, NEW args, NEW key, NEW v \in Value(a, args, key)
    PROVE  IsSaid(args, v)
  BY DEF Value, IsSaid

LEMMA FirstIsOne ==
    ASSUME NEW values, NEW v \in FirstOf(values)
    PROVE  \E i \in DOMAIN values : v \in values[i]
  BY DEF FirstOf

LEMMA TextsAreSaid ==
    ASSUME NEW a, NEW args, NEW table, NEW o \in Texts(a, args, table)
    PROVE  o[1] \in DOMAIN table /\ IsSaid(args, o[2])
<1>1. PICK f \in DOMAIN table : \E v \in FirstOf([i \in DOMAIN table[f] |-> Value(a, args, table[f][i])]) :
                                   o = <<f, v>>
  BY DEF Texts
<1>2. PICK values : values = [i \in DOMAIN table[f] |-> Value(a, args, table[f][i])]
  OBVIOUS
<1>3. PICK v \in FirstOf(values) : o = <<f, v>>
  BY <1>1, <1>2
<1>4. PICK i \in DOMAIN values : v \in values[i]
  BY FirstIsOne
<1>5. v \in Value(a, args, table[f][i])
  BY <1>2, <1>4
<1>6. IsSaid(args, v)
  BY <1>5, ValueIsSaid
<1> QED
  BY <1>3, <1>6

LEMMA SwitchesAreNamed ==
    ASSUME NEW a, NEW args, NEW table, NEW off, NEW o \in Switches(a, args, table, off)
    PROVE  o[1] \in DOMAIN table
<1>1. PICK p \in Texts(a, args, table) :
         o = <<p[1], Word(IF p[2].dashes = 0 /\ p[2].name \in off THEN "off" ELSE "on")>>
  BY DEF Switches
<1>2. p[1] \in DOMAIN table
  BY TextsAreSaid
<1> QED
  BY <1>1, <1>2

\* A number is an argument: the word that stands for a value left out is none.
LEMMA NumberIsArgument ==
    ASSUME NEW args, NEW v, IsSaid(args, v), IsNumber(v)
    PROVE  \E i \in DOMAIN args : args[i] = v
<1>1. ~ IsNumber(Word("true"))
  BY NumeralsAssumption DEF IsNumber, Word
<1> QED
  BY <1>1 DEF IsSaid

\* The context length of a deployment is an argument.
ContextIsSaid(args, options) ==
    \A o \in options : o[1] = "max_model_len" => \E i \in DOMAIN args : args[i] = o[2]

LEMMA VllmContext ==
    ASSUME NEW args
    PROVE  ContextIsSaid(args, VllmOptions(args))
<1>1. ASSUME NEW o \in VllmOptions(args), o[1] = "max_model_len"
      PROVE  \E i \in DOMAIN args : args[i] = o[2]
  <2>1. CASE o \in Texts("vllm", args, VllmTexts)
    <3>1. o[1] \in DOMAIN VllmTexts
      BY <2>1, TextsAreSaid
    <3> QED
      BY <1>1, <3>1 DEF VllmTexts
  <2>2. CASE o \in Numbers(args, VllmNumbers)
    <3>1. o \in Texts("vllm", args, VllmNumbers) /\ IsNumber(o[2])
      BY <2>2 DEF Numbers
    <3>2. IsSaid(args, o[2])
      BY <3>1, TextsAreSaid
    <3> QED
      BY <3>1, <3>2, NumberIsArgument
  <2>3. CASE o \in Switches("vllm", args, VllmSwitches, {"false", "False", "0"})
    <3>1. o[1] \in DOMAIN VllmSwitches
      BY <2>3, SwitchesAreNamed
    <3> QED
      BY <1>1, <3>1 DEF VllmSwitches
  <2>4. CASE o \in Texts("vllm", args, VllmDrafts)
    <3>1. o[1] \in DOMAIN VllmDrafts
      BY <2>4, TextsAreSaid
    <3> QED
      BY <1>1, <3>1 DEF VllmDrafts
  <2>5. CASE o = <<"speculative_decoding", Word("mtp")>>
    BY <1>1, <2>5
  <2> QED
    BY <1>1, <2>1, <2>2, <2>3, <2>4, <2>5 DEF VllmOptions
<1> QED
  BY <1>1 DEF ContextIsSaid

LEMMA LlamaCppContext ==
    ASSUME NEW args
    PROVE  ContextIsSaid(args, LlamaCppOptions(args))
<1>1. ASSUME NEW o \in LlamaCppOptions(args), o[1] = "max_model_len"
      PROVE  \E i \in DOMAIN args : args[i] = o[2]
  <2>1. CASE o \in Texts("llamacpp", args, LlamaCppTexts)
    <3>1. o[1] \in DOMAIN LlamaCppTexts
      BY <2>1, TextsAreSaid
    <3> QED
      BY <1>1, <3>1 DEF LlamaCppTexts
  <2>2. CASE o \in LlamaCppCounts(args)
    <3> DEFINE Count(key) == {v \in Value("llamacpp", args, key) : IsNumber(v) /\ v.name # "0"}
    <3>1. PICK f \in DOMAIN LlamaCppNumbers :
             \E v \in FirstOf([i \in DOMAIN LlamaCppNumbers[f] |-> Count(LlamaCppNumbers[f][i])]) :
                o = <<f, v>>
      BY <2>2 DEF LlamaCppCounts
    <3>2. PICK values : values = [i \in DOMAIN LlamaCppNumbers[f] |-> Count(LlamaCppNumbers[f][i])]
      OBVIOUS
    <3>3. PICK v \in FirstOf(values) : o = <<f, v>>
      BY <3>1, <3>2
    <3>4. PICK i \in DOMAIN values : v \in values[i]
      BY FirstIsOne
    <3>5. v \in Value("llamacpp", args, LlamaCppNumbers[f][i]) /\ IsNumber(v)
      BY <3>2, <3>4
    <3>6. IsSaid(args, v)
      BY <3>5, ValueIsSaid
    <3> QED
      BY <3>3, <3>5, <3>6, NumberIsArgument
  <2>3. CASE o[1] = "tensor_parallel"
    BY <1>1, <2>3
  <2>4. CASE o \in Switches("llamacpp", args, [flash_attention |-> <<"fa">>], {"false", "False", "0"})
    <3>1. PICK table : table = [flash_attention |-> <<"fa">>]
      OBVIOUS
    <3>2. o[1] \in DOMAIN table
      BY <2>4, <3>1, SwitchesAreNamed
    <3> QED
      BY <1>1, <3>1, <3>2
  <2>5. CASE o \in Switches("llamacpp", args, [mmap |-> <<"mmap">>, mlock |-> <<"mlock">>],
                            {"false", "0"})
    <3>1. PICK table : table = [mmap |-> <<"mmap">>, mlock |-> <<"mlock">>]
      OBVIOUS
    <3>2. o[1] \in DOMAIN table
      BY <2>5, <3>1, SwitchesAreNamed
    <3> QED
      BY <1>1, <3>1, <3>2
  <2> QED
    BY <1>1, <2>1, <2>2, <2>3, <2>4, <2>5 DEF LlamaCppOptions
<1> QED
  BY <1>1 DEF ContextIsSaid

\* The server names its model.
HasModel(meta) == meta.model # ""

\* What a configuration says.
ConfigurationSays(found, a, meta) ==
    /\ found.engine = a /\ found.version = meta.version
    /\ HasModel(meta) => found.model = {Word(meta.model)}
    /\ found.deployment.args = <<>> =>
         found.deployment.options = {<<"max_model_len", l>> : l \in meta.max_len}
    /\ found.deployment.args # <<>> =>
         ContextIsSaid(found.deployment.args, found.deployment.options)

LEMMA ConfigurationIs ==
    ASSUME NEW a, NEW meta, NEW process
    PROVE  ConfigurationSays(Configuration(a, meta, process), a, meta)
<1> DEFINE found == Configuration(a, meta, process)
           told == [options |-> {<<"max_model_len", l>> : l \in meta.max_len},
                    args |-> <<>>, env |-> {}]
           seen == UNION {IF p.args = <<>> THEN {} ELSE {Normalized(a, p)} : p \in process}
<1>1. found.engine = a
  BY Zenon DEF Configuration
<1>2. found.version = meta.version
  BY Zenon DEF Configuration
<1>3. HasModel(meta) => found.model = {Word(meta.model)}
  BY Zenon DEF Configuration, HasModel
<1>4. PICK deployed : deployed = found.deployment
  OBVIOUS
<1>5. deployed = IF seen = {} THEN told ELSE CHOOSE d \in seen : TRUE
  BY <1>4, Zenon DEF Configuration
<1> HIDE DEF found, seen
<1> SUFFICES /\ deployed.args = <<>> =>
                  deployed.options = {<<"max_model_len", l>> : l \in meta.max_len}
             /\ deployed.args # <<>> => ContextIsSaid(deployed.args, deployed.options)
  BY <1>1, <1>2, <1>3, <1>4, Zenon DEF ConfigurationSays, found
<1>6. CASE seen = {}
  BY <1>5, <1>6
<1>7. CASE seen # {}
  <2>1. deployed \in seen
    BY <1>5, <1>7
  <2>2. PICK p \in process : p.args # <<>> /\ deployed = Normalized(a, p)
    BY <2>1 DEF seen
  <2>3. deployed.args = p.args
    BY <2>2 DEF Normalized
  <2>4. deployed.options = CASE a = "vllm" -> VllmOptions(p.args)
                             [] a = "llamacpp" -> LlamaCppOptions(p.args)
                             [] OTHER -> {}
    BY <2>2 DEF Normalized
  <2>5. CASE a = "vllm"
    <3>1. deployed.options = VllmOptions(p.args)
      BY <2>4, <2>5
    <3> QED
      BY <2>2, <2>3, <3>1, VllmContext
  <2>6. CASE a = "llamacpp"
    <3>1. deployed.options = LlamaCppOptions(p.args)
      BY <2>4, <2>6
    <3> QED
      BY <2>2, <2>3, <3>1, LlamaCppContext
  <2>7. CASE a # "vllm" /\ a # "llamacpp"
    <3>1. deployed.options = {}
      BY <2>4, <2>7
    <3>2. ContextIsSaid(p.args, {})
      BY DEF ContextIsSaid
    <3> QED
      BY <2>2, <2>3, <3>1, <3>2
  <2> QED
    BY <2>5, <2>6, <2>7
<1> QED
  BY <1>6, <1>7

\* The inductive invariant of what was found out of the server.
EngineInv ==
    /\ pc \in {"start", "inspect", "setup"} => config = {}
    /\ Single(target)
    /\ \A t \in target :
         /\ \E server \in Targets, asked \in Asked :
              t.server = server /\ t.meta = Discovered(server, asked)
         /\ adapter = Detected(t.meta)
         /\ \A c \in config : \E process : c.found = Configuration(adapter, t.meta, process)

LEMMA EngineInit == Init => EngineInv
  BY DEF Init, EngineInv, Single

LEMMA EngineStep == EngineInv /\ [Next]_vars => EngineInv'
<1> SUFFICES ASSUME EngineInv, [Next]_vars PROVE EngineInv'
  OBVIOUS
<1>1. ASSUME UNCHANGED <<target, adapter, config>>,
             pc' \in {"start", "inspect", "setup"} => pc \in {"start", "inspect", "setup"}
      PROVE  EngineInv'
  BY <1>1 DEF EngineInv, Single
<1>2. CASE Discover
  <2>1. PICK server \in Targets, asked \in Asked :
           /\ target' = {[server |-> server, meta |-> Discovered(server, asked)]}
           /\ adapter' = Detected(Discovered(server, asked))
    BY <1>2 DEF Discover
  <2>2. PICK meta : meta = Discovered(server, asked)
    OBVIOUS
  <2>3. PICK t : t = [server |-> server, meta |-> meta]
    OBVIOUS
  <2>4. target' = {t} /\ adapter' = Detected(meta) /\ t.server = server /\ t.meta = meta
    BY <2>1, <2>2, <2>3
  <2>5. config' = {}
    BY <1>2 DEF Discover, EngineInv
  <2> QED
    BY <2>2, <2>4, <2>5 DEF EngineInv, Single
<1>3. CASE Inspect
  BY <1>1, <1>3 DEF Inspect
<1>4. CASE Setup
  <2>1. PICK t \in target : \E process \in FoundProcess(t.server.processes) :
           config' = {[found |-> Configuration(adapter, t.meta, process),
                       id |-> ConfigurationId(Configuration(adapter, t.meta, process), t.meta)]}
    BY <1>4 DEF Setup
  <2>2. PICK process, id :
           config' = {[found |-> Configuration(adapter, t.meta, process), id |-> id]}
    BY <2>1
  <2>3. UNCHANGED <<target, adapter>> /\ pc' = "filed"
    BY <1>4 DEF Setup
  <2>4. PICK c : c.found = Configuration(adapter, t.meta, process) /\ config' = {c}
    BY <2>2
  <2>5. \A u \in target : u = t
    BY DEF EngineInv, Single
  <2> QED
    BY <2>3, <2>4, <2>5 DEF EngineInv
<1>5. CASE Prepare
  <2>1. target' = {} /\ config' = {}
    BY <1>5 DEF Prepare
  <2> QED
    BY <2>1 DEF EngineInv, Single
<1>6. CASE Begin
  BY <1>1, <1>6 DEF Begin
<1>7. CASE Send
  BY <1>1, <1>7 DEF Send
<1>8. CASE Accept
  BY <1>1, <1>8 DEF Accept
<1>9. CASE Refuse
  BY <1>1, <1>9 DEF Refuse, Ends
<1>10. CASE Raise
  BY <1>1, <1>10 DEF Raise
<1>11. CASE StreamEnds
  BY <1>1, <1>11 DEF StreamEnds, Ends
<1>12. CASE Break
  BY <1>1, <1>12 DEF Break, Ends
<1>13. CASE Recorded
  BY <1>1, <1>13 DEF Recorded
<1>14. CASE \E line \in Lines : Receive(line)
  <2>1. PICK line \in Lines : Receive(line)
    BY <1>14
  <2>2. UNCHANGED <<target, adapter, config>> /\ pc' \in {pc, "ended"}
    BY <2>1 DEF Receive, Ends
  <2> QED
    BY <1>1, <2>2
<1>15. CASE Judge
  BY <1>1, <1>15 DEF Judge
<1>16. CASE UNCHANGED vars
  BY <1>1, <1>16 DEF vars
<1> QED
  BY <1>2, <1>3, <1>4, <1>5, <1>6, <1>7, <1>8, <1>9, <1>10, <1>11, <1>12, <1>13, <1>14, <1>15,
     <1>16 DEF Next

LEMMA DiscoveredVersion ==
    ASSUME NEW server, NEW asked
    PROVE  Discovered(server, asked).version = server.version
  BY Zenon DEF Discovered

\* What was found out is what the property says.
LEMMA FoundIsRecognised == EngineInv => EngineIsRecognised
<1> SUFFICES ASSUME EngineInv, NEW t \in target
             PROVE  /\ "vllm" \in t.server.metrics => adapter = "vllm"
                    /\ "llama" \in t.server.metrics /\ "vllm" \notin t.server.metrics =>
                         adapter = "llamacpp"
                    /\ t.server.metrics = {} /\ ~ t.server.version => adapter = "generic-openai"
                    /\ \A c \in config : /\ ConfigurationSays(c.found, adapter, t.meta)
                                         /\ t.meta.version = t.server.version
  BY Zenon DEF EngineIsRecognised, ConfigurationSays, ContextIsSaid, HasModel
<1>1. PICK server \in Targets, asked \in Asked :
         t.server = server /\ t.meta = Discovered(server, asked)
  BY DEF EngineInv
<1>2. adapter = Detected(t.meta)
  BY DEF EngineInv
<1>3. PICK meta : meta = t.meta /\ meta = Discovered(server, asked) /\ adapter = Detected(meta)
  BY <1>1, <1>2
<1>4. /\ "vllm" \in server.metrics => adapter = "vllm"
      /\ "llama" \in server.metrics /\ "vllm" \notin server.metrics => adapter = "llamacpp"
      /\ server.metrics = {} /\ ~ server.version => adapter = "generic-openai"
  BY <1>3, EngineOf
<1>5. meta.version = server.version
  BY <1>3, DiscoveredVersion
<1>6. ASSUME NEW c \in config PROVE ConfigurationSays(c.found, adapter, t.meta)
  <2>1. PICK process : c.found = Configuration(adapter, t.meta, process)
    BY DEF EngineInv
  <2>2. ConfigurationSays(Configuration(adapter, t.meta, process), adapter, t.meta)
    BY ConfigurationIs
  <2> QED
    BY <2>1, <2>2
<1> QED
  BY <1>1, <1>3, <1>4, <1>5, <1>6

\* A server is taken for the engine whose metrics it shows, and the run is filed
\* under that engine, the model and the context length it told, or under what
\* the command line of the process found says: for every server, model and
\* command line (discovery/discover.py, cli/main.py, adapters).
THEOREM EngineHolds == Spec => []EngineIsRecognised
  BY EngineInit, EngineStep, FoundIsRecognised, PTL DEF Spec

-----------------------------------------------------------------------------
\* The machine behind the server

\* The machine the inspection runs on.
LEMMA ReachedIs ==
    ASSUME NEW client \in Clients, NEW ssh \in {{}} \cup {{m} : m \in Remotes}
    PROVE  /\ Reached(client, ssh) \in Clients \cup Remotes
           /\ ssh = {} => Reached(client, ssh) = client
           /\ ssh # {} => ssh = {Reached(client, ssh)}
  BY DEF Reached

\* Every GPU and what is known of it is of the machine m.
GpusAreOf(gpus, m) ==
    \A i \in DOMAIN gpus : \A f \in DOMAIN gpus[i] : gpus[i][f].of = m.name

LEMMA PlacesAre ==
    ASSUME NEW f \in DOMAIN Places
    PROVE  Places[f] \in 1 .. 14
<1>1. f \in {"name", "memory", "sm_clock_max", "mem_clock_max", "power_limit", "ecc", "link_gen",
             "link_width"}
  BY DEF Places
<1>2. /\ Places["name"] = 1 /\ Places["memory"] = 3 /\ Places["sm_clock_max"] = 8
      /\ Places["mem_clock_max"] = 9 /\ Places["power_limit"] = 10 /\ Places["ecc"] = 11
      /\ Places["link_gen"] = 13 /\ Places["link_width"] = 14
  BY DEF Places
<1>3. Places[f] \in {1, 3, 8, 9, 10, 11, 13, 14}
  BY <1>1, <1>2, Zenon
<1> QED
  BY <1>3

LEMMA RowsAreOf ==
    ASSUME NEW name, NEW row \in Seq([of : {name}, column : Nat]), Len(row) >= 14
    PROVE  \A f \in DOMAIN GpuInfo(row) : GpuInfo(row)[f].of = name
<1>2. PICK R : R = [of : {name}, column : Nat]
  OBVIOUS
<1>3. PICK n \in Nat : n = Len(row) /\ n >= 14 /\ DOMAIN row = 1 .. n
  OBVIOUS
<1>6. \A k \in 1 .. n : row[k] \in R
  <2>1. row \in Seq(R)
    BY <1>2
  <2> QED
    BY <1>3, <2>1
<1>4. ASSUME NEW f \in DOMAIN Places PROVE row[Places[f]].of = name
  <2>1. Places[f] \in 1 .. 14
    BY PlacesAre
  <2>2. PICK k : k = Places[f]
    OBVIOUS
  <2>4. k \in 1 .. 14
    BY <2>1, <2>2, Zenon
  <2>5. k \in 1 .. n
    BY <1>3, <2>4
  <2>3. row[k].of = name
    BY <1>2, <1>6, <2>5
  <2> QED
    BY <2>2, <2>3
<1>5. GpuInfo(row) = [f \in DOMAIN Places |-> row[Places[f]]]
  BY DEF GpuInfo
<1> QED
  BY <1>4, <1>5

LEMMA GpusOf ==
    ASSUME NEW m \in Clients \cup Remotes
    PROVE  GpusAreOf(Gpus(m), m)
<1>1. CASE m.answers = "yes" /\ m.smi /\ m.rows # {}
  <2>1. PICK rows \in m.rows : rows = CHOOSE r \in m.rows : TRUE
    BY <1>1
  <2>2. rows \in Seq(Seq([of : {m.name}, column : Nat]))
    BY <2>1, MachinesAssumption
  <2>3. PICK P : P = {i \in DOMAIN rows : Len(rows[i]) >= 14}
    OBVIOUS
  <2>4. PICK T : T = {row \in Seq([of : {m.name}, column : Nat]) : Len(row) >= 14}
    OBVIOUS
  <2>5. P \in SUBSET (1 .. Len(rows)) /\ \A i \in P : rows[i] \in T
    <3>1. PICK R : R = Seq([of : {m.name}, column : Nat])
      OBVIOUS
    <3>2. rows \in Seq(R)
      BY <2>2, <3>1
    <3>3. \A i \in 1 .. Len(rows) : rows[i] \in R
      BY <3>2
    <3>4. P \in SUBSET (1 .. Len(rows))
      BY <2>3, <3>2
    <3>5. \A i \in P : rows[i] \in R /\ Len(rows[i]) >= 14
      BY <2>3, <3>3, <3>4
    <3> QED
      BY <2>4, <3>1, <3>4, <3>5
  <2>6. PICK full \in Seq(T) : full = Picked(rows, P)
    BY <2>2, <2>5, PickedType
  <2>7. Gpus(m) = [i \in DOMAIN full |-> GpuInfo(full[i])]
    BY <1>1, <2>1, <2>3, <2>6 DEF Gpus
  <2>8. ASSUME NEW i \in DOMAIN full
        PROVE  \A f \in DOMAIN GpuInfo(full[i]) : GpuInfo(full[i])[f].of = m.name
    <3>1. full[i] \in T
      BY <2>6, <2>8
    <3>2. PICK row : row = full[i] /\ row \in Seq([of : {m.name}, column : Nat]) /\ Len(row) >= 14
      BY <2>4, <3>1
    <3> QED
      BY <3>2, RowsAreOf
  <2> QED
    BY <1>1, <2>7, <2>8 DEF GpusAreOf
<1>2. CASE ~ (m.answers = "yes" /\ m.smi /\ m.rows # {})
  <2>1. PICK n : n = IF Says(m, "card") = {} THEN 0 ELSE 1
    OBVIOUS
  <2>2. Gpus(m) = [i \in 1 .. n |-> [name |-> [of |-> m.name, column |-> 0]]]
    BY <1>2, <2>1 DEF Gpus
  <2>3. n = 0 \/ (n = 1 /\ m.answers = "yes" /\ "card" \in m.tells)
    BY <2>1 DEF Says
  <2>4. \A i \in DOMAIN Gpus(m) : \A f \in DOMAIN Gpus(m)[i] : Gpus(m)[i][f].of = m.name
    BY <2>2
  <2>5. CASE n = 0
    <3>1. Gpus(m) = <<>>
      BY <2>2, <2>5
    <3> QED
      BY <2>4, <3>1 DEF GpusAreOf
  <2>6. CASE n # 0
    BY <2>3, <2>4, <2>6 DEF GpusAreOf
  <2> QED
    BY <2>5, <2>6
<1> QED
  BY <1>1, <1>2

\* The readings are of the machine the inspection is of.
LEMMA ReadingsOf ==
    ASSUME NEW client \in Clients, NEW ssh \in {{}} \cup {{m} : m \in Remotes},
           NEW sampler, sampler = Sampler(client, ssh), NEW read, read = ReadFrom(sampler, client, ssh)
    PROVE  /\ read \subseteq {Reached(client, ssh).name}
           /\ read # {} => Source(sampler) = IF ssh = {} THEN "nvidia-smi" ELSE "nvidia-smi-ssh"
<1>1. CASE ssh = {} /\ client.smi
  <2>1. sampler = [over_ssh |-> FALSE, available |-> TRUE]
    BY <1>1 DEF Sampler, Mode
  <2>2. Source(sampler) = "nvidia-smi" /\ read \subseteq {client.name}
    BY <2>1 DEF Source, ReadFrom
  <2> QED
    BY <1>1, <2>2, ReachedIs
<1>2. CASE ~ (ssh = {} /\ client.smi)
  <2>1. sampler.over_ssh = TRUE
    BY <1>2 DEF Sampler, Mode
  <2>2. read = {m.name : m \in {x \in ssh : sampler.available /\ x.answers = "yes" /\ x.smi}}
    BY <2>1 DEF ReadFrom
  <2>3. read # {} => ssh # {} /\ sampler.available
    BY <2>2
  <2>4. read # {} => Source(sampler) = "nvidia-smi-ssh"
    BY <2>1, <2>3 DEF Source
  <2>5. read \subseteq {Reached(client, ssh).name}
    BY <2>2, ReachedIs
  <2> QED
    BY <2>3, <2>4, <2>5
<1> QED
  BY <1>1, <1>2

\* What is known of the machine, before and after the executor is made.
HostSays(h, client, ssh) ==
    /\ h.client = client /\ h.ssh = ssh /\ h.hardware = Inspected(client, ssh)
    /\ h.read \subseteq {Reached(client, ssh).name}
    /\ h.read # {} => h.source = {IF ssh = {} THEN "nvidia-smi" ELSE "nvidia-smi-ssh"}

\* The inductive invariant of the machine.
HostInv ==
    \A h \in host :
        /\ DOMAIN h = {"client", "ssh", "hardware", "names", "source", "read"}
        /\ \E client \in Clients, ssh \in {{}} \cup {{m} : m \in Remotes} : HostSays(h, client, ssh)

LEMMA HostInit == Init => HostInv
  BY DEF Init, HostInv

LEMMA HostStep == HostInv /\ [Next]_vars => HostInv'
<1> SUFFICES ASSUME HostInv, [Next]_vars PROVE HostInv'
  OBVIOUS
<1>1. ASSUME host' = host PROVE HostInv'
  BY <1>1 DEF HostInv
<1>2. ASSUME NEW h, NEW client \in Clients, NEW ssh \in {{}} \cup {{m} : m \in Remotes},
             host' = {h}, HostSays(h, client, ssh),
             DOMAIN h = {"client", "ssh", "hardware", "names", "source", "read"}
      PROVE  HostInv'
  BY <1>2 DEF HostInv
<1>3. CASE Discover
  BY <1>1, <1>3 DEF Discover
<1>4. CASE Inspect
  <2>1. PICK client \in Clients, ssh \in {{}} \cup {{m} : m \in Remotes} :
           host' = {[client |-> client, ssh |-> ssh, hardware |-> Inspected(client, ssh),
                     names |-> NewSanitizer, source |-> {}, read |-> {}]}
    BY <1>4 DEF Inspect
  <2>2. PICK hardware, names : hardware = Inspected(client, ssh) /\ names = NewSanitizer
    OBVIOUS
  <2>3. PICK h : h = [client |-> client, ssh |-> ssh, hardware |-> hardware,
                      names |-> names, source |-> {}, read |-> {}]
    OBVIOUS
  <2>5. HostSays(h, client, ssh)
    BY <2>2, <2>3 DEF HostSays
  <2>6. host' = {h} /\ DOMAIN h = {"client", "ssh", "hardware", "names", "source", "read"}
    BY <2>1, <2>2, <2>3
  <2> QED
    BY <1>2, <2>5, <2>6
<1>5. CASE Setup
  BY <1>1, <1>5 DEF Setup
<1>6. CASE Prepare
  <2>1. PICK h \in host, address \in Addresses, no_gpu \in BOOLEAN :
           LET sampler == Sampler(h.client, h.ssh)
           IN host' = {[h EXCEPT !.names = Names(h.ssh, address),
                                 !.source = IF no_gpu THEN {} ELSE {Source(sampler)},
                                 !.read = IF no_gpu THEN {} ELSE ReadFrom(sampler, h.client, h.ssh)]}
    BY <1>6, Zenon DEF Prepare
  <2>2. PICK client \in Clients, ssh \in {{}} \cup {{m} : m \in Remotes} : HostSays(h, client, ssh)
    BY DEF HostInv
  <2>3. h.client = client /\ h.ssh = ssh /\ h.hardware = Inspected(client, ssh)
    BY <2>2 DEF HostSays
  <2>4. PICK names, sampler : names = Names(ssh, address) /\ sampler = Sampler(client, ssh)
    OBVIOUS
  <2>5. PICK source, read : /\ source = IF no_gpu THEN {} ELSE {Source(sampler)}
                            /\ read = IF no_gpu THEN {} ELSE ReadFrom(sampler, client, ssh)
    OBVIOUS
  <2>6. PICK g : g = [h EXCEPT !.names = names, !.source = source, !.read = read]
    OBVIOUS
  <2>7. host' = {g}
    BY <2>1, <2>3, <2>4, <2>5, <2>6
  <2>8. DOMAIN h = {"client", "ssh", "hardware", "names", "source", "read"}
    BY DEF HostInv
  <2>9. /\ g.client = client /\ g.ssh = ssh /\ g.hardware = h.hardware
        /\ g.names = names /\ g.source = source /\ g.read = read
    BY <2>3, <2>6, <2>8
  <2>13. DOMAIN g = {"client", "ssh", "hardware", "names", "source", "read"}
    BY <2>6, <2>8
  <2>11. CASE no_gpu
    <3>1. source = {} /\ read = {}
      BY <2>5, <2>11
    <3>2. HostSays(g, client, ssh)
      BY <2>3, <2>9, <3>1 DEF HostSays
    <3> QED
      BY <1>2, <2>7, <2>13, <3>2
  <2>12. CASE ~ no_gpu
    <3>1. source = {Source(sampler)} /\ read = ReadFrom(sampler, client, ssh)
      BY <2>5, <2>12
    <3>2. /\ read \subseteq {Reached(client, ssh).name}
          /\ read # {} => Source(sampler) = IF ssh = {} THEN "nvidia-smi" ELSE "nvidia-smi-ssh"
      BY <2>4, <3>1, ReadingsOf
    <3>3. HostSays(g, client, ssh)
      BY <2>3, <2>9, <3>1, <3>2 DEF HostSays
    <3> QED
      BY <1>2, <2>7, <2>13, <3>3
  <2> QED
    BY <2>11, <2>12
<1>7. CASE Begin
  <2>1. host' = {}
    BY <1>7 DEF Begin
  <2> QED
    BY <2>1 DEF HostInv
<1>8. CASE Send
  BY <1>1, <1>8 DEF Send
<1>9. CASE Accept
  BY <1>1, <1>9 DEF Accept
<1>10. CASE Refuse
  BY <1>1, <1>10 DEF Refuse
<1>11. CASE Raise
  BY <1>1, <1>11 DEF Raise
<1>12. CASE StreamEnds
  BY <1>1, <1>12 DEF StreamEnds
<1>13. CASE Break
  BY <1>1, <1>13 DEF Break
<1>14. CASE Recorded
  BY <1>1, <1>14 DEF Recorded
<1>15. CASE \E line \in Lines : Receive(line)
  BY <1>1, <1>15 DEF Receive
<1>16. CASE Judge
  BY <1>1, <1>16 DEF Judge
<1>17. CASE UNCHANGED vars
  BY <1>1, <1>17 DEF vars
<1> QED
  BY <1>3, <1>4, <1>5, <1>6, <1>7, <1>8, <1>9, <1>10, <1>11, <1>12, <1>13, <1>14, <1>15, <1>16,
     <1>17 DEF Next

LEMMA SaidIsDeployed ==
    ASSUME NEW h, NEW client \in Clients, NEW ssh \in {{}} \cup {{m} : m \in Remotes},
           HostSays(h, client, ssh)
    PROVE  /\ GpusAreOf(h.hardware.gpus, Deployed(h)) /\ h.read \subseteq {Deployed(h).name}
           /\ h.read # {} => h.source = {IF h.ssh = {} THEN "nvidia-smi" ELSE "nvidia-smi-ssh"}
<1>1. PICK m : m = Reached(client, ssh)
  OBVIOUS
<1>2. h.client = client /\ h.ssh = ssh /\ Deployed(h) = m
  BY <1>1 DEF HostSays, Deployed
<1>3. PICK hardware : hardware = Inspected(client, ssh) /\ hardware = h.hardware
  BY DEF HostSays
<1>4. hardware.gpus = Gpus(m)
  BY <1>1, <1>3 DEF Inspected
<1>5. GpusAreOf(Gpus(m), m)
  BY <1>1, ReachedIs, GpusOf
<1> QED
  BY <1>1, <1>2, <1>3, <1>4, <1>5 DEF HostSays

LEMMA HostIsOfGpus == HostInv => GpusAreDeployed
<1> SUFFICES ASSUME HostInv, NEW h \in host
             PROVE  /\ GpusAreOf(h.hardware.gpus, Deployed(h))
                    /\ h.read \subseteq {Deployed(h).name}
                    /\ h.read # {} => h.source = {IF h.ssh = {} THEN "nvidia-smi" ELSE "nvidia-smi-ssh"}
  BY Zenon DEF GpusAreDeployed, GpusAreOf
<1>1. PICK client \in Clients, ssh \in {{}} \cup {{m} : m \in Remotes} : HostSays(h, client, ssh)
  BY DEF HostInv
<1> QED
  BY <1>1, SaidIsDeployed

\* The GPUs of hardware.json and the GPU readings of the cells are of the machine
\* --ssh-gpu names, and of the client without it: for every client, every machine
\* and whatever nvidia-smi says there (discovery/host.py, telemetry/gpu.py).
THEOREM HostHolds == Spec => []GpusAreDeployed
  BY HostInit, HostStep, HostIsOfGpus, PTL DEF Spec

-----------------------------------------------------------------------------
\* The greatest of finitely many

\* Of finitely many things some is beaten by none, if beating is transitive and
\* nothing beats itself.
LEMMA NobodyBeatsIt ==
    ASSUME NEW S, IsFiniteSet(S), S # {}, NEW beats,
           \A x \in S : <<x, x>> \notin beats,
           \A x, y, z \in S : <<x, y>> \in beats /\ <<y, z>> \in beats => <<x, z>> \in beats
    PROVE  \E m \in S : \A x \in S : <<x, m>> \notin beats
<1> DEFINE Beaten(m) == {x \in S : <<x, m>> \in beats}
           counts == {Cardinality(Beaten(m)) : m \in S}
<1>1. \A m \in S : IsFiniteSet(Beaten(m)) /\ Cardinality(Beaten(m)) \in Nat
  BY FS_Subset, FS_CardinalityType
<1>2. counts \subseteq Nat /\ counts # {}
  <2> HIDE DEF Beaten
  <2> QED
    BY <1>1
<1>3. PICK least \in counts : \A n \in counts : least <= n
  <2> HIDE DEF counts
  <2> QED
    BY <1>2, LeastNat
<1>4. PICK m \in S : least = Cardinality(Beaten(m))
  BY <1>3
<1>5. ASSUME NEW x \in S, <<x, m>> \in beats
      PROVE  FALSE
  <2>1. Beaten(x) \subseteq Beaten(m) /\ x \in Beaten(m) /\ x \notin Beaten(x)
    BY <1>5
  <2>2. Cardinality(Beaten(x)) < Cardinality(Beaten(m))
    <3> HIDE DEF Beaten
    <3>1. Cardinality(Beaten(x)) <= Cardinality(Beaten(m)) /\ Cardinality(Beaten(x)) # Cardinality(Beaten(m))
      BY <1>1, <2>1, FS_Subset
    <3> QED
      BY <1>1, <3>1
  <2>3. least <= Cardinality(Beaten(x))
    <3> HIDE DEF Beaten
    <3> QED
      BY <1>3
  <2> HIDE DEF Beaten
  <2> QED
    BY <1>1, <1>4, <2>2, <2>3
<1> QED
  BY <1>5

Ratios == [num : Int, den : Nat \ {0}]

LEMMA Cross ==
    ASSUME NEW a \in Int, NEW b \in Int, NEW c \in Int,
           NEW p \in Nat \ {0}, NEW q \in Nat \ {0}, NEW r \in Nat \ {0},
           a * q > b * p, b * r > c * q
    PROVE  a * r > c * p
<1>1. (a * q) * r > (b * p) * r /\ (b * r) * p > (c * q) * p
  OBVIOUS
<1>2. (b * p) * r = (b * r) * p
  OBVIOUS
<1>3. (a * r) * q > (c * p) * q
  BY <1>1, <1>2
<1> QED
  BY <1>3

LEMMA AboveIsOrder ==
    /\ \A x \in Ratios : ~ Above(x, x)
    /\ \A x, y, z \in Ratios : Above(x, y) /\ Above(y, z) => Above(x, z)
<1>1. ASSUME NEW x \in Ratios PROVE ~ Above(x, x)
  BY DEF Above, Ratios
<1>2. ASSUME NEW x \in Ratios, NEW y \in Ratios, NEW z \in Ratios, Above(x, y), Above(y, z)
      PROVE  Above(x, z)
  <2>1. /\ x.num \in Int /\ y.num \in Int /\ z.num \in Int
        /\ x.den \in Nat \ {0} /\ y.den \in Nat \ {0} /\ z.den \in Nat \ {0}
    BY DEF Ratios
  <2>2. x.num * y.den > y.num * x.den /\ y.num * z.den > z.num * y.den
    BY <1>2 DEF Above
  <2>3. x.num * z.den > z.num * x.den
    BY <2>1, <2>2, Cross
  <2> QED
    BY <2>3 DEF Above
<1> QED
  BY <1>1, <1>2

\* Among finitely many things, each with its ratio, one has the greatest.
LEMMA SomeIsGreatest ==
    ASSUME NEW S, IsFiniteSet(S), S # {}, NEW value \in [S -> Ratios]
    PROVE  \E m \in S : \A x \in S : ~ Above(value[x], value[m])
<1> DEFINE beats == {p \in S \X S : Above(value[p[1]], value[p[2]])}
<1>1. \A x, y \in S : <<x, y>> \in beats <=> Above(value[x], value[y])
  OBVIOUS
<1>2. /\ \A x \in S : <<x, x>> \notin beats
      /\ \A x, y, z \in S : <<x, y>> \in beats /\ <<y, z>> \in beats => <<x, z>> \in beats
  BY <1>1, AboveIsOrder
<1>3. \E m \in S : \A x \in S : <<x, m>> \notin beats
  <2> HIDE DEF beats
  <2> QED
    BY <1>2, NobodyBeatsIt
<1> QED
  BY <1>1, <1>3
-----------------------------------------------------------------------------
\* What a run publishes

Results == {RunResult(cells) : cells \in Seq(Cells)}

\* A number of a run is that of one of its cells, and of a valid one unless the
\* run is INVALID.
Shown(r, row) == r.integrity_state # "INVALID" => row.integrity_state # "INVALID"

ResultIsHonest(r) ==
    /\ r.summary.peak_aggregate_tps \subseteq Ratios
    /\ \A p, q \in r.summary.peak_aggregate_tps : p = q
    /\ \A p \in r.summary.peak_aggregate_tps :
         \E row \in Elements(r.rows) : row.output_tps = p /\ Shown(r, row)
    /\ \A n \in r.summary.max_stable_concurrency :
         \E row \in Elements(r.rows) : row.workload.conc = n /\ Shown(r, row)

LEMMA GreatestIsOne ==
    ASSUME NEW S, S \subseteq Ratios, IsFiniteSet(S)
    PROVE  Greatest(S) \subseteq S /\ \A p, q \in Greatest(S) : p = q
<1>1. CASE S = {}
  BY <1>1 DEF Greatest
<1>2. CASE S # {}
  <2>1. \E r \in S : \A q \in S : ~ Above(q, r)
    <3>1. [x \in S |-> x] \in [S -> Ratios]
      OBVIOUS
    <3>2. \E m \in S : \A x \in S : ~ Above([y \in S |-> y][x], [y \in S |-> y][m])
      BY <1>2, <3>1, SomeIsGreatest
    <3> QED
      BY <3>2
  <2>2. (CHOOSE r \in S : \A q \in S : ~ Above(q, r)) \in S
    BY <2>1, Zenon
  <2>3. Greatest(S) = {CHOOSE r \in S : \A q \in S : ~ Above(q, r)}
    BY <1>2 DEF Greatest
  <2> QED
    BY <2>2, <2>3
<1> QED
  BY <1>1, <1>2

\* The cells a run's numbers are made of.
LEMMA PoolIs ==
    ASSUME NEW cells \in Seq(Cells)
    PROVE  /\ Pool(cells) \in Seq(Cells)
           /\ Elements(Pool(cells)) \subseteq Cells /\ IsFiniteSet(Elements(Pool(cells)))
           /\ \A c \in Elements(Pool(cells)) : \E i \in DOMAIN cells :
                cells[i] = c /\ (IsValid(c.verdict) \/ \A j \in DOMAIN cells : ~ IsValid(cells[j].verdict))
<1> DEFINE P == {i \in DOMAIN cells : IsValid(cells[i].verdict)}
<1>1. Trusted(cells) = Picked(cells, P)
  BY DEF Trusted
<1>2. P \in SUBSET (1 .. Len(cells)) /\ IsFiniteSet(P) /\ P \subseteq Nat
  <2>1. IsFiniteSet(1 .. Len(cells))
    BY FS_Interval
  <2> QED
    BY <2>1, FS_Subset
<1> DEFINE Good == {cells[i] : i \in P}
<1>3. Picked(cells, P) \in Seq(Good)
  BY <1>2, PickedType
<1>4. Picked(cells, P) = <<>> => P = {}
  <2>1. Len(Ascending(P)) = Cardinality(P) /\ Ascending(P) \in Seq(P)
    BY <1>2, AscendingType
  <2>2. Picked(cells, P) = [k \in DOMAIN Ascending(P) |-> cells[Ascending(P)[k]]]
    BY DEF Picked
  <2>3. Picked(cells, P) = <<>> => Cardinality(P) = 0
    <3> HIDE DEF P
    <3> QED
      BY <2>1, <2>2
  <2> QED
    BY <1>2, <2>3, FS_EmptySet
<1>5. \A c \in Good : \E i \in DOMAIN cells : cells[i] = c /\ IsValid(c.verdict)
  OBVIOUS
<1>6. \A T, s : s \in Seq(T) => Elements(s) \subseteq T /\ IsFiniteSet(Elements(s))
  <2> SUFFICES ASSUME NEW T, NEW s \in Seq(T)
               PROVE  Elements(s) \subseteq T /\ IsFiniteSet(Elements(s))
    OBVIOUS
  <2>1. Elements(s) \subseteq T
    BY DEF Elements
  <2>2. IsFiniteSet(1 .. Len(s)) /\ DOMAIN s = 1 .. Len(s)
    BY FS_Interval
  <2>3. s \in Surjection(1 .. Len(s), Elements(s))
    BY <2>2 DEF Surjection, Elements
  <2> QED
    BY <2>1, <2>2, <2>3, FS_Surjection
<1>7. CASE Picked(cells, P) = <<>>
  <2>1. Pool(cells) = cells
    BY <1>1, <1>7 DEF Pool
  <2>2. \A j \in DOMAIN cells : ~ IsValid(cells[j].verdict)
    BY <1>4, <1>7
  <2> QED
    BY <1>6, <2>1, <2>2 DEF Elements
<1>8. CASE Picked(cells, P) # <<>>
  <2>1. Pool(cells) = Picked(cells, P)
    BY <1>1, <1>8 DEF Pool
  <2>2. Good \subseteq Cells
    OBVIOUS
  <2> HIDE DEF Good, P
  <2>3. Pool(cells) \in Seq(Cells) /\ Elements(Pool(cells)) \subseteq Good
    BY <1>3, <1>6, <2>1, <2>2, SeqWidens
  <2> QED
    BY <1>5, <1>6, <2>3
<1> QED
  BY <1>7, <1>8

\* Only a run all of whose cells are invalid leaves its invalid cells in the pool,
\* and that run is INVALID.
LEMMA AllInvalid ==
    ASSUME NEW cells \in Seq(Cells), cells # <<>>,
           \A j \in DOMAIN cells : ~ IsValid(cells[j].verdict)
    PROVE  OverallState(Verdicts(cells)) = "INVALID"
<1>1. /\ DOMAIN Verdicts(cells) = 1 .. Len(cells) /\ Len(Verdicts(cells)) = Len(cells)
      /\ \A i \in 1 .. Len(cells) : Verdicts(cells)[i] = cells[i].verdict
      /\ Len(cells) \in Nat /\ Len(cells) > 0
  BY DEF Verdicts
<1>2. {i \in DOMAIN Verdicts(cells) : Verdicts(cells)[i].state = "INVALID"} = 1 .. Len(cells)
  BY <1>1 DEF IsValid
<1>3. PICK v, n : v = Verdicts(cells) /\ n = Len(cells)
  OBVIOUS
<1>4. n \in Int /\ n > 0 /\ Len(v) = n
  BY <1>1, <1>3
<1>5. {i \in DOMAIN v : v[i].state = "INVALID"} = 1 .. n
  BY <1>2, <1>3
<1>6. PICK invalid : invalid = Cardinality({i \in DOMAIN v : v[i].state = "INVALID"})
  OBVIOUS
<1>7. invalid = n
  <2>0. Cardinality({i \in DOMAIN v : v[i].state = "INVALID"}) = Cardinality(1 .. n)
    BY <1>5, Zenon
  <2>1. Cardinality(1 .. n) = IF 1 > n THEN 0 ELSE n - 1 + 1
    BY <1>4, FS_Interval
  <2> QED
    BY <1>4, <1>6, <2>0, <2>1
<1>8. 2 * invalid > Len(v)
  BY <1>4, <1>7
<1>9. OverallState(v) = "INVALID"
  <2>1. OverallState(v) =
          CASE 2 * invalid > Len(v) -> "INVALID"
            [] 2 * invalid =< Len(v)
                 /\ \E i \in DOMAIN v : v[i].state # "VALID" -> "VALID_WITH_WARNINGS"
            [] OTHER -> "VALID"
    BY <1>6, Zenon DEF OverallState
  <2>2. ~ (2 * invalid =< Len(v))
    BY <1>4, <1>7
  <2> QED
    BY <1>8, <2>1, <2>2
<1> QED
  BY <1>3, <1>9

LEMMA ResultHolds ==
    ASSUME NEW r \in Results
    PROVE  ResultIsHonest(r)
<1>1. PICK cells \in Seq(Cells) : r = RunResult(cells)
  BY DEF Results
<1> DEFINE pool == Elements(Pool(cells))
           speeds == {c.metrics.output_tps : c \in pool}
<1>2. /\ r.integrity_state = OverallState(Verdicts(cells)) /\ r.rows = Rows(cells)
      /\ r.summary = Kpis(cells)
  BY <1>1 DEF RunResult
<1>3. r.summary.peak_aggregate_tps = Greatest(speeds)
  BY <1>2 DEF Kpis
<1>4. r.summary.max_stable_concurrency =
        Most({c.workload.conc : c \in {d \in pool : IsClosedLoop(d)}})
  BY <1>2 DEF Kpis
<1>5. /\ pool \subseteq Cells /\ IsFiniteSet(pool)
      /\ \A c \in pool : \E i \in DOMAIN cells :
           cells[i] = c /\ (IsValid(c.verdict) \/ \A j \in DOMAIN cells : ~ IsValid(cells[j].verdict))
  BY PoolIs
<1>6. \A c \in pool : \E row \in Elements(r.rows) :
        row.output_tps = c.metrics.output_tps /\ row.workload = c.workload /\ Shown(r, row)
  <2> SUFFICES ASSUME NEW c \in pool
               PROVE  \E row \in Elements(r.rows) :
                        row.output_tps = c.metrics.output_tps /\ row.workload = c.workload /\ Shown(r, row)
    OBVIOUS
  <2> HIDE DEF pool
  <2>1. PICK i \in DOMAIN cells :
          cells[i] = c /\ (IsValid(c.verdict) \/ \A j \in DOMAIN cells : ~ IsValid(cells[j].verdict))
    BY <1>5
  <2>2. CellRow(c) \in Elements(r.rows)
    BY <1>2, <2>1 DEF Rows, Elements
  <2>3. /\ CellRow(c).output_tps = c.metrics.output_tps /\ CellRow(c).workload = c.workload
        /\ CellRow(c).integrity_state = c.verdict.state
    BY DEF CellRow
  <2>4. IsValid(c.verdict) => Shown(r, CellRow(c))
    BY <2>3 DEF Shown, IsValid
  <2>5. (\A j \in DOMAIN cells : ~ IsValid(cells[j].verdict)) => Shown(r, CellRow(c))
    BY <1>2, <2>1, AllInvalid DEF Shown
  <2> QED
    BY <2>1, <2>2, <2>3, <2>4, <2>5
<1>7. speeds \subseteq Ratios /\ IsFiniteSet(speeds)
  <2>1. speeds \subseteq Ratios
    <3> HIDE DEF pool
    <3> QED
      BY <1>5, CellsAssumption DEF Ratios
  <2>2. [c \in pool |-> c.metrics.output_tps] \in Surjection(pool, speeds)
    BY DEF Surjection
  <2> HIDE DEF pool, speeds
  <2> QED
    BY <1>5, <2>1, <2>2, FS_Surjection
<1>8. Greatest(speeds) \subseteq speeds /\ \A p, q \in Greatest(speeds) : p = q
  <2> HIDE DEF speeds
  <2> QED
    BY <1>7, GreatestIsOne
<1>9. \A p \in Greatest(speeds) : \E c \in pool : c.metrics.output_tps = p
  BY <1>8
<1>10. \A n \in Most({c.workload.conc : c \in {d \in pool : IsClosedLoop(d)}}) :
         \E c \in pool : c.workload.conc = n
  BY DEF Most
<1> HIDE DEF pool, speeds
<1>11. r.summary.peak_aggregate_tps \subseteq Ratios
  BY <1>3, <1>7, <1>8
<1>12. \A p, q \in r.summary.peak_aggregate_tps : p = q
  BY <1>3, <1>8
<1>13. \A p \in r.summary.peak_aggregate_tps :
         \E row \in Elements(r.rows) : row.output_tps = p /\ Shown(r, row)
  BY <1>3, <1>6, <1>9
<1>14. \A n \in r.summary.max_stable_concurrency :
         \E row \in Elements(r.rows) : row.workload.conc = n /\ Shown(r, row)
  BY <1>4, <1>6, <1>10
<1> QED
  BY <1>11, <1>12, <1>13, <1>14 DEF ResultIsHonest

-----------------------------------------------------------------------------
\* The configurations in order

\* What stands at some positions of a sequence is all there.
LEMMA PickedHolds ==
    ASSUME NEW T, NEW s \in Seq(T), NEW P \in SUBSET (1 .. Len(s))
    PROVE  Picked(s, P) \in Seq(T) /\ Elements(Picked(s, P)) = {s[i] : i \in P}
<1>1. P \subseteq Nat /\ IsFiniteSet(P)
  <2>1. Len(s) \in Nat
    OBVIOUS
  <2>2. IsFiniteSet(1 .. Len(s))
    BY <2>1, FS_Interval
  <2>3. IsFiniteSet(P)
    BY <2>2, FS_Subset, Zenon
  <2> QED
    BY <2>1, <2>3
<1>2. Picked(s, P) \in Seq(T)
  <2>1. \A i \in P : s[i] \in T
    OBVIOUS
  <2> QED
    BY <2>1, PickedType
<1>3. /\ Ascending(P) \in [1 .. Cardinality(P) -> P]
      /\ \A i \in P : \E k \in 1 .. Cardinality(P) : Ascending(P)[k] = i
  BY <1>1, AscendingType, AscendingOnto
<1>4. Picked(s, P) = [k \in 1 .. Cardinality(P) |-> s[Ascending(P)[k]]]
  BY <1>3 DEF Picked
<1>5. Elements(Picked(s, P)) = {s[Ascending(P)[k]] : k \in 1 .. Cardinality(P)}
  BY <1>4 DEF Elements
<1>6. {s[Ascending(P)[k]] : k \in 1 .. Cardinality(P)} = {s[i] : i \in P}
  BY <1>3
<1> QED
  BY <1>2, <1>5, <1>6

\* The positions at which something first occurs, in order.
Firsts(s) == {i \in DOMAIN s : \A j \in 1 .. i - 1 : s[j].config # s[i].config}
ConfigsOnce(s) == [k \in 1 .. Cardinality(Firsts(s)) |-> s[Ascending(Firsts(s))[k]].config]

LEMMA EachConfigOnce ==
    ASSUME NEW T, NEW s \in Seq(T)
    PROVE  /\ Cardinality(Firsts(s)) \in Nat
           /\ \A k \in DOMAIN ConfigsOnce(s) : \E x \in Elements(s) : x.config = ConfigsOnce(s)[k]
           /\ \A x \in Elements(s) : \E k \in DOMAIN ConfigsOnce(s) : ConfigsOnce(s)[k] = x.config
           /\ \A k, l \in DOMAIN ConfigsOnce(s) : ConfigsOnce(s)[k] = ConfigsOnce(s)[l] => k = l
<1> DEFINE F == Firsts(s)
           at == Ascending(F)
           n == Cardinality(F)
<1>1. DOMAIN s = 1 .. Len(s) /\ Len(s) \in Nat
  OBVIOUS
<1>2. F \subseteq 1 .. Len(s) /\ F \subseteq Nat /\ IsFiniteSet(F)
  <2>1. F \subseteq 1 .. Len(s) /\ F \subseteq Nat
    BY <1>1 DEF Firsts
  <2>2. IsFiniteSet(1 .. Len(s))
    BY <1>1, FS_Interval
  <2> HIDE DEF F
  <2> QED
    BY <2>1, <2>2, FS_Subset
<1>3. /\ n \in Nat /\ at \in [1 .. n -> F]
      /\ \A i \in F : \E k \in 1 .. n : at[k] = i
      /\ \A k, l \in 1 .. n : at[k] = at[l] => k = l
  <2> HIDE DEF F
  <2> QED
    BY <1>2, AscendingType, AscendingOnto
<1>4. ASSUME NEW x \in Elements(s)
      PROVE  \E i \in F : s[i].config = x.config
  <2> DEFINE B == {j \in 1 .. Len(s) : s[j].config = x.config}
  <2>1. B \subseteq Nat /\ B # {}
    BY <1>1, <1>4 DEF Elements
  <2>2. PICK m \in B : \A j \in B : m <= j
    <3> HIDE DEF B
    <3> QED
      BY <2>1, LeastNat
  <2>3. \A j \in 1 .. m - 1 : s[j].config # x.config
    <3> SUFFICES ASSUME NEW j \in 1 .. m - 1, s[j].config = x.config
                 PROVE  FALSE
      OBVIOUS
    <3>1. j \in B /\ j < m
      BY <1>1, <2>2
    <3> QED
      BY <2>1, <2>2, <3>1
  <2>4. m \in DOMAIN s /\ s[m].config = x.config
    BY <1>1, <2>2
  <2>5. m \in F
    BY <2>3, <2>4 DEF Firsts
  <2> QED
    BY <2>4, <2>5
<1>5. ASSUME NEW i \in F, NEW j \in F, s[i].config = s[j].config
      PROVE  i = j
  <2>1. i \in Nat /\ j \in Nat /\ i >= 1 /\ j >= 1
    BY <1>1 DEF Firsts
  <2>2. ~ (i \in 1 .. j - 1) /\ ~ (j \in 1 .. i - 1)
    BY <1>5 DEF Firsts
  <2> QED
    BY <2>1, <2>2
<1>6. ConfigsOnce(s) = [k \in 1 .. n |-> s[at[k]].config]
  BY DEF ConfigsOnce
<1>7. \A i \in F : s[i] \in Elements(s)
  BY <1>2 DEF Elements
<1> HIDE DEF F, at, n
<1>8. \A k \in 1 .. n : s[at[k]] \in Elements(s)
  BY <1>3, <1>7
<1>9. \A x \in Elements(s) : \E k \in 1 .. n : s[at[k]].config = x.config
  BY <1>3, <1>4
<1>10. \A k, l \in 1 .. n : s[at[k]].config = s[at[l]].config => k = l
  BY <1>3, <1>5
<1>11. Cardinality(Firsts(s)) \in Nat
  BY <1>3 DEF n, F
<1>12. DOMAIN ConfigsOnce(s) = 1 .. n /\ \A k \in 1 .. n : ConfigsOnce(s)[k] = s[at[k]].config
  BY <1>6
<1> QED
  BY <1>8, <1>9, <1>10, <1>11, <1>12

\* Every configuration has its place in the history, and one only.
LEMMA OrderHolds ==
    ASSUME NEW T, \A x \in T : x.config \in Nat, NEW records \in Seq(T)
    PROVE  /\ Len(ConfigOrder(records)) \in Nat
           /\ DOMAIN ConfigOrder(records) = 1 .. Len(ConfigOrder(records))
           /\ \A k \in DOMAIN ConfigOrder(records) : \E i \in DOMAIN records :
                records[i].config = ConfigOrder(records)[k]
           /\ \A i \in DOMAIN records : \E k \in DOMAIN ConfigOrder(records) :
                ConfigOrder(records)[k] = records[i].config
           /\ \A k, l \in DOMAIN ConfigOrder(records) :
                ConfigOrder(records)[k] = ConfigOrder(records)[l] => k = l
<1> DEFINE open == {i \in DOMAIN records : ~ records[i].ended}
           ByName == {p \in open \X open : records[p[1]].config < records[p[2]].config}
           rest == DOMAIN records \ open
           sorted == SliceStable(records, open, ByName) \o Picked(records, rest)
<1>1. DOMAIN records = 1 .. Len(records) /\ Len(records) \in Nat
  OBVIOUS
<1>2. /\ open \subseteq 1 .. Len(records) /\ open \subseteq Nat
      /\ rest \subseteq 1 .. Len(records) /\ open \cup rest = DOMAIN records
  BY <1>1
<1>3. IsFiniteSet(open)
  <2>1. IsFiniteSet(1 .. Len(records))
    BY <1>1, FS_Interval
  <2> HIDE DEF open
  <2> QED
    BY <1>2, <2>1, FS_Subset
<1>4. WeakOrder(open, ByName)
  <2>1. \A i \in open : records[i].config \in Nat
    OBVIOUS
  <2>2. \A i, j \in open : <<i, j>> \in ByName <=> records[i].config < records[j].config
    <3> HIDE DEF open
    <3> QED
      OBVIOUS
  <2> HIDE DEF open, ByName
  <2> QED
    BY <2>1, <2>2 DEF WeakOrder
<1>5. /\ SliceStable(records, open, ByName) \in Seq(T)
      /\ Elements(SliceStable(records, open, ByName)) = {records[i] : i \in open}
  <2> HIDE DEF open, ByName, rest
  <2>1. PICK at : PlacedAt(records, open, ByName, at)
    BY <1>2, <1>3, <1>4, SortPlaces
  <2>2. /\ at \in [1 .. Cardinality(open) -> open]
        /\ SliceStable(records, open, ByName) = [n \in 1 .. Cardinality(open) |-> records[at[n]]]
        /\ \A i \in open : \E n \in 1 .. Cardinality(open) : at[n] = i
    BY <2>1 DEF PlacedAt
  <2>3. Cardinality(open) \in Nat
    BY <1>3, FS_CardinalityType
  <2>4. \A i \in open : records[i] \in T
    BY <1>1, <1>2
  <2>5. SliceStable(records, open, ByName) \in [1 .. Cardinality(open) -> T]
    BY <2>2, <2>4
  <2>6. Elements(SliceStable(records, open, ByName)) = {records[at[n]] : n \in 1 .. Cardinality(open)}
    BY <2>2 DEF Elements
  <2>7. {records[at[n]] : n \in 1 .. Cardinality(open)} = {records[i] : i \in open}
    BY <2>2
  <2>8. SliceStable(records, open, ByName) \in Seq(T)
    BY <2>3, <2>5
  <2> QED
    BY <2>6, <2>7, <2>8
<1>6. /\ Picked(records, rest) \in Seq(T)
      /\ Elements(Picked(records, rest)) = {records[i] : i \in rest}
  <2> HIDE DEF open, rest
  <2> QED
    BY <1>2, PickedHolds
<1>7. sorted \in Seq(T) /\ Elements(sorted) = {records[i] : i \in DOMAIN records}
  <2> HIDE DEF open, ByName, rest
  <2>1. PICK a, b : a = SliceStable(records, open, ByName) /\ b = Picked(records, rest)
    OBVIOUS
  <2>2. a \in Seq(T) /\ b \in Seq(T)
    BY <1>5, <1>6, <2>1
  <2>3. Elements(a \o b) = Elements(a) \cup Elements(b)
    <3>1. DOMAIN (a \o b) = 1 .. Len(a) + Len(b)
      BY <2>2
    <3>2. \A i \in 1 .. Len(a) : i \in DOMAIN (a \o b) /\ (a \o b)[i] = a[i]
      BY <2>2, <3>1
    <3>3. \A i \in 1 .. Len(b) : Len(a) + i \in DOMAIN (a \o b) /\ (a \o b)[Len(a) + i] = b[i]
      BY <2>2, <3>1
    <3>4. \A i \in DOMAIN (a \o b) :
            (a \o b)[i] = IF i <= Len(a) THEN a[i] ELSE b[i - Len(a)]
      BY <2>2, <3>1
    <3>5. DOMAIN a = 1 .. Len(a) /\ DOMAIN b = 1 .. Len(b) /\ Len(a) \in Nat /\ Len(b) \in Nat
      BY <2>2
    <3>6. \A x \in Elements(a \o b) : x \in Elements(a) \cup Elements(b)
      BY <3>1, <3>4, <3>5 DEF Elements
    <3>7. \A x \in Elements(a) : x \in Elements(a \o b)
      BY <3>2, <3>5 DEF Elements
    <3>8. \A x \in Elements(b) : x \in Elements(a \o b)
      BY <3>3, <3>5 DEF Elements
    <3> QED
      BY <3>6, <3>7, <3>8
  <2>4. a \o b \in Seq(T)
    BY <2>2
  <2> QED
    BY <1>2, <1>5, <1>6, <2>1, <2>3, <2>4
<1>8. ConfigOrder(records) = ConfigsOnce(sorted)
  <2>1. ConfigOrder(records) =
          [k \in 1 .. Cardinality(Firsts(sorted)) |->
             sorted[CHOOSE i \in Firsts(sorted) :
                      Cardinality({j \in Firsts(sorted) : j < i}) = k - 1].config]
    BY Zenon DEF ConfigOrder, Firsts
  <2> HIDE DEF sorted
  <2>2. \A k \in 1 .. Cardinality(Firsts(sorted)) :
          Ascending(Firsts(sorted))[k] =
            CHOOSE i \in Firsts(sorted) : Cardinality({j \in Firsts(sorted) : j < i}) = k - 1
    BY DEF Ascending
  <2>3. ConfigsOnce(sorted) =
          [k \in 1 .. Cardinality(Firsts(sorted)) |-> sorted[Ascending(Firsts(sorted))[k]].config]
    BY Zenon DEF ConfigsOnce
  <2> QED
    BY <2>1, <2>2, <2>3
<1> HIDE DEF sorted
<1>9. DOMAIN ConfigsOnce(sorted) = 1 .. Cardinality(Firsts(sorted)) /\ Cardinality(Firsts(sorted)) \in Nat
  BY <1>7, EachConfigOnce DEF ConfigsOnce
<1>10. Len(ConfigsOnce(sorted)) = Cardinality(Firsts(sorted))
  BY <1>9 DEF ConfigsOnce
<1>11. /\ \A k \in DOMAIN ConfigsOnce(sorted) : \E x \in Elements(sorted) : x.config = ConfigsOnce(sorted)[k]
       /\ \A x \in Elements(sorted) : \E k \in DOMAIN ConfigsOnce(sorted) : ConfigsOnce(sorted)[k] = x.config
       /\ \A k, l \in DOMAIN ConfigsOnce(sorted) : ConfigsOnce(sorted)[k] = ConfigsOnce(sorted)[l] => k = l
  BY <1>7, EachConfigOnce
<1> QED
  BY <1>7, <1>8, <1>9, <1>10, <1>11

-----------------------------------------------------------------------------
\* The cards of the site

\* A run on disk, which has a result or none.
Entries == [config : Configs, result : {{}} \cup {{r} : r \in Results}]

LEMMA RecordHolds ==
    ASSUME NEW e \in Entries
    PROVE  /\ Record(e).config = e.config /\ e.config \in Nat
           /\ Peak(Record(e)) \in Ratios
           /\ \A r \in e.result :
                /\ r \in Results /\ Badge(Record(e)) = r.integrity_state
                /\ Record(e).conc = r.summary.max_stable_concurrency
                /\ Record(e).peak = r.summary.peak_aggregate_tps
           /\ \A p \in Record(e).peak : Peak(Record(e)) = p /\ \E r \in e.result : TRUE
           /\ e.result = {} => Record(e).peak = {} /\ Record(e).conc = {}
<1>1. Record(e).config = e.config /\ e.config \in Nat
  BY ConfigsAssumption DEF Record, Entries
<1>2. Ratio(0, 1) \in Ratios
  BY DEF Ratio, Ratios
<1>3. /\ Record(e).peak = UNION {r.summary.peak_aggregate_tps : r \in e.result}
      /\ Record(e).conc = UNION {r.summary.max_stable_concurrency : r \in e.result}
      /\ Record(e).integrity_state = {r.integrity_state : r \in e.result}
  BY DEF Record
<1>4. CASE e.result = {}
  <2>1. Record(e).peak = {} /\ Record(e).conc = {}
    BY <1>3, <1>4
  <2>2. Peak(Record(e)) = Ratio(0, 1)
    BY <2>1 DEF Peak
  <2> QED
    BY <1>1, <1>2, <1>4, <2>1, <2>2
<1>5. ASSUME NEW r \in Results, e.result = {r}
      PROVE  /\ Peak(Record(e)) \in Ratios
             /\ Badge(Record(e)) = r.integrity_state
             /\ Record(e).conc = r.summary.max_stable_concurrency
             /\ Record(e).peak = r.summary.peak_aggregate_tps
             /\ \A p \in Record(e).peak : Peak(Record(e)) = p
  <2>1. /\ Record(e).peak = r.summary.peak_aggregate_tps
        /\ Record(e).conc = r.summary.max_stable_concurrency
        /\ Record(e).integrity_state = {r.integrity_state}
    BY <1>3, <1>5
  <2>2. Badge(Record(e)) = r.integrity_state
    BY <2>1 DEF Badge
  <2>3. /\ r.summary.peak_aggregate_tps \subseteq Ratios
        /\ \A p, q \in r.summary.peak_aggregate_tps : p = q
    BY ResultHolds DEF ResultIsHonest
  <2>4. \A p \in Record(e).peak : Peak(Record(e)) = p
    <3> SUFFICES ASSUME NEW p \in Record(e).peak PROVE Peak(Record(e)) = p
      OBVIOUS
    <3>1. Record(e).peak = {p}
      BY <2>1, <2>3
    <3>2. Peak(Record(e)) = CHOOSE q \in {p} : TRUE
      BY <3>1 DEF Peak
    <3> QED
      BY <3>2
  <2>5. Peak(Record(e)) \in Ratios
    <3>1. CASE Record(e).peak = {}
      BY <1>2, <3>1 DEF Peak
    <3>2. CASE Record(e).peak # {}
      BY <2>1, <2>3, <2>4, <3>2
    <3> QED
      BY <3>1, <3>2
  <2> QED
    BY <2>1, <2>2, <2>4, <2>5
<1>6. e.result = {} \/ \E r \in Results : e.result = {r}
  BY DEF Entries
<1>7. CASE \E r \in Results : e.result = {r}
  <2>1. PICK r \in Results : e.result = {r}
    BY <1>7
  <2> QED
    BY <1>1, <1>5, <2>1
<1> QED
  BY <1>4, <1>6, <1>7

\* The card of a configuration shows the run with the greatest peak.
LEMMA BestHolds ==
    ASSUME NEW t \in Seq(Entries), NEW a \in DOMAIN t
    PROVE  \E b \in DOMAIN t :
             /\ t[b].config = t[a].config
             /\ BestForConfig(Records(t), t[a].config) = Record(t[b])
             /\ \A j \in DOMAIN t : t[j].config = t[a].config =>
                  ~ Above(Peak(Record(t[j])), Peak(Record(t[b])))
<1> DEFINE records == Records(t)
           name == t[a].config
           own == {i \in DOMAIN records : records[i].config = name}
           best == {i \in own : \A j \in own : ~ Above(Peak(records[j]), Peak(records[i]))}
<1>1. DOMAIN records = 1 .. Len(t) /\ DOMAIN t = 1 .. Len(t) /\ Len(t) \in Nat
      /\ \A i \in DOMAIN t : records[i] = Record(t[i])
  BY DEF Records
<1> HIDE DEF records
<1>2. \A i \in DOMAIN t : t[i] \in Entries
  OBVIOUS
<1>3. \A i \in DOMAIN t : records[i].config = t[i].config /\ Peak(records[i]) \in Ratios
  BY <1>1, <1>2, RecordHolds
<1>4. a \in own /\ own \subseteq Nat /\ own \in SUBSET (1 .. Len(t))
  BY <1>1, <1>3
<1>5. IsFiniteSet(own)
  <2>1. IsFiniteSet(1 .. Len(t))
    BY <1>1, FS_Interval
  <2> HIDE DEF own
  <2> QED
    BY <1>4, <2>1, FS_Subset
<1>6. best # {}
  <2>1. PICK value : value = [i \in own |-> Peak(records[i])]
    OBVIOUS
  <2>2. value \in [own -> Ratios]
    BY <1>1, <1>3, <2>1
  <2>3. \E m \in own : \A x \in own : ~ Above(value[x], value[m])
    <3> HIDE DEF own
    <3> QED
      BY <1>4, <1>5, <2>2, SomeIsGreatest
  <2> QED
    BY <2>1, <2>3
<1>7. \E i \in best : \A j \in best : i =< j
  <2>1. best \subseteq Nat
    BY <1>4
  <2> HIDE DEF best
  <2> QED
    BY <1>6, <2>1, LeastNat
<1>8. PICK b : b = CHOOSE i \in best : \A j \in best : i =< j
  OBVIOUS
<1>9. b \in best
  <2> HIDE DEF best
  <2> QED
    BY <1>7, <1>8
<1>10. BestForConfig(records, name) = records[b]
  BY <1>8, Zenon DEF BestForConfig
<1>11. b \in DOMAIN t /\ t[b].config = name
  BY <1>1, <1>3, <1>9
<1>12. \A j \in DOMAIN t : t[j].config = name => ~ Above(Peak(Record(t[j])), Peak(Record(t[b])))
  BY <1>1, <1>3, <1>9
<1>13. BestForConfig(Records(t), name) = Record(t[b])
  BY <1>1, <1>10, <1>11 DEF records
<1> QED
  BY <1>11, <1>12, <1>13

\* The history has a line for each configuration in order.
LEMMA HistoryHolds ==
    ASSUME NEW records, NEW order, order = ConfigOrder(records)
    PROVE  /\ DOMAIN History(records) = DOMAIN order
           /\ \A k \in DOMAIN order :
                LET best == BestForConfig(records, order[k])
                IN /\ History(records)[k].config = order[k] /\ History(records)[k].peak = best.peak
                   /\ History(records)[k].badge = Badge(best)
<1> DEFINE Best(k) == BestForConfig(records, order[k])
           AsRatio(ttft) == {Ratio(t, 1) : t \in ttft}
           Steps(k) == IF k = 1 THEN {}
                        ELSE {<<Delta(Best(k).peak, Best(k - 1).peak),
                                Delta(AsRatio(Best(k).ttft), AsRatio(Best(k - 1).ttft))>>}
<1>1. History(records) =
        [k \in DOMAIN order |->
          [config |-> order[k], peak |-> Best(k).peak, badge |-> Badge(Best(k)), deltas |-> Steps(k)]]
  BY Zenon DEF History
<1> HIDE DEF Steps, Best
<1>2. /\ DOMAIN History(records) = DOMAIN order
      /\ \A k \in DOMAIN order :
           /\ History(records)[k].config = order[k] /\ History(records)[k].peak = Best(k).peak
           /\ History(records)[k].badge = Badge(Best(k))
  BY <1>1
<1> QED
  BY <1>2 DEF Best

LEMMA RecordsType ==
    ASSUME NEW t \in Seq(Entries)
    PROVE  /\ Records(t) \in Seq({Record(e) : e \in Entries})
           /\ DOMAIN Records(t) = DOMAIN t
           /\ \A i \in DOMAIN t : Records(t)[i] = Record(t[i]) /\ Records(t)[i].config = t[i].config
           /\ \A x \in {Record(e) : e \in Entries} : x.config \in Nat
<1>1. \A i \in DOMAIN t : t[i] \in Entries
  OBVIOUS
<1>2. DOMAIN Records(t) = 1 .. Len(t) /\ DOMAIN t = 1 .. Len(t) /\ Len(t) \in Nat
      /\ \A i \in DOMAIN t : Records(t)[i] = Record(t[i])
  BY DEF Records
<1>3. PICK R : R = {Record(e) : e \in Entries}
  OBVIOUS
<1>4. Records(t) \in [1 .. Len(t) -> R]
  BY <1>1, <1>2, <1>3 DEF Records
<1>5. Records(t) \in Seq(R)
  BY <1>2, <1>4
<1>6. \A i \in DOMAIN t : Records(t)[i] = Record(t[i]) /\ Records(t)[i].config = t[i].config
  BY <1>1, <1>2, RecordHolds
<1>7. \A e \in Entries : Record(e).config \in Nat
  BY RecordHolds
<1>8. \A x \in R : x.config \in Nat
  BY <1>3, <1>7
<1> QED
  BY <1>2, <1>3, <1>5, <1>6, <1>8

\* Each configuration has a card and a line of the history that tells the same.
LEMMA CardsMatchHistory ==
    ASSUME NEW t \in Seq(Entries)
    PROVE  /\ Cardinality(Site(t).cards) = Len(Site(t).history)
           /\ \A card \in Site(t).cards : \E h \in Elements(Site(t).history) :
                h.config = card.config /\ h.peak = card.peak /\ h.badge = card.badge
<1> DEFINE T == {Record(e) : e \in Entries}
<1>1. PICK records, order, history : /\ records = Records(t) /\ order = ConfigOrder(records)
                                     /\ history = History(records)
  OBVIOUS
<1>2. /\ records \in Seq(T) /\ \A x \in T : x.config \in Nat
      /\ DOMAIN records = DOMAIN t /\ \A i \in DOMAIN t : records[i].config = t[i].config
  BY <1>1, RecordsType
<1> HIDE DEF T
<1>3. /\ Len(order) \in Nat /\ DOMAIN order = 1 .. Len(order)
      /\ \A k \in DOMAIN order : \E i \in DOMAIN records : records[i].config = order[k]
      /\ \A i \in DOMAIN records : \E k \in DOMAIN order : order[k] = records[i].config
      /\ \A k, l \in DOMAIN order : order[k] = order[l] => k = l
  <2>1. /\ Len(ConfigOrder(records)) \in Nat
        /\ DOMAIN ConfigOrder(records) = 1 .. Len(ConfigOrder(records))
        /\ \A k \in DOMAIN ConfigOrder(records) : \E i \in DOMAIN records :
             records[i].config = ConfigOrder(records)[k]
        /\ \A i \in DOMAIN records : \E k \in DOMAIN ConfigOrder(records) :
             ConfigOrder(records)[k] = records[i].config
        /\ \A k, l \in DOMAIN ConfigOrder(records) :
             ConfigOrder(records)[k] = ConfigOrder(records)[l] => k = l
    BY <1>2, OrderHolds, Zenon
  <2> QED
    BY <1>1, <2>1
<1>4. /\ Site(t).history = history
      /\ Site(t).cards = {Card(records, c) : c \in {t[i].config : i \in DOMAIN t}}
  BY <1>1 DEF Site
<1>5. /\ DOMAIN history = 1 .. Len(order)
      /\ \A k \in DOMAIN order :
           /\ history[k].config = order[k] /\ history[k].peak = BestForConfig(records, order[k]).peak
           /\ history[k].badge = Badge(BestForConfig(records, order[k]))
  BY <1>1, <1>3, HistoryHolds
<1>6. \A c : /\ Card(records, c).config = c /\ Card(records, c).peak = BestForConfig(records, c).peak
             /\ Card(records, c).badge = Badge(BestForConfig(records, c))
  BY DEF Card
<1>7. {t[i].config : i \in DOMAIN t} = {order[k] : k \in DOMAIN order}
  <2>1. \A i \in DOMAIN t : \E k \in DOMAIN order : order[k] = t[i].config
    BY <1>2, <1>3
  <2>2. \A k \in DOMAIN order : \E i \in DOMAIN t : t[i].config = order[k]
    BY <1>2, <1>3
  <2> QED
    BY <2>1, <2>2
<1>8. Site(t).cards = {Card(records, order[k]) : k \in DOMAIN order}
  BY <1>4, <1>7
<1>9. Len(history) = Len(order)
  <2>1. history \in [1 .. Len(order) -> {history[k] : k \in 1 .. Len(order)}]
    <3>1. history = [k \in DOMAIN order |-> history[k]]
      BY <1>1, <1>5, Zenon DEF History
    <3> QED
      BY <1>3, <3>1
  <2> QED
    BY <1>3, <2>1
<1>10. Cardinality(Site(t).cards) = Len(order)
  <2> DEFINE cards == {Card(records, order[k]) : k \in DOMAIN order}
             f == [k \in 1 .. Len(order) |-> Card(records, order[k])]
  <2>1. f \in [1 .. Len(order) -> cards]
    BY <1>3
  <2>2. \A k, l \in 1 .. Len(order) : f[k] = f[l] => k = l
    <3> SUFFICES ASSUME NEW k \in 1 .. Len(order), NEW l \in 1 .. Len(order), f[k] = f[l] PROVE k = l
      OBVIOUS
    <3>1. f[k].config = order[k] /\ f[l].config = order[l]
      BY <1>6
    <3> QED
      BY <1>3, <3>1
  <2>3. \A x \in cards : \E k \in 1 .. Len(order) : f[k] = x
    BY <1>3
  <2> HIDE DEF cards, f
  <2>4. f \in Bijection(1 .. Len(order), cards)
    BY <2>1, <2>2, <2>3 DEF Bijection, Injection, Surjection, IsInjective
  <2>5. ExistsBijection(1 .. Len(order), cards)
    BY <2>4 DEF ExistsBijection
  <2>6. Cardinality(cards) = Len(order)
    BY <1>3, <2>5, FS_CountingElements
  <2> QED
    BY <1>8, <2>6 DEF cards
<1>11. ASSUME NEW card \in Site(t).cards
       PROVE  \E h \in Elements(Site(t).history) :
                h.config = card.config /\ h.peak = card.peak /\ h.badge = card.badge
  <2>1. PICK k \in DOMAIN order : card = Card(records, order[k])
    BY <1>8, <1>11
  <2>2. history[k] \in Elements(history)
    BY <1>3, <1>5 DEF Elements
  <2> QED
    BY <1>4, <1>5, <1>6, <2>1, <2>2
<1> QED
  BY <1>4, <1>9, <1>10, <1>11

-----------------------------------------------------------------------------
\* The site and the runs on disk

LEMMA Prefix ==
    ASSUME NEW T, NEW s \in Seq(T), NEW n \in 1 .. Len(s)
    PROVE  /\ SubSeq(s, 1, n) \in Seq(T) /\ DOMAIN SubSeq(s, 1, n) = 1 .. n
           /\ \A i \in 1 .. n : i \in DOMAIN s /\ SubSeq(s, 1, n)[i] = s[i]
<1>1. Len(s) \in Nat /\ DOMAIN s = 1 .. Len(s) /\ n \in Nat
  OBVIOUS
<1>2. SubSeq(s, 1, n) = [i \in 1 .. n |-> s[i]]
  BY <1>1
<1> QED
  BY <1>1, <1>2

\* A card counts the runs of its configuration that were there when it was made.
LEMMA CountedAre ==
    ASSUME tree \in Seq(Entries), NEW n \in 1 .. Len(tree), NEW card,
           card.runs = Cardinality({i \in 1 .. n : tree[i].config = card.config})
    PROVE  Counted(card) = {i \in 1 .. n : tree[i].config = card.config}
<1> DEFINE Same(m) == {j \in 1 .. m : tree[j].config = card.config}
<1>1. Len(tree) \in Nat /\ DOMAIN tree = 1 .. Len(tree) /\ n \in Nat /\ n >= 1
  OBVIOUS
<1>2. ASSUME NEW m \in Nat PROVE IsFiniteSet(Same(m)) /\ Cardinality(Same(m)) \in Nat
  <2>1. IsFiniteSet(1 .. m)
    BY FS_Interval
  <2>2. Same(m) \in SUBSET (1 .. m)
    OBVIOUS
  <2> HIDE DEF Same
  <2> QED
    BY <2>1, <2>2, FS_Subset, FS_CardinalityType
<1>3. ASSUME NEW i \in 1 .. n PROVE Cardinality(Same(i)) =< Cardinality(Same(n))
  <2>1. Same(i) \in SUBSET Same(n)
    BY <1>1
  <2> HIDE DEF Same
  <2> QED
    BY <1>1, <1>2, <2>1, FS_Subset
<1>4. ASSUME NEW i \in DOMAIN tree, i > n, tree[i].config = card.config
      PROVE  Cardinality(Same(i)) > Cardinality(Same(n))
  <2>1. Same(n) \cup {i} \in SUBSET Same(i) /\ i \notin Same(n) /\ i \in Nat
    BY <1>1, <1>4
  <2> HIDE DEF Same
  <2>2. Cardinality(Same(n) \cup {i}) = Cardinality(Same(n)) + 1
    BY <1>1, <1>2, <2>1, FS_AddElement
  <2>3. Cardinality(Same(n) \cup {i}) =< Cardinality(Same(i))
    BY <1>2, <2>1, FS_Subset
  <2> QED
    BY <1>1, <1>2, <2>1, <2>2, <2>3
<1>5. Counted(card) =
        {i \in DOMAIN tree : tree[i].config = card.config /\ Cardinality(Same(i)) =< Cardinality(Same(n))}
  BY DEF Counted
<1>6. {i \in 1 .. n : tree[i].config = card.config} = Same(n)
  OBVIOUS
<1>7. \A i : i \in Same(n) <=> i \in 1 .. n /\ tree[i].config = card.config
  OBVIOUS
<1> HIDE DEF Same
<1>8. ASSUME NEW i \in Counted(card) PROVE i \in Same(n)
  <2>1. /\ i \in DOMAIN tree /\ tree[i].config = card.config
        /\ Cardinality(Same(i)) =< Cardinality(Same(n))
    BY <1>5, <1>8
  <2>2. i \in Nat /\ i >= 1
    BY <1>1, <2>1
  <2>3. ~ (i > n)
    <3>1. Cardinality(Same(i)) \in Nat /\ Cardinality(Same(n)) \in Nat
      BY <1>1, <1>2, <2>2
    <3> QED
      BY <1>4, <2>1, <3>1
  <2> QED
    BY <1>1, <1>7, <2>1, <2>2, <2>3
<1>9. ASSUME NEW i \in Same(n) PROVE i \in Counted(card)
  <2>1. i \in 1 .. n /\ tree[i].config = card.config
    BY <1>7, <1>9
  <2> QED
    BY <1>1, <1>3, <1>5, <2>1
<1> QED
  BY <1>6, <1>8, <1>9

\* The peak of a card is the best of the runs it counts, and a valid cell's.
LEMMA CardHolds ==
    ASSUME tree \in Seq(Entries), NEW n \in 1 .. Len(tree),
           NEW card \in Site(SubSeq(tree, 1, n)).cards, NEW peak \in card.peak
    PROVE  \E i \in Counted(card) : \E r \in tree[i].result :
             /\ r.integrity_state = card.badge
             /\ \A j \in Counted(card) : \A q \in tree[j].result :
                  \A p \in q.summary.peak_aggregate_tps : ~ Above(p, peak)
             /\ \E row \in Elements(r.rows) : row.output_tps = peak /\ Shown(r, row)
             /\ \A conc \in card.conc :
                  \E row \in Elements(r.rows) : row.workload.conc = conc /\ Shown(r, row)
<1>1. PICK t : t = SubSeq(tree, 1, n)
  OBVIOUS
<1>2. t \in Seq(Entries) /\ DOMAIN t = 1 .. n /\ \A i \in 1 .. n : i \in DOMAIN tree /\ t[i] = tree[i]
  BY <1>1, Prefix
<1>3. PICK a \in DOMAIN t : card = Card(Records(t), t[a].config)
  BY <1>1 DEF Site
<1>4. PICK b \in DOMAIN t :
        /\ t[b].config = t[a].config
        /\ BestForConfig(Records(t), t[a].config) = Record(t[b])
        /\ \A j \in DOMAIN t : t[j].config = t[a].config =>
             ~ Above(Peak(Record(t[j])), Peak(Record(t[b])))
  BY <1>2, BestHolds
<1>5. /\ card.config = t[a].config /\ card.peak = Record(t[b]).peak /\ card.conc = Record(t[b]).conc
      /\ card.badge = Badge(Record(t[b]))
      /\ card.runs = Cardinality({i \in DOMAIN Records(t) : Records(t)[i].config = t[a].config})
  BY <1>3, <1>4 DEF Card
<1>6. {i \in DOMAIN Records(t) : Records(t)[i].config = t[a].config} =
        {i \in 1 .. n : tree[i].config = card.config}
  <2>1. DOMAIN Records(t) = 1 .. n /\ \A i \in 1 .. n : Records(t)[i].config = tree[i].config
    BY <1>2, RecordsType
  <2> QED
    BY <1>5, <2>1
<1>7. Counted(card) = {i \in 1 .. n : tree[i].config = card.config}
  <2>1. card.runs = Cardinality({i \in 1 .. n : tree[i].config = card.config})
    BY <1>5, <1>6
  <2> QED
    BY <2>1, CountedAre
<1>8. \A i \in 1 .. n : tree[i] \in Entries
  BY <1>2
<1>9. b \in Counted(card) /\ t[b] = tree[b]
  BY <1>2, <1>4, <1>5, <1>7
<1>10. Peak(Record(tree[b])) = peak /\ \E r \in tree[b].result : TRUE
  BY <1>2, <1>5, <1>8, <1>9, RecordHolds
<1>11. PICK r \in tree[b].result : TRUE
  BY <1>10
<1>12. /\ r \in Results /\ r.integrity_state = card.badge
       /\ card.peak = r.summary.peak_aggregate_tps
       /\ card.conc = r.summary.max_stable_concurrency
  BY <1>2, <1>5, <1>8, <1>9, RecordHolds
<1>13. ASSUME NEW j \in Counted(card), NEW q \in tree[j].result, NEW p \in q.summary.peak_aggregate_tps
       PROVE  ~ Above(p, peak)
  <2>1. j \in 1 .. n /\ t[j] = tree[j] /\ t[j].config = t[a].config /\ tree[j] \in Entries
    BY <1>2, <1>5, <1>7, <1>8
  <2>2. Record(tree[j]).peak = q.summary.peak_aggregate_tps
    BY <2>1, RecordHolds
  <2>3. Peak(Record(tree[j])) = p
    BY <2>1, <2>2, RecordHolds
  <2> QED
    BY <1>2, <1>4, <1>9, <1>10, <2>1, <2>3
<1>14. /\ \E row \in Elements(r.rows) : row.output_tps = peak /\ Shown(r, row)
       /\ \A conc \in card.conc :
            \E row \in Elements(r.rows) : row.workload.conc = conc /\ Shown(r, row)
  BY <1>12, ResultHolds DEF ResultIsHonest
<1> QED
  BY <1>9, <1>11, <1>12, <1>13, <1>14

\* The site is empty, or made of the first runs on disk as they still are: the run
\* under way is not among them.
SiteInv ==
    /\ results \in Seq(Cells)
    /\ tree \in Seq(Entries)
    /\ stage \in {"idle", "measuring", "site"}
    /\ stage # "idle" => tree # <<>>
    /\ \/ site = [cards |-> {}, history |-> <<>>]
       \/ \E n \in 1 .. Len(tree) :
            /\ site = Site(SubSeq(tree, 1, n))
            /\ stage = "measuring" => n < Len(tree)

LEMMA InvIsHonest ==
    ASSUME SiteInv
    PROVE  SiteIsHonest
<1>1. CASE site = [cards |-> {}, history |-> <<>>]
  <2>1. site.cards = {} /\ site.history = <<>>
    BY <1>1
  <2>2. Cardinality({}) = Len(<<>>)
    BY FS_EmptySet
  <2> QED
    BY <2>1, <2>2 DEF SiteIsHonest
<1>2. CASE \E n \in 1 .. Len(tree) : site = Site(SubSeq(tree, 1, n))
  <2>1. PICK n \in 1 .. Len(tree) : site = Site(SubSeq(tree, 1, n))
    BY <1>2
  <2>2. tree \in Seq(Entries)
    BY DEF SiteInv
  <2>3. SubSeq(tree, 1, n) \in Seq(Entries)
    BY <2>2, Prefix
  <2>4. /\ Cardinality(site.cards) = Len(site.history)
        /\ \A card \in site.cards : \E h \in Elements(site.history) :
             h.config = card.config /\ h.peak = card.peak /\ h.badge = card.badge
    BY <2>1, <2>3, CardsMatchHistory
  <2>5. \A card \in site.cards : \A peak \in card.peak :
          \E i \in Counted(card) : \E r \in tree[i].result :
             /\ r.integrity_state = card.badge
             /\ \A j \in Counted(card) : \A q \in tree[j].result :
                  \A p \in q.summary.peak_aggregate_tps : ~ Above(p, peak)
             /\ \E row \in Elements(r.rows) :
                  row.output_tps = peak /\ (card.badge # "INVALID" => row.integrity_state # "INVALID")
             /\ \A conc \in card.conc : \E row \in Elements(r.rows) :
                  /\ row.workload.conc = conc
                  /\ card.badge # "INVALID" => row.integrity_state # "INVALID"
    BY <2>1, <2>2, CardHolds DEF Shown
  <2> QED
    BY <2>4, <2>5, Zenon DEF SiteIsHonest
<1> QED
  BY <1>1, <1>2 DEF SiteInv

\* What came first in a longer list came first before.
LEMMA PrefixStays ==
    ASSUME NEW T, NEW s \in Seq(T), NEW n \in 1 .. Len(s), NEW t \in Seq(T), Len(t) >= n,
           \A i \in 1 .. n : t[i] = s[i]
    PROVE  SubSeq(t, 1, n) = SubSeq(s, 1, n)
<1>1. Len(s) \in Nat /\ Len(t) \in Nat /\ n \in Nat
  OBVIOUS
<1>2. SubSeq(s, 1, n) = [i \in 1 .. n |-> s[i]] /\ SubSeq(t, 1, n) = [i \in 1 .. n |-> t[i]]
  BY <1>1
<1> QED
  BY <1>2

\* A step that changes no run the site was made of leaves the site as it was.
LEMMA SiteStays ==
    ASSUME SiteInv, tree' \in Seq(Entries), Len(tree') >= Len(tree), site' = site,
           \A i \in 1 .. Len(tree) : tree'[i] = tree[i] \/ (stage = "measuring" /\ i = Len(tree)),
           \/ stage' # "measuring"
           \/ stage = "measuring" /\ Len(tree') = Len(tree)
           \/ Len(tree') = Len(tree) + 1
    PROVE  \/ site' = [cards |-> {}, history |-> <<>>]
           \/ \E n \in 1 .. Len(tree') :
                /\ site' = Site(SubSeq(tree', 1, n))
                /\ stage' = "measuring" => n < Len(tree')
<1>1. CASE site = [cards |-> {}, history |-> <<>>]
  BY <1>1
<1>2. ASSUME NEW n \in 1 .. Len(tree), site = Site(SubSeq(tree, 1, n)),
             stage = "measuring" => n < Len(tree)
      PROVE  /\ n \in 1 .. Len(tree') /\ site' = Site(SubSeq(tree', 1, n))
             /\ stage' = "measuring" => n < Len(tree')
  <2>1. tree \in Seq(Entries) /\ Len(tree) \in Nat /\ Len(tree') \in Nat /\ n \in Nat
    BY DEF SiteInv
  <2>2. \A i \in 1 .. n : tree'[i] = tree[i]
    BY <1>2, <2>1
  <2>3. PICK s, t : s = tree /\ t = tree'
    OBVIOUS
  <2>4. SubSeq(t, 1, n) = SubSeq(s, 1, n)
    <3>1. s \in Seq(Entries) /\ t \in Seq(Entries) /\ n \in 1 .. Len(s) /\ Len(t) >= n
      BY <2>1, <2>3
    <3>2. \A i \in 1 .. n : t[i] = s[i]
      BY <2>2, <2>3
    <3> QED
      BY <3>1, <3>2, PrefixStays
  <2>5. site' = Site(SubSeq(tree', 1, n))
    BY <1>2, <2>3, <2>4
  <2>6. stage' = "measuring" => n < Len(tree')
    BY <1>2, <2>1
  <2> QED
    BY <2>1, <2>5, <2>6
<1> QED
  BY <1>1, <1>2 DEF SiteInv

LEMMA ListOfLength ==
    ASSUME NEW T, NEW n \in Nat \ {0}, NEW t \in [1 .. n -> T]
    PROVE  t \in Seq(T) /\ Len(t) = n /\ t # <<>>
<1>1. t \in Seq(T) /\ Len(t) = n
  OBVIOUS
<1>2. t # <<>>
  BY <1>1
<1> QED
  BY <1>1, <1>2

LEMMA LastReplaced ==
    ASSUME NEW T, NEW s \in Seq(T), s # <<>>, NEW e \in T
    PROVE  /\ [s EXCEPT ![Len(s)] = e] \in Seq(T)
           /\ Len([s EXCEPT ![Len(s)] = e]) = Len(s) /\ [s EXCEPT ![Len(s)] = e] # <<>>
           /\ \A i \in 1 .. Len(s) : [s EXCEPT ![Len(s)] = e][i] = s[i] \/ i = Len(s)
<1>1. PICK n \in Nat \ {0} : n = Len(s) /\ s \in [1 .. n -> T]
  OBVIOUS
<1>2. PICK t : t = [s EXCEPT ![n] = e]
  OBVIOUS
<1>3. t \in [1 .. n -> T] /\ \A i \in 1 .. n : t[i] = s[i] \/ i = n
  BY <1>1, <1>2
<1>4. t \in Seq(T) /\ Len(t) = n /\ t # <<>>
  BY <1>3, ListOfLength
<1>5. t = [s EXCEPT ![Len(s)] = e]
  BY <1>1, <1>2
<1> QED
  BY <1>1, <1>3, <1>4, <1>5, Zenon

LEMMA SiteInvStep ==
    ASSUME SiteInv, [SiteNext]_siteVars
    PROVE  SiteInv'
<1>1. /\ results \in Seq(Cells) /\ tree \in Seq(Entries) /\ Len(tree) \in Nat
      /\ stage \in {"idle", "measuring", "site"} /\ stage # "idle" => tree # <<>>
  BY DEF SiteInv
<1>2. CASE Start
  <2>1. PICK name \in Configs : tree' = Append(tree, [config |-> name, result |-> {}])
    BY <1>2 DEF Start
  <2>2. [config |-> name, result |-> {}] \in Entries
    BY DEF Entries
  <2>3. PICK e \in Entries : tree' = Append(tree, e)
    BY <2>1, <2>2
  <2>4. /\ tree' \in Seq(Entries) /\ Len(tree') = Len(tree) + 1 /\ tree' # <<>>
        /\ \A i \in 1 .. Len(tree) : tree'[i] = tree[i]
    BY <1>1, <2>3
  <2>5. results' = results /\ site' = site /\ stage' = "measuring"
    BY <1>2 DEF Start
  <2>6. \/ site' = [cards |-> {}, history |-> <<>>]
        \/ \E n \in 1 .. Len(tree') :
             site' = Site(SubSeq(tree', 1, n)) /\ (stage' = "measuring" => n < Len(tree'))
    BY <1>1, <2>4, <2>5, SiteStays
  <2> QED
    BY <1>1, <2>4, <2>5, <2>6 DEF SiteInv
<1>3. CASE CellDone
  <2>1. PICK c \in Cells : results' = Append(results, c)
    BY <1>3 DEF CellDone
  <2>2. results' \in Seq(Cells)
    BY <1>1, <2>1
  <2>3. stage' = stage /\ tree' = tree /\ site' = site
    BY <1>3 DEF CellDone
  <2> QED
    BY <2>2, <2>3 DEF SiteInv
<1>4. CASE Publish
  <2>1. /\ stage = "measuring" /\ stage' = "site" /\ results' = results /\ site' = site
        /\ tree' = [tree EXCEPT ![Len(tree)].result = {RunResult(results)}]
    BY <1>4 DEF Publish
  <2>2. Len(tree) \in 1 .. Len(tree) /\ DOMAIN tree = 1 .. Len(tree)
    BY <1>1, <2>1
  <2>3. PICK r \in Results : r = RunResult(results)
    BY <1>1 DEF Results
  <2>4. PICK last \in Entries : last = tree[Len(tree)]
    BY <1>1, <2>2
  <2>5. [last EXCEPT !.result = {r}] \in Entries
    <3>1. last \in [config : Configs, result : {{}} \cup {{q} : q \in Results}]
      BY DEF Entries
    <3>2. {r} \in {{}} \cup {{q} : q \in Results}
      OBVIOUS
    <3>3. [last EXCEPT !.result = {r}] = [config |-> last.config, result |-> {r}]
      BY <3>1
    <3> QED
      BY <3>1, <3>2, <3>3 DEF Entries
  <2>6. PICK e \in Entries : tree' = [tree EXCEPT ![Len(tree)] = e]
    BY <2>1, <2>3, <2>4, <2>5
  <2>7. /\ tree' \in Seq(Entries) /\ Len(tree') = Len(tree) /\ tree' # <<>>
        /\ \A i \in 1 .. Len(tree) : tree'[i] = tree[i] \/ i = Len(tree)
    <3>1. PICK s, t : s = tree /\ t = tree'
      OBVIOUS
    <3>2. s \in Seq(Entries) /\ s # <<>> /\ t = [s EXCEPT ![Len(s)] = e]
      BY <1>1, <2>1, <2>6, <3>1
    <3>3. /\ t \in Seq(Entries) /\ Len(t) = Len(s) /\ t # <<>>
          /\ \A i \in 1 .. Len(s) : t[i] = s[i] \/ i = Len(s)
      BY <3>2, LastReplaced, Zenon
    <3> QED
      BY <3>1, <3>3
  <2>8. \/ site' = [cards |-> {}, history |-> <<>>]
        \/ \E n \in 1 .. Len(tree') :
             site' = Site(SubSeq(tree', 1, n)) /\ (stage' = "measuring" => n < Len(tree'))
    <3>1. \A i \in 1 .. Len(tree) : tree'[i] = tree[i] \/ (stage = "measuring" /\ i = Len(tree))
      BY <2>1, <2>7
    <3>2. Len(tree') >= Len(tree) /\ stage' # "measuring"
      BY <1>1, <2>1, <2>7
    <3> QED
      BY <2>1, <2>7, <3>1, <3>2, SiteStays, Zenon
  <2> QED
    BY <1>1, <2>1, <2>7, <2>8 DEF SiteInv
<1>5. CASE BuildSite
  <2>1. stage = "site" /\ site' \in {site, Site(tree)} /\ tree' = tree /\ stage' = "idle" /\ results' = <<>>
    BY <1>5 DEF BuildSite, RunEnds
  <2>2. Len(tree) \in 1 .. Len(tree) /\ SubSeq(tree, 1, Len(tree)) = tree
    BY <1>1, <2>1
  <2>3. \/ site' = [cards |-> {}, history |-> <<>>]
        \/ \E n \in 1 .. Len(tree) : site' = Site(SubSeq(tree, 1, n))
    <3>1. CASE site' = site
      BY <3>1 DEF SiteInv
    <3>2. CASE site' = Site(tree)
      BY <2>2, <3>2
    <3> QED
      BY <2>1, <3>1, <3>2
  <2> QED
    BY <1>1, <2>1, <2>3 DEF SiteInv
<1>6. CASE Crash
  <2>1. tree' = tree /\ site' = site /\ stage' = "idle" /\ results' = <<>>
    BY <1>6 DEF Crash, RunEnds
  <2>2. \/ site' = [cards |-> {}, history |-> <<>>]
        \/ \E n \in 1 .. Len(tree) : site' = Site(SubSeq(tree, 1, n))
    BY <2>1 DEF SiteInv
  <2> QED
    BY <1>1, <2>1, <2>2 DEF SiteInv
<1>7. CASE UNCHANGED siteVars
  BY <1>7 DEF SiteInv, siteVars
<1> QED
  BY <1>2, <1>3, <1>4, <1>5, <1>6, <1>7 DEF SiteNext

\* A number on the site is that of a run that ended, the best of those its card
\* counts, under that run's own badge, and measured in a valid cell unless the
\* badge says INVALID; the history tells of each configuration once, and the same
\* as its card: for any number of runs, cells and configurations, and wherever
\* runs are killed (cli/main.py, reports/report.py, site/site.py).
THEOREM SiteHolds == SiteSpec => []SiteIsHonest
<1>1. SiteInit => SiteInv
  BY DEF SiteInit, SiteInv
<1>2. SiteInv /\ [SiteNext]_siteVars => SiteInv'
  BY SiteInvStep
<1>3. SiteInv => SiteIsHonest
  BY InvIsHonest
<1> QED
  BY <1>1, <1>2, <1>3, PTL DEF SiteSpec
=============================================================================
