----------------------------- MODULE NoiseProofs -----------------------------
(***************************************************************************)
(* Proofs about NoiseTransport, for any lengths of messages, chunks,       *)
(* limits and buffer.                                                      *)
(*                                                                         *)
(* The frames of a direction are the handshake message and then the chunks *)
(* of what was sent, one message behind the other (LaidOut); how far each  *)
(* receiver has come in them is what the invariants TLC checks lack to be  *)
(* inductive (Reading, DownInv, BufferInv).  What a chunk makes of the     *)
(* message so far is proved once, about the operators (OutcomeOfChunk).    *)
(***************************************************************************)
EXTENDS NoiseTransport, DataLemmas, SequenceTheorems

-----------------------------------------------------------------------------
(* Flattening *)

Flattens(seqs, g) ==
    g = [i \in 1 .. Len(seqs) |-> IF i = 1 THEN seqs[i] ELSE g[i - 1] \o seqs[i]]

(* The recursive function that FlattenSeq chooses exists. *)
LEMMA FlattenExists ==
  ASSUME NEW seqs, Len(seqs) \in Nat
  PROVE  \E g : Flattens(seqs, g)
<1> DEFINE Defined(n) == \E g : g = [i \in 1 .. n |-> IF i = 1 THEN seqs[i] ELSE g[i - 1] \o seqs[i]]
           T == {n \in Nat : Defined(n)}
<1>1. 0 \in T
  <2> DEFINE g == [i \in 1 .. 0 |-> seqs[i]]
  <2>1. g = [i \in 1 .. 0 |-> IF i = 1 THEN seqs[i] ELSE g[i - 1] \o seqs[i]]
    OBVIOUS
  <2>2. Defined(0)
    BY <2>1
  <2> HIDE DEF Defined
  <2> QED
    BY <2>2
<1>2. ASSUME NEW n \in Nat, n \in T PROVE n + 1 \in T
  <2>1. PICK h : h = [i \in 1 .. n |-> IF i = 1 THEN seqs[i] ELSE h[i - 1] \o seqs[i]]
    BY <1>2
  <2> DEFINE g == [i \in 1 .. n + 1 |-> IF i = 1 THEN seqs[i] ELSE h[i - 1] \o seqs[i]]
  <2>2. \A i \in 1 .. n : i \in 1 .. n + 1
    OBVIOUS
  <2>3. \A i \in 1 .. n : g[i] = h[i]
    BY <2>1, <2>2
  <2>4. \A i \in 1 .. n + 1 : i # 1 => i - 1 \in 1 .. n
    OBVIOUS
  <2> HIDE DEF g
  <2>5. g = [i \in 1 .. n + 1 |-> IF i = 1 THEN seqs[i] ELSE g[i - 1] \o seqs[i]]
    BY <2>3, <2>4 DEF g
  <2>6. Defined(n + 1)
    BY <2>5
  <2> HIDE DEF Defined
  <2> QED
    BY <2>6
<1>3. Len(seqs) \in T
  <2> HIDE DEF T
  <2> QED
    BY <1>1, <1>2, Induction
<1> QED
  BY <1>3 DEF Flattens

(* seqs are n slices of p, slice i up to ends[i]. *)
Slices(p, seqs, ends, n) ==
    /\ n \in Nat \ {0} /\ Len(seqs) = n /\ ends[0] = 0
    /\ \A i \in 1 .. n : /\ ends[i - 1] \in 0 .. Len(p) /\ ends[i] \in 0 .. Len(p)
                         /\ ends[i - 1] <= ends[i]
                         /\ seqs[i] = SubSeq(p, ends[i - 1] + 1, ends[i])

(* Slices of a sequence that follow each other flatten to the sequence up   *)
(* to the end of the last.                                                  *)
LEMMA FlattenSlices ==
  ASSUME NEW S, NEW p \in Seq(S), NEW seqs, NEW ends, NEW n, Slices(p, seqs, ends, n)
  PROVE  FlattenSeq(seqs) = SubSeq(p, 1, ends[n])
<1> USE DEF Slices
<1>0. Len(p) \in Nat
  BY LenProperties
<1> DEFINE g == CHOOSE h : Flattens(seqs, h)
<1>1. Flattens(seqs, g)
  BY FlattenExists
<1>2. FlattenSeq(seqs) = g[n]
  BY DEF FlattenSeq, Flattens
<1> HIDE DEF g
<1>3. \A i \in 1 .. n : g[i] = IF i = 1 THEN seqs[i] ELSE g[i - 1] \o seqs[i]
  BY <1>1 DEF Flattens
<1> DEFINE T == {m \in Nat : m + 1 <= n => g[m + 1] = SubSeq(p, 1, ends[m + 1])}
<1>4. 0 \in T
  <2>1. 1 \in 1 .. n /\ 1 - 1 = 0 /\ 0 + 1 = 1
    OBVIOUS
  <2>2. g[1] = SubSeq(p, 1, ends[1])
    BY <1>3, <2>1
  <2> QED
    BY <2>1, <2>2
<1>5. ASSUME NEW m \in Nat, m \in T PROVE m + 1 \in T
  <2> SUFFICES ASSUME (m + 1) + 1 <= n
               PROVE  g[(m + 1) + 1] = SubSeq(p, 1, ends[(m + 1) + 1])
    OBVIOUS
  <2> DEFINE i == (m + 1) + 1
  <2>1. i \in 1 .. n /\ i # 1 /\ i - 1 = m + 1 /\ m + 1 <= n
    OBVIOUS
  <2>2. g[i] = SubSeq(p, 1, ends[m + 1]) \o seqs[i]
    BY <1>3, <1>5, <2>1
  <2>3. seqs[i] = SubSeq(p, ends[m + 1] + 1, ends[i]) /\ ends[m + 1] \in 0 .. Len(p)
        /\ ends[i] \in 0 .. Len(p) /\ ends[m + 1] <= ends[i]
    BY <2>1
  <2> HIDE DEF i
  <2>4. SubSeq(p, 1, ends[m + 1]) \o SubSeq(p, ends[m + 1] + 1, ends[i]) = SubSeq(p, 1, ends[i])
    <3> DEFINE a == ends[m + 1]
               b == ends[i]
    <3>1. 1 \in 1 .. Len(p) + 1 /\ a \in 1 - 1 .. Len(p) /\ b \in a .. Len(p)
      BY <1>0, <2>3
    <3> HIDE DEF a, b
    <3>2. SubSeq(p, 1, a) \o SubSeq(p, a + 1, b) = SubSeq(p, 1, b)
      BY <3>1, ConcatAdjacentSubSeq
    <3> QED
      BY <3>2 DEF a, b
  <2> QED
    BY <2>2, <2>3, <2>4 DEF i
<1>6. Nat \subseteq T
  <2> HIDE DEF T
  <2> QED
    BY <1>4, <1>5, Induction
<1>7. n - 1 \in Nat /\ (n - 1) + 1 = n
  OBVIOUS
<1>8. (n - 1) + 1 <= n => g[(n - 1) + 1] = SubSeq(p, 1, ends[(n - 1) + 1])
  BY <1>6, <1>7
<1> QED
  BY <1>2, <1>7, <1>8

-----------------------------------------------------------------------------
(* Chunks *)

Bytes == (Nat \X Nat) \cup {"handshake"}
Chunks == [final : BOOLEAN, body : Seq(Bytes)]

(* Where chunk c of payload p ends. *)
End(p, c) == IF c * MaxChunk < Len(p) THEN c * MaxChunk ELSE Len(p)

(* A payload is bytes, as many as it says. *)
LEMMA PayloadType ==
  ASSUME NEW n \in Nat, NEW len \in Nat
  PROVE  Payload(n, len) \in Seq(Bytes) /\ Len(Payload(n, len)) = len
<1> DEFINE f == Payload(n, len)
<1>1. f \in [1 .. len -> Bytes]
  BY DEF Payload, Bytes
<1> HIDE DEF f
<1>2. f \in Seq(Bytes)
  BY <1>1, SeqDef
<1>3. Len(f) = len
  BY <1>1, <1>2, LenProperties
<1> QED
  BY <1>2, <1>3 DEF f

(* The ends of the chunks are in order, the last is the end of the payload. *)
LEMMA EndsOfChunks ==
  ASSUME NEW p \in Seq(Bytes), NEW n \in Nat \ {0}, (n - 1) * MaxChunk < Len(p) \/ n = 1,
         Len(p) <= n * MaxChunk
  PROVE  /\ End(p, 0) = 0 /\ End(p, n) = Len(p)
         /\ \A c \in 0 .. n : End(p, c) \in 0 .. Len(p)
         /\ \A c \in 1 .. n : End(p, c - 1) <= End(p, c)
         /\ \A c \in 1 .. n - 1 : End(p, c) = c * MaxChunk /\ c * MaxChunk < Len(p)
                                  /\ End(p, c - 1) < End(p, c)
<1>0. Len(p) \in Nat /\ MaxChunk \in Nat /\ MaxChunk # 0
  BY LenProperties, NoiseAssumption
<1>1. ASSUME NEW c \in Nat PROVE c * MaxChunk \in Nat /\ End(p, c) \in 0 .. Len(p)
  <2>1. c * MaxChunk \in Nat
    BY <1>0
  <2> QED
    BY <1>0, <2>1 DEF End
<1>2. ASSUME NEW c \in Nat \ {0}
      PROVE  (c - 1) * MaxChunk = c * MaxChunk - MaxChunk
  BY <1>0
<1>3. ASSUME NEW c \in 1 .. n - 1 PROVE c * MaxChunk < Len(p)
  <2>1. c * MaxChunk <= (n - 1) * MaxChunk
    BY <1>0, TimesMonotone
  <2>2. c * MaxChunk \in Int /\ (n - 1) * MaxChunk \in Int /\ n # 1
    BY <1>0
  <2> DEFINE u == c * MaxChunk
             v == (n - 1) * MaxChunk
  <2>3. u <= v /\ u \in Int /\ v \in Int /\ v < Len(p)
    BY <2>1, <2>2
  <2> HIDE DEF u, v
  <2>4. u < Len(p)
    BY <1>0, <2>3
  <2> QED
    BY <2>4 DEF u
<1>4. ASSUME NEW c \in 1 .. n
      PROVE  /\ End(p, c - 1) <= End(p, c)
             /\ c * MaxChunk < Len(p) => End(p, c - 1) < End(p, c)
  <2> DEFINE u == c * MaxChunk
  <2>0. c \in Nat \ {0}
    OBVIOUS
  <2>1. u \in Nat /\ (c - 1) * MaxChunk = u - MaxChunk
    BY ONLY <1>0, <2>0
  <2> HIDE DEF u
  <2>2. /\ End(p, c - 1) = IF u - MaxChunk < Len(p) THEN u - MaxChunk ELSE Len(p)
        /\ End(p, c) = IF u < Len(p) THEN u ELSE Len(p)
    BY <2>1 DEF End, u
  <2>3. /\ End(p, c - 1) <= End(p, c)
        /\ u < Len(p) => End(p, c - 1) < End(p, c)
    BY ONLY <1>0, <2>1, <2>2
  <2> QED
    BY <2>3 DEF u
<1>5. End(p, 0) = 0
  <2>1. 0 * MaxChunk = 0
    BY <1>0
  <2> QED
    BY <1>0, <2>1 DEF End
<1>6. End(p, n) = Len(p)
  <2>1. n * MaxChunk \in Nat
    BY <1>1
  <2> QED
    BY <1>0, <2>1 DEF End
<1>7. ASSUME NEW c \in 1 .. n - 1 PROVE End(p, c) = c * MaxChunk /\ c \in 1 .. n
  BY <1>3 DEF End
<1>8. \A c \in 0 .. n : c \in Nat
  OBVIOUS
<1> QED
  BY <1>1, <1>3, <1>4, <1>5, <1>6, <1>7, <1>8

(* split_into_chunks: how many chunks there are, which is the last and what *)
(* each one holds.                                                          *)
LEMMA SplitFacts ==
  ASSUME NEW p \in Seq(Bytes)
  PROVE  LET s == SplitIntoChunks(p)
             n == Len(s)
         IN  /\ s \in Seq(Chunks) /\ n \in Nat \ {0}
             /\ (n - 1) * MaxChunk < Len(p) \/ n = 1
             /\ Len(p) <= n * MaxChunk
             /\ \A c \in 1 .. n : /\ s[c].final <=> c = n
                                  /\ s[c].body = SubSeq(p, End(p, c - 1) + 1, End(p, c))
<1> DEFINE s == SplitIntoChunks(p)
<1>0. Len(p) \in Nat /\ MaxChunk \in Nat /\ MaxChunk # 0
  BY LenProperties, NoiseAssumption
<1>1. CASE p = <<>>
  <2>1. Len(p) = 0
    BY <1>1
  <2>2. s = <<[final |-> TRUE, body |-> <<>>]>>
    BY <1>1 DEF SplitIntoChunks
  <2>3. <<>> \in Seq(Bytes)
    OBVIOUS
  <2>4. [final |-> TRUE, body |-> <<>>] \in Chunks
    BY <2>3 DEF Chunks
  <2>5. s \in Seq(Chunks) /\ Len(s) = 1 /\ s[1] = [final |-> TRUE, body |-> <<>>]
    BY <2>2, <2>4
  <2>6. End(p, 0) = 0 /\ End(p, 1) = 0
    BY <1>0, <2>1 DEF End
  <2>7. SubSeq(p, 0 + 1, 0) = <<>>
    BY <1>1, SubSeqEmpty
  <2> HIDE DEF s
  <2>8. s[1].final /\ s[1].body = SubSeq(p, End(p, 1 - 1) + 1, End(p, 1))
    BY <2>5, <2>6, <2>7
  <2>9. \A c \in 1 .. 1 : c = 1
    OBVIOUS
  <2>10. Len(p) <= 1 * MaxChunk
    BY <1>0, <2>1
  <2>11. /\ s \in Seq(Chunks) /\ Len(s) \in Nat \ {0} /\ Len(s) = 1 /\ Len(p) <= Len(s) * MaxChunk
         /\ \A c \in 1 .. Len(s) : /\ s[c].final <=> c = Len(s)
                                   /\ s[c].body = SubSeq(p, End(p, c - 1) + 1, End(p, c))
    <3>1. s \in Seq(Chunks) /\ Len(s) = 1
      BY <2>5
    <3>2. Len(s) \in Nat \ {0} /\ Len(p) <= Len(s) * MaxChunk
      BY <2>10, <3>1
    <3>3. ASSUME NEW c \in 1 .. Len(s)
          PROVE  /\ s[c].final <=> c = Len(s)
                 /\ s[c].body = SubSeq(p, End(p, c - 1) + 1, End(p, c))
      <4>1. c = 1
        BY <2>9, <3>1
      <4> QED
        BY <2>8, <3>1, <4>1
    <3> QED
      BY <3>1, <3>2, <3>3
  <2> QED
    BY <2>11 DEF s
<1>2. CASE p # <<>>
  <2> DEFINE n == DivCeilChunks(Len(p))
  <2>1. Len(p) \in Nat \ {0}
    BY <1>0, <1>2, EmptySeq
  <2>2. n \in Nat \ {0} /\ (n - 1) * MaxChunk < Len(p) /\ Len(p) <= n * MaxChunk
    BY <1>0, <2>1, DivCeilBounds DEF DivCeilChunks
  <2> HIDE DEF n
  <2> DEFINE chunk(c) == [final |-> c = n, body |-> SubSeq(p, End(p, c - 1) + 1, End(p, c))]
  <2>3. ASSUME NEW c \in 1 .. n
        PROVE  /\ End(p, c - 1) = (c - 1) * MaxChunk
               /\ End(p, c - 1) \in 0 .. Len(p) /\ End(p, c) \in 0 .. Len(p)
    <3>1. End(p, c - 1) \in 0 .. Len(p) /\ End(p, c) \in 0 .. Len(p)
      BY <2>2, EndsOfChunks
    <3>2. CASE c = 1
      <4>1. c - 1 = 0 /\ 0 * MaxChunk = 0
        BY <1>0, <3>2
      <4>2. End(p, 0) = 0
        BY <2>2, EndsOfChunks
      <4> QED
        BY <3>1, <4>1, <4>2
    <3>3. CASE c # 1
      <4>1. c - 1 \in 1 .. n - 1
        BY <2>2, <3>3
      <4> QED
        BY <2>2, <4>1, EndsOfChunks
    <3> QED
      BY <3>1, <3>2, <3>3
  <2>4. s = [c \in 1 .. n |-> chunk(c)]
    BY <1>2, <2>3 DEF SplitIntoChunks, FlaggedChunks, n, End
  <2>5. ASSUME NEW c \in 1 .. n PROVE chunk(c) \in Chunks
    <3>1. SubSeq(p, End(p, c - 1) + 1, End(p, c)) \in Seq(Bytes)
      BY <1>0, <2>3, SubSeqProperties
    <3> QED
      BY <3>1 DEF Chunks
  <2> HIDE DEF s
  <2>6. s \in [1 .. n -> Chunks]
    BY <2>4, <2>5
  <2>7. s \in Seq(Chunks)
    BY ONLY <2>2, <2>6, SeqDef
  <2>8. Len(s) = n
    BY ONLY <2>2, <2>6, <2>7, LenProperties
  <2>9. \A c \in 1 .. n : /\ s[c].final <=> c = n
                         /\ s[c].body = SubSeq(p, End(p, c - 1) + 1, End(p, c))
    BY <2>4
  <2> QED
    BY <2>2, <2>7, <2>8, <2>9 DEF s
<1> QED
  BY <1>1, <1>2

(* What recv makes of the next chunk of a payload: it refuses only a payload *)
(* above the limit, and what it returns is the payload.                      *)
LEMMA OutcomeOfChunk ==
  ASSUME NEW p \in Seq(Bytes), NEW soFar \in Seq(Chunks),
         Len(soFar) + 1 <= Len(SplitIntoChunks(p)),
         \A c \in 1 .. Len(soFar) : soFar[c] = SplitIntoChunks(p)[c],
         NEW max \in Nat
  PROVE  LET out == Outcome(soFar, SplitIntoChunks(p)[Len(soFar) + 1], max)
         IN  \/ out.is = "error" /\ Len(p) > max
             \/ /\ out.is = "message" /\ out.payload = p
                /\ Len(soFar) + 1 = Len(SplitIntoChunks(p))
             \/ out.is = "more" /\ Len(soFar) + 1 < Len(SplitIntoChunks(p))
<1> DEFINE s == SplitIntoChunks(p)
           n == Len(s)
           k == Len(soFar)
           chunk == s[k + 1]
           seqs == [i \in 1 .. k |-> soFar[i].body] \o <<chunk.body>>
<1>0. /\ Len(p) \in Nat /\ MaxChunk \in Nat /\ MaxChunk # 0 /\ k \in Nat
  BY LenProperties, NoiseAssumption
<1>1. /\ s \in Seq(Chunks) /\ n \in Nat \ {0}
      /\ (n - 1) * MaxChunk < Len(p) \/ n = 1
      /\ Len(p) <= n * MaxChunk
      /\ \A c \in 1 .. n : /\ s[c].final <=> c = n
                           /\ s[c].body = SubSeq(p, End(p, c - 1) + 1, End(p, c))
  BY SplitFacts
<1>2. k + 1 <= n /\ \A c \in 1 .. k : soFar[c] = s[c]
  OBVIOUS
<1> HIDE DEF s, n, k
<1>3. /\ End(p, 0) = 0 /\ End(p, n) = Len(p)
      /\ \A c \in 0 .. n : End(p, c) \in 0 .. Len(p)
      /\ \A c \in 1 .. n : End(p, c - 1) <= End(p, c)
      /\ \A c \in 1 .. n - 1 : End(p, c) = c * MaxChunk /\ c * MaxChunk < Len(p)
                               /\ End(p, c - 1) < End(p, c)
  BY <1>1, EndsOfChunks
<1>4. k + 1 \in 1 .. n /\ \A c \in 1 .. k + 1 : c \in 1 .. n /\ c - 1 \in 0 .. n /\ c \in 0 .. n
  BY <1>0, <1>1, <1>2
<1>5. Len(seqs) = k + 1 /\ \A i \in 1 .. k + 1 : seqs[i] = s[i].body
  <2> DEFINE a == [i \in 1 .. k |-> soFar[i].body]
             b == <<chunk.body>>
  <2>1. \A i \in 1 .. k + 1 : s[i].body \in Seq(Bytes)
    <3>1. \A i \in 1 .. n : s[i] \in Chunks
      BY <1>1, ElementOfSeq DEF n
    <3> QED
      BY <1>4, <3>1 DEF Chunks
  <2>2. k + 1 \in 1 .. k + 1 /\ \A i \in 1 .. k : i \in 1 .. k + 1
    BY <1>0
  <2>3. b \in Seq(Seq(Bytes)) /\ Len(b) = 1 /\ b[1] = s[k + 1].body
    BY <2>1, <2>2
  <2>4. a \in [1 .. k -> Seq(Bytes)] /\ \A i \in 1 .. k : a[i] = s[i].body
    BY <1>2, <2>1, <2>2
  <2> HIDE DEF a, b
  <2>5. a \in Seq(Seq(Bytes))
    BY ONLY <1>0, <2>4, SeqDef
  <2>6. Len(a) = k
    BY ONLY <1>0, <2>4, <2>5, LenProperties
  <2>7. /\ Len(a \o b) = k + 1
        /\ \A i \in 1 .. k + 1 : (a \o b)[i] = IF i <= k THEN a[i] ELSE b[i - k]
    <3>1. /\ Len(a \o b) = Len(a) + Len(b)
          /\ \A i \in 1 .. Len(a) + Len(b) :
                (a \o b)[i] = IF i <= Len(a) THEN a[i] ELSE b[i - Len(a)]
      BY ONLY <2>3, <2>5, ConcatProperties
    <3> QED
      BY ONLY <1>0, <2>3, <2>6, <3>1
  <2>8. ASSUME NEW i \in 1 .. k + 1 PROVE (a \o b)[i] = s[i].body
    <3>1. CASE i <= k
      <4>1. i \in 1 .. k
        BY <1>0, <3>1
      <4> QED
        BY <2>4, <2>7, <3>1, <4>1
    <3>2. CASE ~ (i <= k)
      <4>1. i = k + 1 /\ i - k = 1
        BY <1>0, <3>2
      <4> QED
        BY <2>3, <2>7, <3>2, <4>1
    <3> QED
      BY <3>1, <3>2
  <2> QED
    BY <2>7, <2>8 DEF a, b
<1>6. FlattenSeq(seqs) = SubSeq(p, 1, End(p, k + 1))
  <2> DEFINE ends == [c \in 0 .. n |-> End(p, c)]
  <2>1. \A c \in 0 .. n : ends[c] = End(p, c)
    OBVIOUS
  <2>2. 0 \in 0 .. n /\ k + 1 \in 0 .. n /\ k + 1 \in Nat \ {0}
    BY <1>0, <1>1, <1>4
  <2> HIDE DEF ends, seqs
  <2>3. ASSUME NEW i \in 1 .. k + 1
        PROVE  /\ ends[i - 1] \in 0 .. Len(p) /\ ends[i] \in 0 .. Len(p)
               /\ ends[i - 1] <= ends[i]
               /\ seqs[i] = SubSeq(p, ends[i - 1] + 1, ends[i])
    <3>1. i \in 1 .. n /\ i - 1 \in 0 .. n /\ i \in 0 .. n
      BY <1>4
    <3>2. ends[i - 1] = End(p, i - 1) /\ ends[i] = End(p, i)
      BY <2>1, <3>1
    <3>3. seqs[i] = SubSeq(p, End(p, i - 1) + 1, End(p, i))
      BY <1>1, <1>5, <3>1
    <3> QED
      BY <1>3, <3>1, <3>2, <3>3
  <2>4. ends[0] = 0 /\ ends[k + 1] = End(p, k + 1)
    BY <1>3, <2>1, <2>2
  <2>5. FlattenSeq(seqs) = SubSeq(p, 1, ends[k + 1])
    <3> DEFINE m == k + 1
    <3>1. m \in Nat \ {0} /\ Len(seqs) = m /\ ends[0] = 0
      BY <1>5, <2>2, <2>4
    <3>2. \A i \in 1 .. m : /\ ends[i - 1] \in 0 .. Len(p) /\ ends[i] \in 0 .. Len(p)
                           /\ ends[i - 1] <= ends[i]
                           /\ seqs[i] = SubSeq(p, ends[i - 1] + 1, ends[i])
      BY <2>3
    <3> HIDE DEF m
    <3>3. Slices(p, seqs, ends, m)
      BY <3>1, <3>2 DEF Slices
    <3>4. FlattenSeq(seqs) = SubSeq(p, 1, ends[m])
      BY <3>3, FlattenSlices, Zenon
    <3> QED
      BY <3>4 DEF m
  <2> QED
    BY <2>4, <2>5
<1> DEFINE message == FlattenSeq(seqs)
           e == End(p, k + 1)
<1>7. e \in 0 .. Len(p)
  BY <1>3, <1>4
<1> HIDE DEF e
<1>8. Len(message) = e /\ e <= Len(p)
  <2>1. \A i \in 1 .. e : p[i] \in Bytes
    BY <1>0, <1>7, ElementOfSeq
  <2>2. Len(SubSeq(p, 1, e)) = IF 1 <= e THEN e - 1 + 1 ELSE 0
    BY <1>0, <1>7, <2>1, SubSeqProperties
  <2> QED
    BY <1>0, <1>6, <1>7, <2>2 DEF e
<1>9. k + 1 = n => message = p
  <2>1. SubSeq(p, 1, Len(p)) = p
    BY SubSeqFull
  <2> QED
    BY <1>3, <1>6, <2>1
<1>10. chunk.final <=> k + 1 = n
  BY <1>1, <1>4
<1>11. k + 1 # n => chunk.body # <<>>
  <2> SUFFICES ASSUME k + 1 # n PROVE chunk.body # <<>>
    OBVIOUS
  <2> DEFINE a == End(p, k)
             b == End(p, k + 1)
  <2>1. k + 1 \in 1 .. n - 1 /\ (k + 1) - 1 = k /\ k \in 0 .. n /\ k + 1 \in 0 .. n
    BY <1>0, <1>1, <1>4
  <2>2. a \in 0 .. Len(p) /\ b \in 0 .. Len(p) /\ a < b
    BY <1>3, <2>1
  <2>3. chunk.body = SubSeq(p, a + 1, b)
    BY <1>1, <1>4, <2>1
  <2> HIDE DEF a, b
  <2>4. Len(SubSeq(p, a + 1, b)) = b - a
    <3>1. \A i \in a + 1 .. b : p[i] \in Bytes
      BY <1>0, <2>2, ElementOfSeq
    <3>2. Len(SubSeq(p, a + 1, b)) = IF a + 1 <= b THEN b - (a + 1) + 1 ELSE 0
      BY <1>0, <2>2, <3>1, SubSeqProperties
    <3> QED
      BY <1>0, <2>2, <3>2
  <2>5. Len(<<>>) = 0 /\ b - a # 0
    BY <1>0, <2>2
  <2> QED
    BY <2>3, <2>4, <2>5
<1>12. k + 1 > MaxChunks(max) => Len(p) > max
  <2> SUFFICES ASSUME k + 1 > MaxChunks(max) PROVE Len(p) > max
    OBVIOUS
  <2> DEFINE q == max \div MaxChunk
  <2>1. q \in Int /\ q * MaxChunk <= max /\ max < (q + 1) * MaxChunk
    BY <1>0, DivBounds
  <2>2. k + 1 > q + 2
    BY DEF MaxChunks
  <2> HIDE DEF q
  <2>3. q >= 0
    <3>1. CASE q + 1 <= 0
      <4>1. (q + 1) * MaxChunk <= 0 * MaxChunk
        BY <1>0, <2>1, <3>1, TimesMonotone
      <4> QED
        BY <1>0, <2>1, <4>1
    <3> QED
      BY <2>1, <3>1
  <2>4. k \in 1 .. n - 1 /\ q + 1 <= k
    BY <1>0, <1>1, <1>2, <2>1, <2>2, <2>3
  <2>5. k * MaxChunk < Len(p)
    BY <1>3, <2>4
  <2>6. (q + 1) * MaxChunk <= k * MaxChunk
    BY <1>0, <2>1, <2>4, TimesMonotone
  <2> DEFINE u == (q + 1) * MaxChunk
             v == k * MaxChunk
  <2>7. u \in Int /\ v \in Int /\ u <= v /\ v < Len(p) /\ max < u
    BY <1>0, <2>1, <2>5, <2>6
  <2> HIDE DEF u, v
  <2> QED
    BY <1>0, <2>7
<1> DEFINE refused == \/ k + 1 > MaxChunks(max)
                      \/ ~ chunk.final /\ chunk.body = <<>>
                      \/ Len(message) > max
           out == Outcome(soFar, chunk, max)
<1>13. out = IF refused THEN [is |-> "error"]
             ELSE IF chunk.final THEN [is |-> "message", payload |-> message]
             ELSE [is |-> "more"]
  BY DEF Outcome, k
<1> HIDE DEF message, chunk, out
<1>14. refused => Len(p) > max
  BY <1>0, <1>7, <1>8, <1>10, <1>11, <1>12
<1>15. CASE refused
  BY <1>13, <1>14, <1>15 DEF out, chunk, s, k
<1>16. CASE ~ refused /\ chunk.final
  <2>1. k + 1 = n /\ message = p
    BY <1>9, <1>10, <1>16
  <2> HIDE DEF refused
  <2>2. out.is = "message" /\ out.payload = p
    BY <1>13, <1>16, <2>1
  <2> QED
    BY <2>1, <2>2 DEF out, chunk, s, k, n
<1>17. CASE ~ refused /\ ~ chunk.final
  <2>1. k + 1 < n
    BY <1>0, <1>1, <1>2, <1>10, <1>17
  <2> HIDE DEF refused
  <2>2. out.is = "more"
    BY <1>13, <1>17
  <2> QED
    BY <2>1, <2>2 DEF out, chunk, s, k, n
<1> QED
  BY <1>15, <1>16, <1>17

-----------------------------------------------------------------------------
(* The inductive invariant *)

NoiseTypeOK ==
    /\ phone \in {"new", "wrote", "finished", "transport", "failed"}
    /\ host \in {"handshake", "session", "closed", "error"}
    /\ inbound \in Seq(Nat) /\ upRead \in Nat /\ downRead \in Nat
    /\ assembled \in Seq(Chunks)
    /\ upFrames \in Seq(Chunks) /\ downFrames \in Seq(Chunks)
    /\ upSent \in Seq(Seq(Bytes)) /\ downSent \in Seq(Seq(Bytes))
    /\ upGot \in Seq(Seq(Bytes)) /\ downGot \in Seq(Seq(Bytes))

(* The frames of a direction are the handshake message and the chunks of    *)
(* what was sent, those of message i behind frame at[i].                    *)
LaidOut(frames, sent, at) ==
    /\ at \in Seq(Nat) /\ Len(at) = Len(sent) + 1
    /\ at[1] = 1 /\ at[Len(sent) + 1] = Len(frames)
    /\ \A i, j \in 1 .. Len(sent) + 1 : i <= j => at[i] <= at[j]
    /\ \A i \in 1 .. Len(sent) :
         /\ at[i + 1] = at[i] + Len(SplitIntoChunks(sent[i]))
         /\ \A c \in 1 .. Len(SplitIntoChunks(sent[i])) :
              frames[at[i] + c] = SplitIntoChunks(sent[i])[c]

Begins(got, sent) == Len(got) <= Len(sent) /\ \A i \in 1 .. Len(got) : got[i] = sent[i]

(* A session has read the messages it returned and, of the next one, the    *)
(* chunks it holds, which are not yet all.                                  *)
Reading(at) ==
    LET g == Len(upGot)
        k == Len(assembled)
    IN  /\ upRead = 2 * (at[g + 1] + k)
        /\ g = Len(upSent) => k = 0
        /\ g < Len(upSent) => /\ k < Len(SplitIntoChunks(upSent[g + 1]))
                              /\ \A c \in 1 .. k : assembled[c] = SplitIntoChunks(upSent[g + 1])[c]

UpInv ==
    /\ Begins(upGot, upSent)
    /\ \/ upFrames = <<>> /\ upSent = <<>>
       \/ \E at : LaidOut(upFrames, upSent, at) /\ (host = "session" => Reading(at))

(* Every message the phone was given was one frame. *)
DownInv ==
    /\ Begins(downGot, downSent)
    /\ \/ downFrames = <<>> /\ downSent = <<>>
       \/ \E at : /\ LaidOut(downFrames, downSent, at)
                  /\ \A i \in 1 .. Len(downGot) + 1 : at[i] = i

(* The pieces the phone is done with. *)
Consumed == IF phone \in {"new", "wrote"} THEN 0 ELSE 2 * (Len(downGot) + 1)

(* The phone's buffer holds pieces it was pushed: all that it is not done   *)
(* with, unless a push was refused.                                         *)
BufferInv ==
    /\ downRead <= 2 * Len(downFrames)
    /\ \A i \in 1 .. Len(inbound) : inbound[i] \in 1 .. downRead
    /\ ~ rejected /\ phone # "failed" =>
         Len(inbound) = downRead - Consumed /\ \A i \in 1 .. Len(inbound) : inbound[i] = Consumed + i

PhaseInv ==
    /\ phone = "new" => upFrames = <<>>
    /\ phone \in {"wrote", "finished", "transport"} => upFrames # <<>>
    /\ phone \in {"new", "wrote", "finished"} => downGot = <<>>
    /\ host = "handshake" => downFrames = <<>> /\ upGot = <<>> /\ assembled = <<>>
    /\ host = "session" => upFrames # <<>> /\ downFrames # <<>>

CauseInv ==
    /\ host = "error" =>
         cut \/ \E i \in 1 .. Len(upSent) : Len(upSent[i]) > MaxMessage
    /\ phone = "failed" =>
         rejected \/ hasty \/ \E i \in 1 .. Len(downSent) : Len(downSent[i]) > MaxChunk

NoiseInv == NoiseTypeOK /\ UpInv /\ DownInv /\ BufferInv /\ PhaseInv /\ CauseInv

-----------------------------------------------------------------------------
(* How the frames of a direction grow *)

(* The handshake message is framed like a chunk. *)
LEMMA HandshakeIsChunk == HandshakeFrame \in Chunks
<1>1. "handshake" \in Bytes
  BY DEF Bytes
<1>2. <<"handshake">> \in Seq(Bytes)
  BY <1>1
<1> QED
  BY <1>2 DEF HandshakeFrame, Chunks

(* A direction starts with the handshake message and nothing sent. *)
LEMMA LaidOutStarts == LaidOut(<<HandshakeFrame>>, <<>>, <<1>>)
<1>1. /\ <<1>> \in Seq(Nat) /\ Len(<<1>>) = 1 /\ <<1>>[1] = 1
      /\ Len(<<>>) = 0 /\ Len(<<HandshakeFrame>>) = 1
  OBVIOUS
<1>2. 1 .. 0 = {} /\ 0 + 1 = 1 /\ \A i \in 1 .. 1 : i = 1
  OBVIOUS
<1> QED
  BY <1>1, <1>2 DEF LaidOut

(* A direction that is laid out has its handshake message. *)
LEMMA LaidOutNotEmpty ==
  ASSUME NEW frames, NEW sent \in Seq(Seq(Bytes)), NEW at, LaidOut(frames, sent, at)
  PROVE  frames # <<>> /\ Len(frames) \in Nat /\ Len(frames) >= 1
<1>1. Len(sent) \in Nat
  BY LenProperties
<1>2. 1 \in 1 .. Len(sent) + 1 /\ Len(sent) + 1 \in 1 .. Len(sent) + 1
  BY <1>1
<1>3. at[1] = 1 /\ at[Len(sent) + 1] = Len(frames) /\ at[1] <= at[Len(sent) + 1]
  BY <1>1, <1>2 DEF LaidOut
<1>4. at[Len(sent) + 1] \in Nat
  BY <1>2, ElementOfSeq DEF LaidOut
<1>5. Len(<<>>) = 0
  OBVIOUS
<1> QED
  BY <1>3, <1>4, <1>5

(* The chunks of one more message go behind the frames there are. *)
LEMMA LaidOutGrows ==
  ASSUME NEW frames \in Seq(Chunks), NEW sent \in Seq(Seq(Bytes)), NEW at,
         LaidOut(frames, sent, at), NEW p \in Seq(Bytes)
  PROVE  LET s == SplitIntoChunks(p)
             more == Append(at, Len(frames) + Len(s))
         IN  /\ LaidOut(frames \o s, Append(sent, p), more)
             /\ \A i \in 1 .. Len(sent) + 1 : more[i] = at[i]
<1> DEFINE s == SplitIntoChunks(p)
           n == Len(sent)
           f == Len(frames)
           more == Append(at, f + Len(s))
           sent2 == Append(sent, p)
           frames2 == frames \o s
<1>0. n \in Nat /\ f \in Nat
  BY LenProperties
<1>1. s \in Seq(Chunks) /\ Len(s) \in Nat \ {0}
  BY SplitFacts
<1> HIDE DEF s
<1>2. /\ sent2 \in Seq(Seq(Bytes)) /\ Len(sent2) = n + 1
      /\ \A i \in 1 .. n : sent2[i] = sent[i]
      /\ sent2[n + 1] = p
  BY <1>0, AppendProperties
<1>3. at \in Seq(Nat) /\ Len(at) = n + 1 /\ f + Len(s) \in Nat
  BY <1>0, <1>1 DEF LaidOut
<1>4. /\ more \in Seq(Nat) /\ Len(more) = n + 2
      /\ \A i \in 1 .. n + 1 : more[i] = at[i] /\ more[i] \in Nat
      /\ more[n + 2] = f + Len(s)
  <2>1. more \in Seq(Nat) /\ Len(more) = Len(at) + 1
        /\ \A i \in 1 .. Len(at) : more[i] = at[i]
        /\ more[Len(at) + 1] = f + Len(s)
    BY <1>3, AppendProperties
  <2>2. \A i \in 1 .. Len(at) : at[i] \in Nat
    BY <1>3, ElementOfSeq
  <2>3. Len(at) + 1 = n + 2
    BY <1>0, <1>3
  <2> QED
    BY <1>3, <2>1, <2>2, <2>3
<1>5. /\ Len(frames2) = f + Len(s)
      /\ \A i \in 1 .. f : frames2[i] = frames[i]
      /\ \A c \in 1 .. Len(s) : frames2[f + c] = s[c]
  <2>1. /\ Len(frames2) = f + Len(s)
        /\ \A i \in 1 .. f + Len(s) : frames2[i] = IF i <= f THEN frames[i] ELSE s[i - f]
    BY <1>1, ConcatProperties
  <2>2. \A i \in 1 .. f : i \in 1 .. f + Len(s) /\ i <= f
    BY <1>0, <1>1
  <2>3. \A c \in 1 .. Len(s) : f + c \in 1 .. f + Len(s) /\ ~ (f + c <= f) /\ (f + c) - f = c
    BY <1>0, <1>1
  <2> HIDE DEF frames2, f
  <2> QED
    BY <2>1, <2>2, <2>3
<1>6. /\ at[1] = 1 /\ at[n + 1] = f
      /\ \A i, j \in 1 .. n + 1 : i <= j => at[i] <= at[j]
      /\ \A i \in 1 .. n : /\ at[i + 1] = at[i] + Len(SplitIntoChunks(sent[i]))
                           /\ \A c \in 1 .. Len(SplitIntoChunks(sent[i])) :
                                frames[at[i] + c] = SplitIntoChunks(sent[i])[c]
  BY DEF LaidOut
<1> HIDE DEF n, f, more, sent2, frames2
<1>7. 1 \in 1 .. n + 1 /\ n + 1 \in 1 .. n + 1 /\ (n + 1) + 1 = n + 2
  BY <1>0
<1>8. more[1] = 1 /\ more[n + 1] = f
  BY <1>4, <1>6, <1>7
<1>9. ASSUME NEW i \in 1 .. n + 2, NEW j \in 1 .. n + 2, i <= j PROVE more[i] <= more[j]
  <2>1. CASE j # n + 2
    <3>1. i \in 1 .. n + 1 /\ j \in 1 .. n + 1
      BY <1>0, <1>9, <2>1
    <3> QED
      BY <1>4, <1>6, <1>9, <3>1
  <2>2. CASE j = n + 2 /\ i # n + 2
    <3>1. i \in 1 .. n + 1 /\ i <= n + 1
      BY <1>0, <2>2
    <3>2. more[i] <= f /\ more[i] \in Nat
      BY <1>4, <1>6, <1>7, <3>1
    <3> QED
      BY <1>0, <1>1, <1>4, <2>2, <3>2
  <2>3. CASE j = n + 2 /\ i = n + 2
    BY <1>3, <1>4, <2>3
  <2> QED
    BY <2>1, <2>2, <2>3
<1>10. ASSUME NEW i \in 1 .. n + 1
       PROVE  /\ more[i + 1] = more[i] + Len(SplitIntoChunks(sent2[i]))
              /\ \A c \in 1 .. Len(SplitIntoChunks(sent2[i])) :
                   frames2[more[i] + c] = SplitIntoChunks(sent2[i])[c]
  <2>1. CASE i = n + 1
    <3>1. sent2[i] = p /\ more[i] = f /\ more[i + 1] = f + Len(s)
      BY <1>2, <1>4, <1>7, <1>8, <2>1
    <3> QED
      BY <1>5, <3>1 DEF s
  <2>2. CASE i # n + 1
    <3>1. i \in 1 .. n /\ i \in 1 .. n + 1 /\ i + 1 \in 1 .. n + 1 /\ i + 1 <= n + 1
      BY <1>0, <2>2
    <3> DEFINE t == SplitIntoChunks(sent[i])
    <3>2. sent2[i] = sent[i] /\ more[i] = at[i] /\ more[i + 1] = at[i + 1] /\ at[i] \in Nat
      BY <1>2, <1>4, <3>1
    <3>3. at[i + 1] = at[i] + Len(t) /\ \A c \in 1 .. Len(t) : frames[at[i] + c] = t[c]
      BY <1>6, <3>1
    <3>4. Len(t) \in Nat
      <4>1. sent[i] \in Seq(Bytes)
        BY <3>1, ElementOfSeq DEF n
      <4> QED
        BY <4>1, SplitFacts
    <3> HIDE DEF t
    <3>5. at[i + 1] <= f
      BY <1>6, <1>7, <3>1
    <3>6. ASSUME NEW c \in 1 .. Len(t) PROVE frames2[at[i] + c] = t[c]
      <4>1. at[i] + c \in 1 .. f
        BY <1>0, <3>2, <3>3, <3>4, <3>5
      <4> QED
        BY <1>5, <3>3, <4>1
    <3> QED
      BY <3>2, <3>3, <3>6 DEF t
  <2> QED
    BY <2>1, <2>2
<1>11. LaidOut(frames2, sent2, more)
  <2>1. Len(more) = Len(sent2) + 1 /\ more[Len(sent2) + 1] = Len(frames2)
    BY <1>0, <1>2, <1>4, <1>5
  <2>2. 1 .. Len(sent2) + 1 = 1 .. n + 2 /\ 1 .. Len(sent2) = 1 .. n + 1
    BY <1>0, <1>2
  <2> QED
    BY <1>4, <1>8, <1>9, <1>10, <2>1, <2>2 DEF LaidOut
<1> QED
  BY <1>4, <1>11 DEF s, n, f, more, sent2, frames2

-----------------------------------------------------------------------------
(* The steps *)

(* A new connection satisfies the invariant. *)
LEMMA NoiseStarts == NoiseInit => NoiseInv
<1> SUFFICES ASSUME NoiseInit PROVE NoiseInv
  OBVIOUS
<1> USE DEF NoiseInit
<1>1. Len(<<>>) = 0 /\ 1 .. 0 = {}
  OBVIOUS
<1>2. NoiseTypeOK
  BY DEF NoiseTypeOK
<1>3. UpInv /\ DownInv
  BY <1>1 DEF UpInv, DownInv, Begins
<1>4. BufferInv
  <2>1. Consumed = 0 /\ Len(inbound) = 0 /\ Len(downFrames) = 0 /\ downRead = 0
    BY DEF Consumed
  <2> QED
    BY ONLY <1>1, <2>1 DEF BufferInv
<1>5. PhaseInv /\ CauseInv
  BY DEF PhaseInv, CauseInv
<1> QED
  BY <1>2, <1>3, <1>4, <1>5 DEF NoiseInv

(* write_message preserves the invariant. *)
LEMMA PhoneWritesKeeps == NoiseInv /\ PhoneWrites => NoiseInv'
<1> SUFFICES ASSUME NoiseInv, PhoneWrites PROVE NoiseInv'
  OBVIOUS
<1>0. /\ phone = "new" /\ phone' = "wrote" /\ upFrames' = <<HandshakeFrame>>
      /\ UNCHANGED <<inbound, downRead, downGot, rejected, hasty, host, assembled, upRead, upGot,
                     downFrames, upSent, downSent, cut>>
  BY DEF PhoneWrites, hostVars
<1>1. upFrames = <<>> /\ host # "session"
  BY <1>0 DEF NoiseInv, PhaseInv
<1>2. upSent = <<>>
  BY <1>1, LaidOutNotEmpty DEF NoiseInv, UpInv, NoiseTypeOK
<1>3. NoiseTypeOK'
  BY <1>0, HandshakeIsChunk DEF NoiseInv, NoiseTypeOK
<1>4. UpInv'
  BY <1>0, <1>1, <1>2, LaidOutStarts DEF NoiseInv, UpInv
<1>5. DownInv'
  BY <1>0 DEF NoiseInv, DownInv
<1>6. BufferInv'
  BY <1>0 DEF NoiseInv, BufferInv, Consumed
<1>7. PhaseInv'
  <2>1. upFrames' # <<>>
    BY <1>0
  <2> QED
    BY <1>0, <1>1, <2>1 DEF NoiseInv, PhaseInv
<1>8. CauseInv'
  BY <1>0 DEF NoiseInv, CauseInv
<1> QED
  BY <1>3, <1>4, <1>5, <1>6, <1>7, <1>8 DEF NoiseInv

(* into_transport preserves the invariant: the buffer goes across as it is. *)
LEMMA IntoTransportKeeps == NoiseInv /\ IntoTransport => NoiseInv'
<1> SUFFICES ASSUME NoiseInv, IntoTransport PROVE NoiseInv'
  OBVIOUS
<1>0. UNCHANGED <<downRead, downGot, rejected, host, assembled, upRead, upGot, upFrames, downFrames,
                  upSent, downSent, cut>>
  BY DEF IntoTransport, hostVars, wireVars
<1>1. UpInv' /\ DownInv'
  <2>1. UpInv'
    BY <1>0 DEF NoiseInv, UpInv, Reading
  <2>2. DownInv'
    BY <1>0 DEF NoiseInv, DownInv
  <2> QED
    BY <2>1, <2>2
<1>2. CASE phone = "finished"
  <2>1. phone' = "transport" /\ inbound' = inbound /\ hasty' = hasty
    BY <1>2 DEF IntoTransport
  <2>2. NoiseTypeOK'
    BY <1>0, <2>1 DEF NoiseInv, NoiseTypeOK
  <2>3. BufferInv'
    BY <1>0, <1>2, <2>1 DEF NoiseInv, BufferInv, Consumed
  <2>4. PhaseInv'
    BY <1>0, <1>2, <2>1 DEF NoiseInv, PhaseInv
  <2>5. CauseInv'
    BY <1>0, <2>1 DEF NoiseInv, CauseInv
  <2> QED
    BY <1>1, <2>2, <2>3, <2>4, <2>5 DEF NoiseInv
<1>3. CASE phone # "finished"
  <2>1. phone' = "failed" /\ inbound' = <<>> /\ hasty' = TRUE
    BY <1>3 DEF IntoTransport
  <2>2. NoiseTypeOK'
    BY <1>0, <2>1 DEF NoiseInv, NoiseTypeOK
  <2>3. BufferInv'
    BY <1>0, <2>1 DEF NoiseInv, BufferInv
  <2>4. PhaseInv'
    BY <1>0, <2>1 DEF NoiseInv, PhaseInv
  <2>5. CauseInv'
    BY <1>0, <2>1 DEF NoiseInv, CauseInv
  <2> QED
    BY <1>1, <2>2, <2>3, <2>4, <2>5 DEF NoiseInv
<1> QED
  BY <1>2, <1>3

(* run_responder preserves the invariant. *)
LEMMA HostAcceptsKeeps == NoiseInv /\ HostAccepts => NoiseInv'
<1> SUFFICES ASSUME NoiseInv, HostAccepts PROVE NoiseInv'
  OBVIOUS
<1>0. /\ host = "handshake" /\ upFrames # <<>> /\ upRead' = 2 /\ host' = "session"
      /\ downFrames' = <<HandshakeFrame>>
      /\ UNCHANGED <<phone, inbound, downRead, downGot, rejected, hasty, assembled, upGot, upFrames,
                     upSent, downSent, cut>>
  BY DEF HostAccepts, phoneVars
<1>1. downFrames = <<>> /\ upGot = <<>> /\ assembled = <<>>
  BY <1>0 DEF NoiseInv, PhaseInv
<1>2. downSent = <<>>
  BY <1>1, LaidOutNotEmpty DEF NoiseInv, DownInv, NoiseTypeOK
<1>3. Len(downGot) = 0 /\ Len(upGot) = 0 /\ Len(assembled) = 0
  BY <1>1, <1>2 DEF NoiseInv, DownInv, Begins, NoiseTypeOK
<1>4. NoiseTypeOK'
  BY <1>0, HandshakeIsChunk DEF NoiseInv, NoiseTypeOK
<1>5. UpInv'
  <2>1. PICK at : LaidOut(upFrames, upSent, at)
    BY <1>0 DEF NoiseInv, UpInv
  <2>2. Len(upSent) \in Nat /\ at[1] = 1
    BY <2>1, LenProperties DEF LaidOut, NoiseInv, NoiseTypeOK
  <2>3. 0 < Len(upSent) => 0 < Len(SplitIntoChunks(upSent[0 + 1]))
    <3> SUFFICES ASSUME 0 < Len(upSent) PROVE 0 < Len(SplitIntoChunks(upSent[0 + 1]))
      OBVIOUS
    <3>1. 0 + 1 \in 1 .. Len(upSent)
      BY <2>2
    <3>2. upSent[0 + 1] \in Seq(Bytes)
      BY <3>1, ElementOfSeq DEF NoiseInv, NoiseTypeOK
    <3> QED
      BY <3>2, SplitFacts
  <2>4. Reading(at)'
    <3>1. 1 .. 0 = {} /\ 0 + 1 = 1 /\ 2 * (1 + 0) = 2
      OBVIOUS
    <3> QED
      BY <1>0, <1>3, <2>2, <2>3, <3>1 DEF Reading
  <2> QED
    BY <1>0, <2>1, <2>4 DEF NoiseInv, UpInv
<1>6. DownInv'
  <2>1. \A i \in 1 .. 0 + 1 : <<1>>[i] = i
    OBVIOUS
  <2> QED
    BY <1>0, <1>2, <1>3, <2>1, LaidOutStarts DEF NoiseInv, DownInv
<1>7. BufferInv'
  <2>1. Len(downFrames) = 0 /\ Len(downFrames') = 1
    BY <1>0, <1>1
  <2>2. downRead <= 2 * Len(downFrames')
    BY <2>1 DEF NoiseInv, BufferInv, NoiseTypeOK
  <2> QED
    BY <1>0, <2>2 DEF NoiseInv, BufferInv, Consumed
<1>8. PhaseInv'
  <2>1. downFrames' # <<>>
    BY <1>0
  <2> QED
    BY <1>0, <2>1 DEF NoiseInv, PhaseInv
<1>9. CauseInv'
  BY <1>0 DEF NoiseInv, CauseInv
<1> QED
  BY <1>4, <1>5, <1>6, <1>7, <1>8, <1>9 DEF NoiseInv

(* The stream ends, or the connection breaks. *)
LEMMA EndsKeep == NoiseInv /\ (HostEof \/ Cut) => NoiseInv'
<1> SUFFICES ASSUME NoiseInv, HostEof \/ Cut PROVE NoiseInv'
  OBVIOUS
<1>0. /\ UNCHANGED <<phone, inbound, downRead, downGot, rejected, hasty, assembled, upRead, upGot,
                     upFrames, downFrames, upSent, downSent>>
      /\ \/ host' \in {"closed", "error"} /\ cut /\ cut'
         \/ host' = host /\ cut'
  BY DEF HostEof, Cut, phoneVars, hostVars, wireVars
<1>1. NoiseTypeOK'
  BY <1>0 DEF NoiseInv, NoiseTypeOK
<1>2. UpInv'
  BY <1>0 DEF NoiseInv, UpInv, Reading
<1>3. DownInv' /\ BufferInv'
  BY <1>0 DEF NoiseInv, DownInv, BufferInv, Consumed
<1>4. PhaseInv' /\ CauseInv'
  BY <1>0 DEF NoiseInv, PhaseInv, CauseInv
<1> QED
  BY <1>1, <1>2, <1>3, <1>4 DEF NoiseInv

(* A message more, on either side. *)
LEMMA BeginsGrows ==
  ASSUME NEW got \in Seq(Seq(Bytes)), NEW sent \in Seq(Seq(Bytes)), NEW p \in Seq(Bytes),
         Begins(got, sent)
  PROVE  /\ Begins(got, Append(sent, p))
         /\ Len(got) < Len(sent) /\ p = sent[Len(got) + 1] => Begins(Append(got, p), sent)
<1>0. Len(got) \in Nat /\ Len(sent) \in Nat
  BY LenProperties
<1>1. /\ Len(Append(sent, p)) = Len(sent) + 1
      /\ \A i \in 1 .. Len(sent) : Append(sent, p)[i] = sent[i]
  BY AppendProperties
<1>2. /\ Len(Append(got, p)) = Len(got) + 1
      /\ \A i \in 1 .. Len(got) : Append(got, p)[i] = got[i]
      /\ Append(got, p)[Len(got) + 1] = p
  BY AppendProperties
<1>3. Len(got) <= Len(sent) /\ \A i \in 1 .. Len(got) : got[i] = sent[i] /\ i \in 1 .. Len(sent)
  BY <1>0 DEF Begins
<1>4. Begins(got, Append(sent, p))
  BY <1>0, <1>1, <1>3 DEF Begins
<1>5. ASSUME Len(got) < Len(sent), p = sent[Len(got) + 1] PROVE Begins(Append(got, p), sent)
  <2>1. \A i \in 1 .. Len(got) + 1 : i \in 1 .. Len(got) \/ i = Len(got) + 1
    BY <1>0
  <2>2. \A i \in 1 .. Len(got) + 1 : Append(got, p)[i] = sent[i]
    BY <1>2, <1>3, <1>5, <2>1
  <2> QED
    BY <1>0, <1>2, <1>5, <2>2 DEF Begins
<1> QED
  BY <1>4, <1>5

(* encrypt preserves the invariant. *)
LEMMA PhoneSendsKeeps ==
  ASSUME NEW len \in UpLengths, NoiseInv, PhoneSends(len)
  PROVE  NoiseInv'
<1> DEFINE p == Payload(Len(upSent) + 1, len)
           s == SplitIntoChunks(p)
<1>0. /\ phone = "transport" /\ upSent' = Append(upSent, p) /\ upFrames' = upFrames \o s
      /\ UNCHANGED <<phone, inbound, downRead, downGot, rejected, hasty, host, assembled, upRead, upGot,
                     downFrames, downSent, cut>>
  BY DEF PhoneSends, phoneVars, hostVars
<1>1. p \in Seq(Bytes) /\ Len(upSent) \in Nat
  <2>1. len \in Nat /\ Len(upSent) \in Nat
    BY NoiseAssumption, LenProperties DEF NoiseInv, NoiseTypeOK
  <2> QED
    BY <2>1, PayloadType
<1> HIDE DEF p
<1>2. s \in Seq(Chunks) /\ Len(s) \in Nat \ {0}
  BY <1>1, SplitFacts
<1>3. /\ upSent' \in Seq(Seq(Bytes)) /\ Len(upSent') = Len(upSent) + 1
      /\ \A i \in 1 .. Len(upSent) : upSent'[i] = upSent[i]
      /\ upSent'[Len(upSent) + 1] = p
  BY <1>0, <1>1, AppendProperties DEF NoiseInv, NoiseTypeOK
<1>4. NoiseTypeOK'
  <2>1. upFrames' \in Seq(Chunks)
    BY <1>0, <1>2, ConcatProperties DEF NoiseInv, NoiseTypeOK
  <2> QED
    BY <1>0, <1>3, <2>1 DEF NoiseInv, NoiseTypeOK
<1>5. PICK at : LaidOut(upFrames, upSent, at) /\ (host = "session" => Reading(at))
  BY <1>0 DEF NoiseInv, PhaseInv, UpInv
<1>6. PICK more : /\ LaidOut(upFrames', upSent', more)
                  /\ \A i \in 1 .. Len(upSent) + 1 : more[i] = at[i]
  <2>1. upFrames \in Seq(Chunks) /\ upSent \in Seq(Seq(Bytes))
    BY DEF NoiseInv, NoiseTypeOK
  <2> DEFINE next == Append(at, Len(upFrames) + Len(s))
  <2>2. /\ LaidOut(upFrames \o s, Append(upSent, p), next)
        /\ \A i \in 1 .. Len(upSent) + 1 : next[i] = at[i]
    BY <1>1, <1>5, <2>1, LaidOutGrows
  <2> HIDE DEF next, s
  <2> QED
    BY <1>0, <2>2
<1> HIDE DEF s
<1>7. ASSUME host = "session" PROVE Reading(more)'
  <2> DEFINE g == Len(upGot)
             k == Len(assembled)
  <2>1. g \in Nat /\ k \in Nat /\ g <= Len(upSent)
    BY LenProperties DEF NoiseInv, NoiseTypeOK, UpInv, Begins
  <2>2. /\ upRead = 2 * (at[g + 1] + k)
        /\ g = Len(upSent) => k = 0
        /\ g < Len(upSent) => /\ k < Len(SplitIntoChunks(upSent[g + 1]))
                              /\ \A c \in 1 .. k : assembled[c] = SplitIntoChunks(upSent[g + 1])[c]
    BY <1>5, <1>7 DEF Reading
  <2>3. g + 1 \in 1 .. Len(upSent) + 1 /\ g < Len(upSent) + 1 /\ g # Len(upSent) + 1
        /\ (g < Len(upSent) => g + 1 \in 1 .. Len(upSent))
    BY <1>1, <2>1
  <2>4. more[g + 1] = at[g + 1]
    BY <1>6, <2>3
  <2>5. CASE g = Len(upSent)
    <3>1. k = 0 /\ 1 .. 0 = {}
      BY <2>2, <2>5
    <3>2. upSent'[g + 1] = p
      BY <1>3, <2>5
    <3>3. k < Len(SplitIntoChunks(upSent'[g + 1])) /\ 1 .. k = {}
      BY <1>2, <3>1, <3>2 DEF s
    <3> QED
      BY <1>0, <1>3, <2>2, <2>3, <2>4, <3>3 DEF Reading
  <2>6. CASE g < Len(upSent)
    <3>1. upSent'[g + 1] = upSent[g + 1]
      BY <1>3, <2>3, <2>6
    <3> QED
      BY <1>0, <1>3, <2>2, <2>3, <2>4, <2>6, <3>1 DEF Reading
  <2> QED
    BY <1>1, <2>1, <2>5, <2>6
<1>8. UpInv'
  <2>1. Begins(upGot', upSent')
    BY <1>0, <1>1, BeginsGrows DEF NoiseInv, NoiseTypeOK, UpInv
  <2> QED
    BY <1>0, <1>6, <1>7, <2>1 DEF UpInv
<1>9. DownInv' /\ BufferInv'
  BY <1>0 DEF NoiseInv, DownInv, BufferInv, Consumed
<1>10. PhaseInv'
  <2>1. upFrames' # <<>>
    BY <1>3, <1>6, LaidOutNotEmpty
  <2> QED
    BY <1>0, <2>1 DEF NoiseInv, PhaseInv
<1>11. CauseInv'
  <2>1. \A i \in 1 .. Len(upSent) : i \in 1 .. Len(upSent) + 1
    BY <1>1
  <2> QED
    BY <1>0, <1>3, <2>1 DEF NoiseInv, CauseInv
<1> QED
  BY <1>4, <1>8, <1>9, <1>10, <1>11 DEF NoiseInv

(* send preserves the invariant. *)
LEMMA HostSendsKeeps ==
  ASSUME NEW len \in DownLengths, NoiseInv, HostSends(len)
  PROVE  NoiseInv'
<1> DEFINE p == Payload(Len(downSent) + 1, len)
           s == SplitIntoChunks(p)
<1>0. /\ host = "session" /\ downSent' = Append(downSent, p) /\ downFrames' = downFrames \o s
      /\ UNCHANGED <<phone, inbound, downRead, downGot, rejected, hasty, host, assembled, upRead, upGot,
                     upFrames, upSent, cut>>
  BY DEF HostSends, phoneVars, hostVars
<1>1. p \in Seq(Bytes) /\ Len(downSent) \in Nat
  <2>1. len \in Nat /\ Len(downSent) \in Nat
    BY NoiseAssumption, LenProperties DEF NoiseInv, NoiseTypeOK
  <2> QED
    BY <2>1, PayloadType
<1> HIDE DEF p
<1>2. s \in Seq(Chunks) /\ Len(s) \in Nat \ {0}
  BY <1>1, SplitFacts
<1>3. /\ downSent' \in Seq(Seq(Bytes)) /\ Len(downSent') = Len(downSent) + 1
      /\ \A i \in 1 .. Len(downSent) : downSent'[i] = downSent[i]
  BY <1>0, <1>1, AppendProperties DEF NoiseInv, NoiseTypeOK
<1>4. downFrames' \in Seq(Chunks) /\ Len(downFrames') = Len(downFrames) + Len(s)
  BY <1>0, <1>2, ConcatProperties DEF NoiseInv, NoiseTypeOK
<1>5. NoiseTypeOK'
  BY <1>0, <1>3, <1>4 DEF NoiseInv, NoiseTypeOK
<1>6. PICK at : LaidOut(downFrames, downSent, at) /\ \A i \in 1 .. Len(downGot) + 1 : at[i] = i
  BY <1>0 DEF NoiseInv, PhaseInv, DownInv
<1>7. PICK more : /\ LaidOut(downFrames', downSent', more)
                  /\ \A i \in 1 .. Len(downSent) + 1 : more[i] = at[i]
  <2>1. downFrames \in Seq(Chunks) /\ downSent \in Seq(Seq(Bytes))
    BY DEF NoiseInv, NoiseTypeOK
  <2> DEFINE next == Append(at, Len(downFrames) + Len(s))
  <2>2. /\ LaidOut(downFrames \o s, Append(downSent, p), next)
        /\ \A i \in 1 .. Len(downSent) + 1 : next[i] = at[i]
    BY <1>1, <1>6, <2>1, LaidOutGrows
  <2> HIDE DEF next, s
  <2> QED
    BY <1>0, <2>2
<1> HIDE DEF s
<1>8. DownInv'
  <2>1. Begins(downGot', downSent')
    BY <1>0, <1>1, BeginsGrows DEF NoiseInv, NoiseTypeOK, DownInv
  <2>2. Len(downGot) \in Nat /\ Len(downGot) <= Len(downSent)
    BY LenProperties DEF NoiseInv, NoiseTypeOK, DownInv, Begins
  <2>3. \A i \in 1 .. Len(downGot) + 1 : i \in 1 .. Len(downSent) + 1
    BY <1>1, <2>2
  <2>4. \A i \in 1 .. Len(downGot) + 1 : more[i] = i
    BY <1>6, <1>7, <2>3
  <2> QED
    BY <1>0, <1>7, <2>1, <2>4 DEF DownInv
<1>9. UpInv'
  BY <1>0 DEF NoiseInv, UpInv, Reading
<1>10. BufferInv'
  <2>1. Len(downFrames) \in Nat /\ downRead \in Nat /\ downRead <= 2 * Len(downFrames)
    BY LenProperties DEF NoiseInv, NoiseTypeOK, BufferInv
  <2>2. downRead <= 2 * Len(downFrames')
    BY <1>2, <1>4, <2>1
  <2> QED
    BY <1>0, <2>2 DEF NoiseInv, BufferInv, Consumed
<1>11. PhaseInv'
  <2>1. downFrames' # <<>>
    BY <1>3, <1>7, LaidOutNotEmpty
  <2> QED
    BY <1>0, <2>1 DEF NoiseInv, PhaseInv
<1>12. CauseInv'
  <2>1. \A i \in 1 .. Len(downSent) : i \in 1 .. Len(downSent) + 1
    BY <1>1
  <2> QED
    BY <1>0, <1>3, <2>1 DEF NoiseInv, CauseInv
<1> QED
  BY <1>5, <1>8, <1>9, <1>10, <1>11, <1>12 DEF NoiseInv

(* recv takes the next chunk of the message it is reading. *)
LEMMA HostReadsKeeps == NoiseInv /\ HostReads => NoiseInv'
<1> SUFFICES ASSUME NoiseInv, HostReads PROVE NoiseInv'
  OBVIOUS
<1> DEFINE chunk == upFrames[upRead \div 2 + 1]
           out   == Outcome(assembled, chunk, MaxMessage)
           g == Len(upGot)
           k == Len(assembled)
<1>0. /\ host = "session" /\ upRead + 2 <= 2 * Len(upFrames) /\ upRead' = upRead + 2
      /\ upGot' = IF out.is = "message" THEN Append(upGot, out.payload) ELSE upGot
      /\ assembled' = IF out.is = "more" THEN Append(assembled, chunk) ELSE <<>>
      /\ host' = IF out.is = "error" THEN "error" ELSE host
      /\ UNCHANGED <<phone, inbound, downRead, downGot, rejected, hasty, upFrames, downFrames, upSent,
                     downSent, cut>>
  BY DEF HostReads, phoneVars, wireVars
<1>1. /\ g \in Nat /\ k \in Nat /\ Len(upSent) \in Nat /\ g <= Len(upSent) /\ upRead \in Nat
      /\ Len(upFrames) \in Nat
  BY LenProperties DEF NoiseInv, NoiseTypeOK, UpInv, Begins
<1>2. PICK at : LaidOut(upFrames, upSent, at) /\ Reading(at)
  BY <1>0 DEF NoiseInv, PhaseInv, UpInv
<1>3. /\ upRead = 2 * (at[g + 1] + k)
      /\ g = Len(upSent) => k = 0
      /\ g < Len(upSent) => /\ k < Len(SplitIntoChunks(upSent[g + 1]))
                            /\ \A c \in 1 .. k : assembled[c] = SplitIntoChunks(upSent[g + 1])[c]
  BY <1>2 DEF Reading
<1>4. at \in Seq(Nat) /\ Len(at) = Len(upSent) + 1 /\ at[Len(upSent) + 1] = Len(upFrames)
  BY <1>2 DEF LaidOut
<1>5. at[g + 1] \in Nat
  <2>1. g + 1 \in 1 .. Len(at)
    BY <1>1, <1>4
  <2> QED
    BY <1>4, <2>1, ElementOfSeq
<1>6. g < Len(upSent)
  <2>1. CASE g = Len(upSent)
    <3>1. upRead = 2 * Len(upFrames)
      BY <1>1, <1>3, <1>4, <2>1
    <3> QED
      BY <1>0, <1>1, <3>1
  <2> QED
    BY <1>1, <2>1
<1> DEFINE p == upSent[g + 1]
           s == SplitIntoChunks(p)
<1>7. g + 1 \in 1 .. Len(upSent)
  BY <1>1, <1>6
<1>8. p \in Seq(Bytes)
  BY <1>7, ElementOfSeq DEF NoiseInv, NoiseTypeOK
<1>9. s \in Seq(Chunks) /\ Len(s) \in Nat \ {0}
  BY <1>8, SplitFacts
<1>10. /\ at[(g + 1) + 1] = at[g + 1] + Len(s)
       /\ \A c \in 1 .. Len(s) : upFrames[at[g + 1] + c] = s[c]
  BY <1>2, <1>7 DEF LaidOut
<1>11. k + 1 \in 1 .. Len(s) /\ k + 1 <= Len(s) /\ \A c \in 1 .. k : assembled[c] = s[c]
  BY <1>1, <1>3, <1>6, <1>9
<1>12. chunk = s[k + 1] /\ chunk \in Chunks
  <2>1. upRead \div 2 + 1 = at[g + 1] + (k + 1)
    <3> DEFINE a == at[g + 1]
               b == k
    <3>1. upRead = 2 * (a + b) /\ a \in Nat /\ b \in Nat
      BY <1>1, <1>3, <1>5
    <3> HIDE DEF a, b
    <3>2. upRead \div 2 + 1 = a + (b + 1)
      BY ONLY <3>1
    <3> QED
      BY <3>2 DEF a, b
  <2>2. s[k + 1] \in Chunks
    BY <1>9, <1>11, ElementOfSeq
  <2> QED
    BY <1>10, <1>11, <2>1, <2>2
<1> HIDE DEF p, s, chunk
<1>13. \/ out.is = "error" /\ Len(p) > MaxMessage
       \/ out.is = "message" /\ out.payload = p /\ k + 1 = Len(s)
       \/ out.is = "more" /\ k + 1 < Len(s)
  <2>1. assembled \in Seq(Chunks) /\ MaxMessage \in Nat
    BY NoiseAssumption DEF NoiseInv, NoiseTypeOK
  <2> QED
    BY <1>8, <1>11, <1>12, <2>1, OutcomeOfChunk DEF s
<1> HIDE DEF out
<1>14. DownInv' /\ BufferInv'
  BY <1>0 DEF NoiseInv, DownInv, BufferInv, Consumed
<1>15. upRead' \in Nat
  BY <1>0, <1>1
<1>16. CASE out.is = "error" /\ Len(p) > MaxMessage
  <2>1. upGot' = upGot /\ assembled' = <<>> /\ host' = "error"
    BY <1>0, <1>16
  <2>2. NoiseTypeOK'
    BY <1>0, <1>15, <2>1 DEF NoiseInv, NoiseTypeOK
  <2>3. UpInv'
    BY <1>0, <1>2, <2>1 DEF NoiseInv, UpInv
  <2>4. PhaseInv' /\ CauseInv'
    BY <1>0, <1>7, <1>16, <2>1 DEF NoiseInv, PhaseInv, CauseInv, p
  <2> QED
    BY <1>14, <2>2, <2>3, <2>4 DEF NoiseInv
<1>17. CASE out.is = "message" /\ out.payload = p /\ k + 1 = Len(s)
  <2>1. upGot' = Append(upGot, p) /\ assembled' = <<>> /\ host' = host
    BY <1>0, <1>17
  <2>2. upGot' \in Seq(Seq(Bytes)) /\ Len(upGot') = g + 1 /\ Len(assembled') = 0
    BY <1>8, <2>1, AppendProperties DEF NoiseInv, NoiseTypeOK
  <2>3. NoiseTypeOK'
    BY <1>0, <1>15, <2>1, <2>2 DEF NoiseInv, NoiseTypeOK
  <2>4. Begins(upGot', upSent)
    BY <1>6, <1>8, <2>1, BeginsGrows DEF NoiseInv, NoiseTypeOK, UpInv, p
  <2>5. Reading(at)'
    <3>1. upRead' = 2 * (at[(g + 1) + 1] + 0)
      <4> DEFINE a == at[g + 1]
                 b == k
                 c == at[(g + 1) + 1]
      <4>1. upRead' = upRead + 2 /\ upRead = 2 * (a + b) /\ a \in Nat /\ b \in Nat /\ c = a + (b + 1)
        BY <1>0, <1>1, <1>3, <1>5, <1>10, <1>17
      <4> HIDE DEF a, b, c
      <4>2. upRead' = 2 * (c + 0)
        BY ONLY <4>1
      <4> QED
        BY <4>2 DEF c
    <3>2. g + 1 < Len(upSent) => 0 < Len(SplitIntoChunks(upSent[(g + 1) + 1]))
      <4> SUFFICES ASSUME g + 1 < Len(upSent) PROVE 0 < Len(SplitIntoChunks(upSent[(g + 1) + 1]))
        OBVIOUS
      <4>1. (g + 1) + 1 \in 1 .. Len(upSent)
        BY <1>1
      <4>2. upSent[(g + 1) + 1] \in Seq(Bytes)
        BY <4>1, ElementOfSeq DEF NoiseInv, NoiseTypeOK
      <4> QED
        BY <4>2, SplitFacts
    <3>3. 1 .. 0 = {}
      OBVIOUS
    <3> QED
      BY <1>0, <2>2, <3>1, <3>2, <3>3 DEF Reading
  <2>6. UpInv'
    BY <1>0, <1>2, <2>4, <2>5 DEF UpInv
  <2>7. PhaseInv' /\ CauseInv'
    BY <1>0, <2>1 DEF NoiseInv, PhaseInv, CauseInv
  <2> QED
    BY <1>14, <2>3, <2>6, <2>7 DEF NoiseInv
<1>18. CASE out.is = "more" /\ k + 1 < Len(s)
  <2>1. upGot' = upGot /\ assembled' = Append(assembled, chunk) /\ host' = host
    BY <1>0, <1>18
  <2>2. /\ assembled' \in Seq(Chunks) /\ Len(assembled') = k + 1
        /\ \A c \in 1 .. k : assembled'[c] = assembled[c]
        /\ assembled'[k + 1] = chunk
    BY <1>12, <2>1, AppendProperties DEF NoiseInv, NoiseTypeOK
  <2>3. NoiseTypeOK'
    BY <1>0, <1>15, <2>1, <2>2 DEF NoiseInv, NoiseTypeOK
  <2>4. Reading(at)'
    <3>1. upRead' = 2 * (at[g + 1] + (k + 1))
      <4> DEFINE a == at[g + 1]
                 b == k
      <4>1. upRead' = upRead + 2 /\ upRead = 2 * (a + b) /\ a \in Nat /\ b \in Nat
        BY <1>0, <1>1, <1>3, <1>5
      <4> HIDE DEF a, b
      <4>2. upRead' = 2 * (a + (b + 1))
        BY ONLY <4>1
      <4> QED
        BY <4>2 DEF a, b
    <3>2. \A c \in 1 .. k + 1 : c \in 1 .. k \/ c = k + 1
      BY <1>1
    <3>3. \A c \in 1 .. k + 1 : assembled'[c] = s[c]
      BY <1>11, <1>12, <2>2, <3>2
    <3>4. g # Len(upSent)
      BY <1>1, <1>6
    <3> QED
      BY <1>0, <1>18, <2>1, <2>2, <3>1, <3>3, <3>4 DEF Reading, s, p
  <2>5. UpInv'
    BY <1>0, <1>2, <2>1, <2>4 DEF NoiseInv, UpInv
  <2>6. PhaseInv' /\ CauseInv'
    BY <1>0, <2>1 DEF NoiseInv, PhaseInv, CauseInv
  <2> QED
    BY <1>14, <2>3, <2>5, <2>6 DEF NoiseInv
<1> QED
  BY <1>13, <1>16, <1>17, <1>18

(* The buffer without its first n pieces. *)
LEMMA DropPieces ==
  ASSUME NEW pieces \in Seq(Nat), NEW n \in 0 .. Len(pieces)
  PROVE  LET rest == SubSeq(pieces, n + 1, Len(pieces))
         IN  /\ rest \in Seq(Nat) /\ Len(rest) = Len(pieces) - n
             /\ \A i \in 1 .. Len(rest) : rest[i] = pieces[n + i] /\ n + i \in 1 .. Len(pieces)
<1> DEFINE len == Len(pieces)
           rest == SubSeq(pieces, n + 1, len)
<1>0. len \in Nat /\ n \in Nat /\ n <= len
  BY LenProperties
<1>1. \A i \in n + 1 .. len : pieces[i] \in Nat
  BY <1>0, ElementOfSeq
<1>2. /\ rest \in Seq(Nat) /\ Len(rest) = IF n + 1 <= len THEN len - (n + 1) + 1 ELSE 0
      /\ \A i \in 1 .. len - (n + 1) + 1 : rest[i] = pieces[(n + 1) + i - 1]
  BY <1>0, <1>1, SubSeqProperties
<1> HIDE DEF len, rest
<1>3. Len(rest) = len - n /\ len - (n + 1) + 1 = len - n
  BY ONLY <1>0, <1>2
<1>4. \A i \in 1 .. len - n : (n + 1) + i - 1 = n + i /\ n + i \in 1 .. len
  BY <1>0
<1>5. \A i \in 1 .. len - n : rest[i] = pieces[n + i]
  BY <1>2, <1>3, <1>4
<1> QED
  BY <1>2, <1>3, <1>4, <1>5 DEF len, rest

(* read_message preserves the invariant. *)
LEMMA PhoneReadsKeeps == NoiseInv /\ PhoneReads => NoiseInv'
<1> SUFFICES ASSUME NoiseInv, PhoneReads PROVE NoiseInv'
  OBVIOUS
<1>0. /\ phone = "wrote" /\ Len(inbound) >= 2
      /\ phone' = IF WholeFrame /\ Frame = 1 THEN "finished" ELSE phone
      /\ UNCHANGED <<downRead, downGot, rejected, hasty, host, assembled, upRead, upGot, upFrames,
                     downFrames, upSent, downSent, cut>>
  BY DEF PhoneReads, hostVars, wireVars
<1>1. PICK n \in 2 .. Len(inbound) :
         (WholeFrame => n = 2) /\ inbound' = SubSeq(inbound, n + 1, Len(inbound))
  BY DEF PhoneReads
<1>2. /\ Len(inbound) \in Nat /\ n \in 0 .. Len(inbound) /\ inbound \in Seq(Nat) /\ downRead \in Nat
      /\ downGot = <<>>
  BY <1>0, LenProperties DEF NoiseInv, NoiseTypeOK, PhaseInv
<1>3. /\ inbound' \in Seq(Nat) /\ Len(inbound') = Len(inbound) - n
      /\ \A i \in 1 .. Len(inbound') : inbound'[i] = inbound[n + i] /\ n + i \in 1 .. Len(inbound)
  BY <1>1, <1>2, DropPieces
<1>4. NoiseTypeOK'
  BY <1>0, <1>3 DEF NoiseInv, NoiseTypeOK
<1>5. UpInv'
  BY <1>0 DEF NoiseInv, UpInv, Reading
<1>6. DownInv'
  BY <1>0 DEF NoiseInv, DownInv
<1>7. \A i \in 1 .. Len(inbound') : inbound'[i] \in 1 .. downRead
  BY <1>3 DEF NoiseInv, BufferInv
<1>8. ASSUME ~ rejected
      PROVE  /\ Len(inbound') = downRead - Consumed'
             /\ \A i \in 1 .. Len(inbound') : inbound'[i] = Consumed' + i
  <2>1. Len(inbound) = downRead /\ \A i \in 1 .. Len(inbound) : inbound[i] = 0 + i
    <3>1. Consumed = 0
      BY <1>0 DEF Consumed
    <3>2. Len(inbound) = downRead - 0
      BY <1>0, <1>8, <3>1 DEF NoiseInv, BufferInv
    <3>3. \A i \in 1 .. Len(inbound) : inbound[i] = 0 + i
      BY <1>0, <1>8, <3>1 DEF NoiseInv, BufferInv
    <3> QED
      BY <1>2, <3>2, <3>3
  <2>2. inbound[1] = 1 /\ inbound[2] = 2
    <3>1. 1 \in 1 .. Len(inbound) /\ 2 \in 1 .. Len(inbound)
      BY <1>0, <1>2
    <3> QED
      BY <2>1, <3>1
  <2>3. WholeFrame /\ Frame = 1
    BY <1>0, <2>2 DEF WholeFrame, Frame
  <2>4. n = 2 /\ phone' = "finished"
    BY <1>0, <1>1, <2>3
  <2>5. Consumed' = 2
    <3>1. Len(downGot') = 0
      BY <1>0, <1>2
    <3> QED
      BY <2>4, <3>1 DEF Consumed
  <2>6. \A i \in 1 .. Len(inbound') : inbound'[i] = 2 + i
    <3>1. \A i \in 1 .. Len(inbound') : 0 + (2 + i) = 2 + i
      OBVIOUS
    <3> QED
      BY <1>3, <2>1, <2>4, <3>1
  <2> QED
    BY <1>3, <2>1, <2>4, <2>5, <2>6
<1>9. BufferInv'
  BY <1>0, <1>7, <1>8 DEF NoiseInv, BufferInv
<1>10. PhaseInv' /\ CauseInv'
  BY <1>0 DEF NoiseInv, PhaseInv, CauseInv
<1> QED
  BY <1>4, <1>5, <1>6, <1>9, <1>10 DEF NoiseInv

(* push_bytes preserves the invariant, when it refuses and when it does not. *)
LEMMA PushBytesKeeps ==
  ASSUME NEW n \in 1 .. MaxInbound, NoiseInv, PushBytes(n)
  PROVE  NoiseInv'
<1>0. /\ phone # "failed" /\ downRead + n <= 2 * Len(downFrames) /\ downRead' = downRead + n
      /\ UNCHANGED <<phone, downGot, hasty, host, assembled, upRead, upGot, upFrames, downFrames,
                     upSent, downSent, cut>>
  BY DEF PushBytes, hostVars, wireVars
<1>1. /\ n \in Nat /\ downRead \in Nat /\ inbound \in Seq(Nat) /\ Len(inbound) \in Nat
      /\ downRead' \in Nat
  BY <1>0, NoiseAssumption, LenProperties DEF NoiseInv, NoiseTypeOK
<1>2. UpInv'
  BY <1>0 DEF NoiseInv, UpInv, Reading
<1>3. DownInv' /\ PhaseInv'
  BY <1>0 DEF NoiseInv, DownInv, PhaseInv
<1>4. CASE Len(inbound) + n > MaxInbound
  <2>1. rejected' = TRUE /\ inbound' = inbound
    BY <1>4 DEF PushBytes
  <2>2. NoiseTypeOK' /\ CauseInv'
    BY <1>0, <1>1, <2>1 DEF NoiseInv, NoiseTypeOK, CauseInv
  <2>3. \A i \in 1 .. Len(inbound) : inbound[i] \in 1 .. downRead'
    <3>1. \A j \in 1 .. downRead : j \in 1 .. downRead'
      BY <1>0, <1>1
    <3> QED
      BY <3>1 DEF NoiseInv, BufferInv
  <2>4. BufferInv'
    BY <1>0, <2>1, <2>3 DEF BufferInv
  <2> QED
    BY <1>2, <1>3, <2>2, <2>4 DEF NoiseInv
<1>5. CASE ~ (Len(inbound) + n > MaxInbound)
  <2> DEFINE pushed == [i \in 1 .. n |-> downRead + i]
             len == Len(inbound)
  <2>1. rejected' = rejected /\ inbound' = inbound \o pushed
    BY <1>5 DEF PushBytes
  <2>2. pushed \in [1 .. n -> Nat] /\ \A i \in 1 .. n : pushed[i] = downRead + i
    BY <1>1
  <2> HIDE DEF pushed
  <2>3. pushed \in Seq(Nat)
    BY ONLY <1>1, <2>2, SeqDef
  <2>4. Len(pushed) = n
    BY ONLY <1>1, <2>2, <2>3, LenProperties
  <2>5. /\ inbound' \in Seq(Nat) /\ Len(inbound') = len + n
        /\ \A i \in 1 .. len + n : inbound'[i] = IF i <= len THEN inbound[i] ELSE pushed[i - len]
    BY ONLY <1>1, <2>1, <2>3, <2>4, ConcatProperties
  <2> HIDE DEF len
  <2>6. len \in Nat
    BY <1>1 DEF len
  <2>7. \A i \in 1 .. len + n : (i \in 1 .. len /\ i <= len) \/ (i - len \in 1 .. n /\ ~ (i <= len))
    BY ONLY <1>1, <2>6
  <2>8. \A i \in 1 .. len + n :
           \/ i \in 1 .. len /\ inbound'[i] = inbound[i]
           \/ i - len \in 1 .. n /\ inbound'[i] = downRead + (i - len)
    BY <2>2, <2>5, <2>7
  <2>9. NoiseTypeOK' /\ CauseInv'
    BY <1>0, <1>1, <2>1, <2>5 DEF NoiseInv, NoiseTypeOK, CauseInv
  <2>10. \A i \in 1 .. len + n : inbound'[i] \in 1 .. downRead'
    <3>1. \A j \in 1 .. downRead : j \in 1 .. downRead'
      BY <1>0, <1>1
    <3>2. \A j \in 1 .. n : downRead + j \in 1 .. downRead'
      BY <1>0, <1>1
    <3> QED
      BY <2>8, <3>1, <3>2 DEF NoiseInv, BufferInv, len
  <2>11. ASSUME ~ rejected
         PROVE  /\ len + n = downRead' - Consumed
                /\ \A i \in 1 .. len + n : inbound'[i] = Consumed + i
    <3>1. len = downRead - Consumed /\ \A i \in 1 .. len : inbound[i] = Consumed + i
      BY <1>0, <2>11 DEF NoiseInv, BufferInv, len
    <3>2. Consumed \in Nat
      <4>1. Len(downGot) \in Nat
        BY LenProperties DEF NoiseInv, NoiseTypeOK
      <4> QED
        BY <4>1 DEF Consumed
    <3> DEFINE d == Consumed
    <3>3. d \in Nat /\ len = downRead - d
      BY <3>1, <3>2
    <3> HIDE DEF d
    <3>4. len + n = downRead' - d
      BY <1>0, <1>1, <2>6, <3>3
    <3>5. \A i \in 1 .. len + n : downRead + (i - len) = d + i
      BY <1>1, <2>6, <3>3
    <3> QED
      BY <2>8, <3>1, <3>4, <3>5 DEF d
  <2>12. Consumed' = Consumed
    BY <1>0 DEF Consumed
  <2>13. BufferInv'
    BY <1>0, <2>1, <2>5, <2>10, <2>11, <2>12 DEF BufferInv
  <2> QED
    BY <1>2, <1>3, <2>9, <2>13 DEF NoiseInv
<1> QED
  BY <1>4, <1>5

(* next_message of a message of the agent's: what it returns is the whole   *)
(* message, and it refuses only one of several chunks.                      *)
LEMMA FirstChunk ==
  ASSUME NEW p \in Seq(Bytes)
  PROVE  LET s == SplitIntoChunks(p)
             out == Outcome(<<>>, s[1], MaxChunk)
         IN  \/ out.is = "message" /\ Len(s) = 1 /\ s[1].body = p
             \/ out.is # "message" /\ Len(p) > MaxChunk
<1> DEFINE s == SplitIntoChunks(p)
           out == Outcome(<<>>, s[1], MaxChunk)
<1>0. Len(p) \in Nat /\ MaxChunk \in Nat
  BY LenProperties, NoiseAssumption
<1>1. /\ Len(s) \in Nat \ {0}
      /\ (Len(s) - 1) * MaxChunk < Len(p) \/ Len(s) = 1
      /\ Len(p) <= Len(s) * MaxChunk
      /\ \A c \in 1 .. Len(s) : s[c].body = SubSeq(p, End(p, c - 1) + 1, End(p, c))
  BY SplitFacts
<1>2. \/ out.is = "error" /\ Len(p) > MaxChunk
      \/ out.is = "message" /\ 1 = Len(s)
      \/ out.is = "more" /\ 1 < Len(s)
  <2> DEFINE none == <<>>
  <2>1. none \in Seq(Chunks) /\ Len(none) = 0
    OBVIOUS
  <2> HIDE DEF none
  <2>2. Len(none) + 1 <= Len(s) /\ \A c \in 1 .. Len(none) : none[c] = s[c]
    BY <1>1, <2>1
  <2>3. LET o == Outcome(none, s[Len(none) + 1], MaxChunk)
        IN  \/ o.is = "error" /\ Len(p) > MaxChunk
            \/ o.is = "message" /\ o.payload = p /\ Len(none) + 1 = Len(s)
            \/ o.is = "more" /\ Len(none) + 1 < Len(s)
    BY <1>0, <2>1, <2>2, OutcomeOfChunk
  <2>4. Len(none) + 1 = 1
    BY <2>1
  <2> QED
    BY <2>3, <2>4 DEF none
<1> HIDE DEF s, out
<1>3. ASSUME Len(s) = 1 PROVE s[1].body = p
  <2>1. s[1].body = SubSeq(p, End(p, 1 - 1) + 1, End(p, 1))
    BY <1>1, <1>3
  <2>2. (1 - 1) * MaxChunk < Len(p) \/ 1 = 1
    OBVIOUS
  <2>3. End(p, 0) = 0 /\ End(p, 1) = Len(p)
    BY <1>1, <1>3, EndsOfChunks
  <2>4. s[1].body = SubSeq(p, 1, Len(p))
    BY <2>1, <2>3
  <2> QED
    BY <2>4, SubSeqFull
<1>4. ASSUME 1 < Len(s) PROVE Len(p) > MaxChunk
  <2> DEFINE m == (Len(s) - 1) * MaxChunk
  <2>1. m < Len(p) /\ m \in Int
    BY <1>0, <1>1, <1>4
  <2>2. 1 * MaxChunk <= m
    BY <1>0, <1>1, <1>4, TimesMonotone
  <2> HIDE DEF m
  <2> QED
    BY <1>0, <2>1, <2>2
<1> QED
  BY <1>2, <1>3, <1>4 DEF s, out

(* next_message preserves the invariant. *)
LEMMA NextMessageKeeps == NoiseInv /\ NextMessage => NoiseInv'
<1> SUFFICES ASSUME NoiseInv, NextMessage PROVE NoiseInv'
  OBVIOUS
<1> DEFINE chunk == downFrames[Frame]
           good == /\ WholeFrame /\ Frame = Len(downGot) + 2
                   /\ Outcome(<<>>, chunk, MaxChunk).is = "message"
           g == Len(downGot)
<1>0. /\ phone = "transport" /\ Len(inbound) >= 2
      /\ good => /\ downGot' = Append(downGot, chunk.body)
                 /\ inbound' = SubSeq(inbound, 3, Len(inbound)) /\ phone' = phone
      /\ ~ good => phone' = "failed" /\ downGot' = downGot /\ inbound' = inbound
      /\ UNCHANGED <<downRead, rejected, hasty, host, assembled, upRead, upGot, upFrames,
                     downFrames, upSent, downSent, cut>>
  BY DEF NextMessage, hostVars, wireVars
<1>1. /\ g \in Nat /\ Len(downSent) \in Nat /\ g <= Len(downSent) /\ downRead \in Nat
      /\ Len(downFrames) \in Nat /\ Len(inbound) \in Nat /\ inbound \in Seq(Nat)
      /\ downRead <= 2 * Len(downFrames)
  BY LenProperties DEF NoiseInv, NoiseTypeOK, DownInv, Begins, BufferInv
<1>2. inbound[1] \in 1 .. downRead /\ inbound[2] \in 1 .. downRead
  <2>1. 1 \in 1 .. Len(inbound) /\ 2 \in 1 .. Len(inbound)
    BY <1>0, <1>1
  <2> QED
    BY <2>1 DEF NoiseInv, BufferInv
<1>3. PICK at : LaidOut(downFrames, downSent, at) /\ \A i \in 1 .. g + 1 : at[i] = i
  <2>1. downFrames # <<>>
    <3>1. Len(<<>>) = 0
      OBVIOUS
    <3> QED
      BY <1>1, <1>2, <3>1
  <2> QED
    BY <2>1 DEF NoiseInv, DownInv
<1> DEFINE p == downSent[g + 1]
           s == SplitIntoChunks(p)
<1>4. ASSUME WholeFrame, Frame = g + 2
      PROVE  g < Len(downSent) /\ p \in Seq(Bytes) /\ chunk = s[1] /\ at[(g + 1) + 1] = (g + 1) + Len(s)
  <2>1. g + 2 <= Len(downFrames)
    <3> DEFINE a == inbound[1]
               b == inbound[2]
    <3>1. /\ a \in 1 .. downRead /\ b \in 1 .. downRead /\ a % 2 = 1 /\ b = a + 1
          /\ (a + 1) \div 2 = g + 2
      BY <1>2, <1>4 DEF WholeFrame, Frame
    <3> HIDE DEF a, b
    <3>2. b = 2 * (g + 2)
      BY ONLY <1>1, <3>1
    <3> QED
      BY ONLY <1>1, <3>1, <3>2
  <2>2. g + 1 \in 1 .. g + 1 /\ at[g + 1] = g + 1
    BY <1>1, <1>3
  <2>3. at[Len(downSent) + 1] = Len(downFrames)
    BY <1>3 DEF LaidOut
  <2>4. g # Len(downSent)
    BY <1>1, <2>1, <2>2, <2>3
  <2>5. g < Len(downSent) /\ g + 1 \in 1 .. Len(downSent)
    BY <1>1, <2>4
  <2>6. p \in Seq(Bytes)
    BY <2>5, ElementOfSeq DEF NoiseInv, NoiseTypeOK
  <2>7. /\ at[(g + 1) + 1] = at[g + 1] + Len(s)
        /\ \A c \in 1 .. Len(s) : downFrames[at[g + 1] + c] = s[c]
    BY <1>3, <2>5 DEF LaidOut
  <2>8. 1 \in 1 .. Len(s)
    BY <2>6, SplitFacts
  <2>9. (g + 1) + 1 = g + 2
    BY <1>1
  <2> QED
    BY <1>4, <2>2, <2>5, <2>6, <2>7, <2>8, <2>9
<1>5. ASSUME WholeFrame, Frame = g + 2
      PROVE  \/ good /\ Len(s) = 1 /\ chunk.body = p
             \/ ~ good /\ Len(p) > MaxChunk
  BY <1>4, <1>5, FirstChunk
<1>6. UpInv'
  BY <1>0 DEF NoiseInv, UpInv, Reading
<1> HIDE DEF chunk, p, s
<1>7. CASE good
  <2>1. /\ downGot' = Append(downGot, p) /\ inbound' = SubSeq(inbound, 2 + 1, Len(inbound))
        /\ phone' = "transport"
    BY <1>0, <1>5, <1>7
  <2>2. /\ WholeFrame /\ Frame = g + 2 /\ g < Len(downSent) /\ p \in Seq(Bytes)
        /\ at[(g + 1) + 1] = (g + 1) + 1
    BY <1>4, <1>5, <1>7
  <2>3. downGot' \in Seq(Seq(Bytes)) /\ Len(downGot') = g + 1
    BY <2>1, <2>2, AppendProperties DEF NoiseInv, NoiseTypeOK
  <2>4. 2 \in 0 .. Len(inbound)
    BY <1>0, <1>1
  <2>5. /\ inbound' \in Seq(Nat) /\ Len(inbound') = Len(inbound) - 2
        /\ \A i \in 1 .. Len(inbound') : inbound'[i] = inbound[2 + i] /\ 2 + i \in 1 .. Len(inbound)
    BY <1>1, <2>1, <2>4, DropPieces
  <2>6. NoiseTypeOK'
    BY <1>0, <2>1, <2>3, <2>5 DEF NoiseInv, NoiseTypeOK
  <2>7. Begins(downGot', downSent)
    BY <2>1, <2>2, BeginsGrows DEF NoiseInv, NoiseTypeOK, DownInv, p
  <2>8. \A i \in 1 .. (g + 1) + 1 : at[i] = i
    <3>1. \A i \in 1 .. (g + 1) + 1 : i \in 1 .. g + 1 \/ i = (g + 1) + 1
      BY <1>1
    <3> QED
      BY <1>3, <2>2, <3>1
  <2>9. DownInv'
    BY <1>0, <1>3, <2>3, <2>7, <2>8 DEF DownInv
  <2>10. \A i \in 1 .. Len(inbound') : inbound'[i] \in 1 .. downRead
    BY <2>5 DEF NoiseInv, BufferInv
  <2>11. ASSUME ~ rejected
         PROVE  /\ Len(inbound') = downRead - Consumed'
                /\ \A i \in 1 .. Len(inbound') : inbound'[i] = Consumed' + i
    <3>1. Consumed = 2 * (g + 1) /\ Consumed' = 2 * ((g + 1) + 1)
      BY <1>0, <2>1, <2>3 DEF Consumed
    <3>2. /\ Len(inbound) = downRead - 2 * (g + 1)
          /\ \A i \in 1 .. Len(inbound) : inbound[i] = 2 * (g + 1) + i
      BY <1>0, <2>11, <3>1 DEF NoiseInv, BufferInv
    <3>3. Len(inbound') = downRead - 2 * ((g + 1) + 1)
      BY <1>1, <2>5, <3>2
    <3>4. \A i \in 1 .. Len(inbound') : 2 * (g + 1) + (2 + i) = 2 * ((g + 1) + 1) + i
      BY <1>1
    <3>5. \A i \in 1 .. Len(inbound') : inbound'[i] = 2 * ((g + 1) + 1) + i
      BY <2>5, <3>2, <3>4
    <3> QED
      BY <3>1, <3>3, <3>5
  <2>12. BufferInv'
    BY <1>0, <2>1, <2>10, <2>11 DEF NoiseInv, BufferInv
  <2>13. PhaseInv' /\ CauseInv'
    BY <1>0, <2>1 DEF NoiseInv, PhaseInv, CauseInv
  <2> QED
    BY <1>6, <2>6, <2>9, <2>12, <2>13 DEF NoiseInv
<1>8. CASE ~ good
  <2>1. phone' = "failed" /\ downGot' = downGot /\ inbound' = inbound
    BY <1>0, <1>8
  <2>2. NoiseTypeOK' /\ DownInv' /\ BufferInv' /\ PhaseInv'
    BY <1>0, <2>1 DEF NoiseInv, NoiseTypeOK, DownInv, BufferInv, PhaseInv
  <2>3. ASSUME ~ rejected PROVE \E i \in 1 .. Len(downSent) : Len(downSent[i]) > MaxChunk
    <3>1. \A i \in 1 .. Len(inbound) : inbound[i] = 2 * (g + 1) + i
      BY <1>0, <2>3 DEF NoiseInv, BufferInv, Consumed
    <3>2. 1 \in 1 .. Len(inbound) /\ 2 \in 1 .. Len(inbound)
      BY <1>0, <1>1
    <3>3. inbound[1] = 2 * (g + 1) + 1 /\ inbound[2] = 2 * (g + 1) + 2
      BY <3>1, <3>2
    <3>4. WholeFrame /\ Frame = g + 2
      <4> DEFINE a == inbound[1]
                 b == inbound[2]
                 h == g
      <4>1. h \in Nat /\ a = 2 * (h + 1) + 1 /\ b = 2 * (h + 1) + 2
        BY <1>1, <3>3
      <4> HIDE DEF a, b, h
      <4>2. a % 2 = 1 /\ b = a + 1 /\ (a + 1) \div 2 = h + 2
        BY ONLY <4>1
      <4> QED
        BY <1>0, <4>2 DEF WholeFrame, Frame, a, b, h
    <3>5. Len(p) > MaxChunk /\ g < Len(downSent)
      BY <1>4, <1>5, <1>8, <3>4
    <3>6. g + 1 \in 1 .. Len(downSent)
      BY <1>1, <3>5
    <3> QED
      BY <3>5, <3>6 DEF p
  <2>4. CauseInv'
    BY <1>0, <2>1, <2>3 DEF NoiseInv, CauseInv
  <2> QED
    BY <1>6, <2>2, <2>4 DEF NoiseInv
<1> QED
  BY <1>7, <1>8

-----------------------------------------------------------------------------
(* The theorems *)

(* Every step of the transport preserves the invariant. *)
LEMMA NoiseStep == NoiseInv /\ [NoiseNext]_noiseVars => NoiseInv'
<1> SUFFICES ASSUME NoiseInv, [NoiseNext]_noiseVars PROVE NoiseInv'
  OBVIOUS
<1>1. CASE UNCHANGED noiseVars
  BY <1>1 DEF noiseVars, phoneVars, hostVars, wireVars, NoiseInv, NoiseTypeOK, UpInv, Reading,
     DownInv, BufferInv, Consumed, PhaseInv, CauseInv
<1>2. CASE \E n \in 1 .. MaxInbound : PushBytes(n)
  BY <1>2, PushBytesKeeps
<1>3. CASE \E len \in UpLengths : PhoneSends(len)
  BY <1>3, PhoneSendsKeeps
<1>4. CASE \E len \in DownLengths : HostSends(len)
  BY <1>4, HostSendsKeeps
<1> QED
  BY <1>1, <1>2, <1>3, <1>4, PhoneWritesKeeps, PhoneReadsKeeps, IntoTransportKeeps,
     NextMessageKeeps, HostAcceptsKeeps, HostReadsKeeps, EndsKeep DEF NoiseNext

(* The invariant holds in every behaviour. *)
LEMMA NoiseAlways == NoiseSpec => []NoiseInv
  BY NoiseStarts, NoiseStep, PTL DEF NoiseSpec

(* Begins is IsPrefix. *)
LEMMA BeginsIsPrefix ==
  ASSUME NEW got \in Seq(Seq(Bytes)), NEW sent \in Seq(Seq(Bytes)), Begins(got, sent)
  PROVE  IsPrefix(got, sent)
<1> DEFINE n == Len(got)
<1>0. n \in Nat /\ Len(sent) \in Nat /\ n <= Len(sent)
  BY LenProperties DEF Begins
<1>1. \A i \in 1 .. n : got[i] \in Seq(Bytes) /\ sent[i] \in Seq(Bytes)
  <2>1. \A i \in 1 .. n : i \in 1 .. Len(sent)
    BY <1>0
  <2> QED
    BY <2>1, ElementOfSeq
<1>2. \A i \in 1 .. n : got[i] = sent[i]
  BY DEF Begins
<1> HIDE DEF n
<1> DEFINE a == SubSeq(got, 1, n)
           b == SubSeq(sent, 1, n)
<1>3. /\ a \in Seq(Seq(Bytes)) /\ Len(a) = IF 1 <= n THEN n - 1 + 1 ELSE 0
      /\ \A i \in 1 .. n - 1 + 1 : a[i] = got[1 + i - 1]
  BY <1>0, <1>1, SubSeqProperties
<1>4. /\ b \in Seq(Seq(Bytes)) /\ Len(b) = IF 1 <= n THEN n - 1 + 1 ELSE 0
      /\ \A i \in 1 .. n - 1 + 1 : b[i] = sent[1 + i - 1]
  BY <1>0, <1>1, SubSeqProperties
<1> HIDE DEF a, b
<1>5. Len(a) = n /\ Len(b) = n /\ n - 1 + 1 = n /\ \A i \in 1 .. n : 1 + i - 1 = i
  BY <1>0, <1>3, <1>4
<1>6. \A i \in 1 .. Len(a) : a[i] = b[i]
  BY <1>2, <1>3, <1>4, <1>5
<1>7. a = b
  BY <1>3, <1>4, <1>5, <1>6, SeqEqual
<1> QED
  BY <1>0, <1>7 DEF IsPrefix, a, b, n

(* What either side returns is the messages the other sent, whole and in    *)
(* order, for any lengths of messages and chunks, any reads, any buffer and *)
(* wherever the connection breaks: NoiseSession::recv and next_message.     *)
THEOREM MessagesArriveIntact == NoiseSpec => []MessagesIntact
<1>1. NoiseInv => MessagesIntact
  BY BeginsIsPrefix DEF NoiseInv, NoiseTypeOK, UpInv, DownInv, MessagesIntact
<1> QED
  BY <1>1, NoiseAlways, PTL

(* As long as no push was refused, the phone's buffer is exactly what       *)
(* follows the last message it was given, across into_transport.            *)
THEOREM NothingIsLost == NoiseSpec => []NothingLostAtBoundary
<1>1. NoiseInv => NothingLostAtBoundary
  <2> SUFFICES ASSUME NoiseInv, phone = "transport", ~ rejected
               PROVE  inbound = [i \in 1 .. downRead - 2 * (Len(downGot) + 1) |->
                                    2 * (Len(downGot) + 1) + i]
    BY DEF NothingLostAtBoundary
  <2> DEFINE d == 2 * (Len(downGot) + 1)
  <2>1. Consumed = d
    BY DEF Consumed
  <2>2. Len(inbound) = downRead - d /\ \A i \in 1 .. Len(inbound) : inbound[i] = d + i
    BY <2>1 DEF NoiseInv, BufferInv
  <2>3. inbound = [i \in 1 .. Len(inbound) |-> inbound[i]]
    BY LenProperties DEF NoiseInv, NoiseTypeOK
  <2> HIDE DEF d
  <2>4. inbound = [i \in 1 .. downRead - d |-> d + i]
    BY <2>2, <2>3
  <2> QED
    BY <2>4 DEF d
<1> QED
  BY <1>1, NoiseAlways, PTL

(* A receiver gives up only for one of its causes, the ceiling on chunks    *)
(* never hits a message within the limit, and an agent that has read every  *)
(* frame has every message.                                                 *)
THEOREM FailuresExplained == NoiseSpec => []FailuresHaveCause
<1>1. NoiseInv => FailuresHaveCause
  <2> SUFFICES ASSUME NoiseInv, host = "session", upRead = 2 * Len(upFrames)
               PROVE  assembled = <<>> /\ Len(upGot) = Len(upSent)
    BY DEF FailuresHaveCause, NoiseInv, CauseInv
  <2> DEFINE g == Len(upGot)
             k == Len(assembled)
             m == Len(upSent)
  <2>0. g \in Nat /\ k \in Nat /\ m \in Nat /\ g <= m /\ Len(upFrames) \in Nat
    BY LenProperties DEF NoiseInv, NoiseTypeOK, UpInv, Begins
  <2>1. PICK at : LaidOut(upFrames, upSent, at) /\ Reading(at)
    BY DEF NoiseInv, PhaseInv, UpInv
  <2>2. /\ upRead = 2 * (at[g + 1] + k)
        /\ g = m => k = 0
        /\ g < m => k < Len(SplitIntoChunks(upSent[g + 1]))
    BY <2>1 DEF Reading
  <2>3. /\ at \in Seq(Nat) /\ Len(at) = m + 1 /\ at[m + 1] = Len(upFrames)
        /\ \A i, j \in 1 .. m + 1 : i <= j => at[i] <= at[j]
        /\ \A i \in 1 .. m : at[i + 1] = at[i] + Len(SplitIntoChunks(upSent[i]))
    BY <2>1 DEF LaidOut
  <2>4. g = m
    <3> SUFFICES ASSUME g < m PROVE FALSE
      BY <2>0
    <3>1. g + 1 \in 1 .. m /\ g + 1 \in 1 .. m + 1 /\ (g + 1) + 1 \in 1 .. m + 1 /\ m + 1 \in 1 .. m + 1
          /\ (g + 1) + 1 <= m + 1
      BY <2>0
    <3>2. upSent[g + 1] \in Seq(Bytes)
      BY <3>1, ElementOfSeq DEF NoiseInv, NoiseTypeOK
    <3> DEFINE a == at[g + 1]
               b == at[(g + 1) + 1]
               c == Len(SplitIntoChunks(upSent[g + 1]))
    <3>3. c \in Nat
      BY <3>2, SplitFacts
    <3>4. a \in Nat
      BY <2>3, <3>1, ElementOfSeq
    <3>5. b = a + c /\ b <= Len(upFrames) /\ k < c /\ 2 * Len(upFrames) = 2 * (a + k)
      BY <2>2, <2>3, <3>1
    <3> HIDE DEF a, b, c, k
    <3> QED
      BY <2>0, <3>3, <3>4, <3>5
  <2>5. k = 0
    BY <2>2, <2>4
  <2>6. assembled = <<>>
    BY <2>5, EmptySeq DEF NoiseInv, NoiseTypeOK
  <2> QED
    BY <2>4, <2>6
<1> QED
  BY <1>1, NoiseAlways, PTL
=============================================================================
