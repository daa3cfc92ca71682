--------------------------- MODULE SequenceLemmas ---------------------------
(* Facts about Front, Last, Range and concatenation that proofs about       *)
(* stacks and queues kept as sequences cite by name.                        *)
EXTENDS Integers, SequencesExt, TLAPS


LEMMA FrontLast ==
  ASSUME NEW S, NEW s \in Seq(S), s # <<>>
  PROVE  /\ Last(s) \in S
         /\ Front(s) \in Seq(S)
         /\ Range(s) = Range(Front(s)) \union {Last(s)}
  <1>1. Len(s) \in Nat /\ Len(s) > 0 /\ DOMAIN s = 1 .. Len(s)
    OBVIOUS
  <1>2. Front(s) = [n \in 1 .. Len(s) - 1 |-> s[n]]
    BY <1>1 DEF Front
  <1>3. Front(s) \in Seq(S) /\ Last(s) \in S
    BY <1>1 DEF Front, Last
  <1>4. Range(Front(s)) = {s[n] : n \in 1 .. Len(s) - 1}
    BY <1>1, <1>2 DEF Range
  <1>5. Range(s) = {s[n] : n \in 1 .. Len(s)}
    BY <1>1 DEF Range
  <1>6. 1 .. Len(s) = (1 .. Len(s) - 1) \union {Len(s)}
    BY <1>1
  <1>7. QED
    BY <1>3, <1>4, <1>5, <1>6 DEF Last

LEMMA RangeConcat ==
  ASSUME NEW S, NEW s \in Seq(S), NEW t \in Seq(S)
  PROVE  /\ s \o t \in Seq(S)
         /\ Range(s \o t) = Range(s) \union Range(t)
  <1>1. s \o t \in Seq(S) /\ Len(s \o t) = Len(s) + Len(t)
    OBVIOUS
  <1>2. ASSUME NEW x \in Range(s \o t)
        PROVE  x \in Range(s) \union Range(t)
    <2>1. PICK n \in 1 .. Len(s) + Len(t) : x = (s \o t)[n]
      BY <1>1, <1>2 DEF Range
    <2>2. CASE n <= Len(s)
      BY <2>1, <2>2 DEF Range
    <2>3. CASE n > Len(s)
      <3>1. n - Len(s) \in DOMAIN t /\ x = t[n - Len(s)]
        BY <2>1, <2>3
      <3>2. QED
        BY <3>1 DEF Range
    <2>4. QED
      BY <2>2, <2>3
  <1>3. ASSUME NEW x \in Range(s)
        PROVE  x \in Range(s \o t)
    <2>1. PICK n \in DOMAIN s : x = s[n]
      BY <1>3 DEF Range
    <2>2. n \in DOMAIN (s \o t) /\ (s \o t)[n] = x
      BY <2>1, <1>1
    <2>3. QED
      BY <2>2 DEF Range
  <1>4. ASSUME NEW x \in Range(t)
        PROVE  x \in Range(s \o t)
    <2>1. PICK n \in DOMAIN t : x = t[n]
      BY <1>4 DEF Range
    <2>2. n + Len(s) \in DOMAIN (s \o t) /\ (s \o t)[n + Len(s)] = x
      BY <2>1, <1>1
    <2>3. QED
      BY <2>2 DEF Range
  <1>5. QED
    BY <1>1, <1>2, <1>3, <1>4

LEMMA RangeAppend ==
  ASSUME NEW S, NEW s \in Seq(S), NEW e \in S
  PROVE  /\ Append(s, e) \in Seq(S)
         /\ Range(Append(s, e)) = Range(s) \union {e}
  <1>1. /\ Append(s, e) \in Seq(S)
        /\ DOMAIN Append(s, e) = (DOMAIN s) \union {Len(s) + 1}
        /\ Append(s, e)[Len(s) + 1] = e
        /\ \A n \in DOMAIN s : Append(s, e)[n] = s[n]
    OBVIOUS
  <1>2. QED
    BY <1>1 DEF Range
=============================================================================
