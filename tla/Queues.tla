------------------------------- MODULE Queues -------------------------------
(***************************************************************************)
(* Which packets wait in a queue: the vocabulary of the proofs about        *)
(* components that exchange packets, and what Append and Tail do to it.     *)
(***************************************************************************)
EXTENDS Integers, Sequences, TLAPS

\* The packet e waits in the queue s.
In(s, e) == \E i \in 1..Len(s) : s[i] = e

\* It waits there once at most.
Once(s, e) == \A i, j \in 1..Len(s) : s[i] = e /\ s[j] = e => i = j

\* All packets d come before all packets e.
Before(s, d, e) == \A i, j \in 1..Len(s) : s[i] = d /\ s[j] = e => i < j

\* Nothing waits in an empty queue.
LEMMA EmptyQueue ==
  \A d, e : ~In(<<>>, e) /\ Once(<<>>, e) /\ Before(<<>>, d, e)
BY DEF In, Once, Before

\* A packet is put at the end of a queue.
LEMMA AppendQueue ==
  ASSUME NEW S, NEW s \in Seq(S), NEW p \in S
  PROVE  /\ Append(s, p) \in Seq(S) /\ Append(s, p) # <<>>
         /\ s # <<>> => Head(Append(s, p)) = Head(s)
         /\ \A e : In(Append(s, p), e) <=> In(s, e) \/ e = p
         /\ \A e : Once(s, e) /\ (e = p => ~In(s, e)) => Once(Append(s, p), e)
         /\ \A d, e : Before(s, d, e) /\ (p = d => d # e /\ ~In(s, e))
                        => Before(Append(s, p), d, e)
<1> DEFINE t == Append(s, p)
<1>1. /\ t \in Seq(S) /\ Len(t) = Len(s) + 1 /\ Len(s) \in Nat
      /\ \A i \in 1..Len(s) : t[i] = s[i]
      /\ t[Len(s) + 1] = p
  OBVIOUS
<1>2. t # <<>> /\ (s # <<>> => Head(t) = Head(s))
  <2>1. t # <<>>
    BY <1>1
  <2>2. ASSUME s # <<>> PROVE Head(t) = Head(s)
    <3>1. 1 \in 1..Len(s) /\ t[1] = s[1]
      BY <1>1, <2>2
    <3> QED BY <1>1, <2>1, <2>2, <3>1
  <2> QED BY <2>1, <2>2
<1>3. 1..Len(t) = 1..Len(s) \cup {Len(s) + 1}
  BY <1>1
<1> HIDE DEF t
<1>4. \A e : In(t, e) <=> In(s, e) \/ e = p
  BY <1>1, <1>3 DEF In
<1>5. ASSUME NEW e, Once(s, e), e = p => ~In(s, e) PROVE Once(t, e)
  BY <1>1, <1>3, <1>5 DEF Once, In
<1>6. ASSUME NEW d, NEW e, Before(s, d, e), p = d => d # e /\ ~In(s, e)
      PROVE  Before(t, d, e)
  BY <1>1, <1>3, <1>6 DEF Before, In
<1> QED BY <1>1, <1>2, <1>4, <1>5, <1>6 DEF t

\* The first packet of a queue is taken.
LEMMA TailQueue ==
  ASSUME NEW S, NEW s \in Seq(S), s # <<>>
  PROVE  /\ Tail(s) \in Seq(S) /\ Head(s) \in S
         /\ In(s, Head(s))
         /\ \A e : In(s, e) <=> In(Tail(s), e) \/ e = Head(s)
         /\ \A e : Once(s, e) => Once(Tail(s), e) /\ (e = Head(s) => ~In(Tail(s), e))
         /\ \A d, e : Before(s, d, e)
                        => /\ Before(Tail(s), d, e)
                           /\ e = Head(s) => ~In(Tail(s), d)
<1> DEFINE t == Tail(s)
<1>1. /\ t \in Seq(S) /\ Len(t) = Len(s) - 1 /\ Len(s) \in Nat \ {0}
      /\ \A i \in 1..Len(t) : t[i] = s[i + 1]
      /\ Head(s) = s[1] /\ Head(s) \in S
  OBVIOUS
<1> DEFINE h == Head(s)
<1> HIDE DEF t, h
<1>2. /\ \A i \in 1..Len(t) : i + 1 \in 1..Len(s) /\ i \in Int
      /\ \A i \in 1..Len(s) : i = 1 \/ i - 1 \in 1..Len(t)
      /\ \A i \in 1..Len(s) : i # 1 => t[i - 1] = s[i]
      /\ 1 \in 1..Len(s) /\ s[1] = h
  BY <1>1 DEF h
<1>3. \A e : In(s, e) <=> In(t, e) \/ e = h
  BY <1>1, <1>2 DEF In
<1>4. ASSUME NEW e, Once(s, e) PROVE Once(t, e) /\ (e = h => ~In(t, e))
  <2>1. Once(t, e)
    BY <1>1, <1>2, <1>4 DEF Once
  <2>2. ASSUME e = h, In(t, e) PROVE FALSE
    BY <1>1, <1>2, <1>4, <2>2 DEF Once, In
  <2> QED BY <2>1, <2>2
<1>5. ASSUME NEW d, NEW e, Before(s, d, e)
      PROVE  Before(t, d, e) /\ (e = h => ~In(t, d))
  <2>1. Before(t, d, e)
    BY <1>1, <1>2, <1>5 DEF Before
  <2>2. ASSUME e = h, In(t, d) PROVE FALSE
    BY <1>1, <1>2, <1>5, <2>2 DEF Before, In
  <2> QED BY <2>1, <2>2
<1> QED BY <1>1, <1>3, <1>4, <1>5 DEF t, h
=============================================================================
