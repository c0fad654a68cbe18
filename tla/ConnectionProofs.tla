-------------------------- MODULE ConnectionProofs --------------------------
(***************************************************************************)
(* That a connection stays in frame, answers every PDU, serves only what   *)
(* it acknowledged and loses neither a grant nor an event.                 *)
(***************************************************************************)
EXTENDS Connection, OrderFacts, FiniteSetTheorems, SequenceTheorems, TLAPS

\* What has been sent and not consumed is whole PDUs: around each unit stand
\* all the units of its PDU, in their order.
WholeFrames(s) ==
    \A i \in 1..Len(s) :
        /\ s[i].at \in 1..s[i].pdu.units
        /\ s[i].at =< i
        /\ i - s[i].at + s[i].pdu.units =< Len(s)
        /\ \A k \in 1..s[i].pdu.units : s[i - s[i].at + k] = [pdu |-> s[i].pdu, at |-> k]

\* The PDUs some client may send.
Pdus == UNION Clients

-----------------------------------------------------------------------------
\* What the proofs use of a PDU.
LEMMA PduFacts ==
    ASSUME NEW p \in Pdus
    PROVE  /\ p.declared \in Nat
           /\ p.units \in Nat \ {0}
           /\ p.declared \in HeaderLen..MaxPduLen => p.units = p.declared
           /\ p.context_id \in Nat
           /\ p.body \in [declared : Nat, items : Seq(ContextItem)]
BY ClientsAssumption, Zenon DEF Pdus

\* The units of one PDU.
LEMMA UnitsFacts ==
    ASSUME NEW p \in Pdus
    PROVE  /\ p.units \in Nat \ {0}
           /\ Units(p) \in Seq(Unit)
           /\ Len(Units(p)) = p.units
           /\ \A k \in 1..p.units : Units(p)[k] = [pdu |-> p, at |-> k]
<1>1. p.units \in Nat \ {0}
  BY PduFacts
<1>2. \A k \in 1..p.units : [pdu |-> p, at |-> k] \in Unit
  BY <1>1 DEF Unit, Pdus
<1> QED
  BY <1>1, <1>2 DEF Units

\* A PDU sent after whole PDUs.
LEMMA WholeFramesAdd ==
    ASSUME NEW s \in Seq(Unit), WholeFrames(s), NEW p \in Pdus
    PROVE  WholeFrames(s \o Units(p))
<1> DEFINE u == Units(p)
           n == Len(s)
           t == s \o u
<1>1. p.units \in Nat \ {0} /\ u \in Seq(Unit) /\ Len(u) = p.units
  BY UnitsFacts
<1>2. \A k \in 1..p.units : u[k] = [pdu |-> p, at |-> k]
  BY UnitsFacts
<1> HIDE DEF u
<1>3. /\ t \in Seq(Unit) /\ n \in Nat /\ Len(t) = n + p.units
      /\ \A i \in 1..n : t[i] = s[i]
      /\ \A i \in 1..p.units : t[i + n] = u[i]
  BY <1>1, ConcatFacts
<1>4. \A k \in 1..p.units : t[n + k] = [pdu |-> p, at |-> k]
  BY <1>1, <1>2, <1>3
<1> HIDE DEF n, t
<1> SUFFICES ASSUME NEW i \in 1..Len(t)
             PROVE  /\ t[i].at \in 1..t[i].pdu.units
                    /\ t[i].at =< i
                    /\ i - t[i].at + t[i].pdu.units =< Len(t)
                    /\ \A k \in 1..t[i].pdu.units :
                          t[i - t[i].at + k] = [pdu |-> t[i].pdu, at |-> k]
  BY DEF WholeFrames, t, u
<1>5. CASE i \in 1..n
  <2>1. t[i] = s[i]
    BY <1>3, <1>5
  <2>2. s[i] \in Unit
    BY <1>5 DEF n
  <2>3. s[i].pdu \in Pdus
    BY <2>2 DEF Unit, Pdus
  <2>4. s[i].pdu.units \in Nat \ {0}
    BY <2>3, PduFacts
  <2>5. /\ s[i].at \in 1..s[i].pdu.units
        /\ s[i].at =< i
        /\ i - s[i].at + s[i].pdu.units =< n
        /\ \A k \in 1..s[i].pdu.units : s[i - s[i].at + k] = [pdu |-> s[i].pdu, at |-> k]
    BY <1>5 DEF WholeFrames, n
  <2>6. \A k \in 1..s[i].pdu.units : i - s[i].at + k \in 1..n
    BY <1>3, <1>5, <2>4, <2>5
  <2>7. \A k \in 1..s[i].pdu.units : t[i - s[i].at + k] = s[i - s[i].at + k]
    BY <2>6, <1>3
  <2>8. i - s[i].at + s[i].pdu.units =< Len(t)
    <3>1. Len(t) \in Int /\ n =< Len(t) /\ n \in Int /\ i \in Int
      BY <1>1, <1>3, <1>5
    <3>2. s[i].pdu.units \in Int /\ s[i].at \in Int /\ i - s[i].at + s[i].pdu.units =< n
      BY <2>4, <2>5
    <3> QED
      BY ONLY <3>1, <3>2
  <2>9. \A k \in 1..s[i].pdu.units : t[i - s[i].at + k] = [pdu |-> s[i].pdu, at |-> k]
    BY ONLY <2>5, <2>7
  <2> QED
    BY ONLY <2>1, <2>5, <2>8, <2>9
<1>6. CASE i \in n + 1 .. n + p.units
  <2> DEFINE j == i - n
  <2>1. j \in 1..p.units /\ i = n + j
    BY <1>1, <1>3, <1>6
  <2>2. t[i] = [pdu |-> p, at |-> j]
    BY <1>4, <2>1
  <2>3. t[i].pdu = p /\ t[i].at = j
    BY <2>2
  <2>4. i - t[i].at = n
    BY <2>1, <2>3, <1>3, <1>1
  <2> QED
    BY <1>1, <1>3, <1>4, <2>1, <2>3, <2>4
<1> QED
  BY <1>1, <1>3, <1>5, <1>6

\* The first PDU taken off: what is left starts with the first unit of a PDU.
LEMMA WholeFramesDrop ==
    ASSUME NEW s \in Seq(Unit), WholeFrames(s), Len(s) >= 1
    PROVE  LET d == s[1].pdu.units
           IN  /\ d \in 1..Len(s)
               /\ s[1].at = 1
               /\ WholeFrames(SubSeq(s, d + 1, Len(s)))
<1> DEFINE n == Len(s)
           d == s[1].pdu.units
           t == SubSeq(s, d + 1, n)
<1>1. n \in Nat /\ 1 \in 1..n
  OBVIOUS
<1>2. \A i \in 1..n : s[i].pdu \in Pdus /\ s[i].pdu.units \in Nat \ {0}
  <2> TAKE i \in 1..n
  <2>1. s[i] \in Unit
    OBVIOUS
  <2>2. s[i].pdu \in Pdus
    BY <2>1 DEF Unit, Pdus
  <2> QED
    BY <2>2, PduFacts
<1>3. \A i \in 1..n :
        /\ s[i].at \in 1..s[i].pdu.units
        /\ s[i].at =< i
        /\ i - s[i].at + s[i].pdu.units =< n
        /\ \A k \in 1..s[i].pdu.units : s[i - s[i].at + k] = [pdu |-> s[i].pdu, at |-> k]
  BY DEF WholeFrames
<1>4. s[1].at = 1 /\ d \in 1..n
  BY <1>1, <1>2, <1>3
<1>5. \A k \in 1..d : s[k] = [pdu |-> s[1].pdu, at |-> k]
  <2> TAKE k \in 1..d
  <2>1. s[1 - s[1].at + k] = [pdu |-> s[1].pdu, at |-> k]
    BY <1>1, <1>3
  <2>2. 1 - s[1].at + k = k
    BY <1>4
  <2> QED
    BY <2>1, <2>2
<1>6. /\ t \in Seq(Unit) /\ Len(t) = n - d
      /\ \A i \in 1..(n - d) : t[i] = s[i + d]
  <2> HIDE DEF d
  <2>1. d \in 0..Len(s)
    BY <1>4 DEF n
  <2> QED
    BY ONLY <2>1, s \in Seq(Unit), SuffixFacts DEF n, t
<1> HIDE DEF n, t, d
<1>7. WholeFrames(t)
  <2> SUFFICES ASSUME NEW i \in 1..(n - d)
               PROVE  /\ t[i].at \in 1..t[i].pdu.units
                      /\ t[i].at =< i
                      /\ i - t[i].at + t[i].pdu.units =< n - d
                      /\ \A k \in 1..t[i].pdu.units :
                            t[i - t[i].at + k] = [pdu |-> t[i].pdu, at |-> k]
    BY <1>6 DEF WholeFrames
  <2> DEFINE m == i + d
             a == s[m].at
             p == s[m].pdu
  <2>1. m \in 1..n /\ t[i] = s[m]
    BY <1>1, <1>4, <1>6
  <2>2. /\ p.units \in Nat \ {0} /\ a \in 1..p.units /\ a =< m /\ m - a + p.units =< n
        /\ \A k \in 1..p.units : s[m - a + k] = [pdu |-> p, at |-> k]
    BY <1>2, <1>3, <2>1
  <2> HIDE DEF m, a, p
  <2>0. m = i + d /\ m \in Int /\ a \in Int /\ p.units \in Int /\ d \in Int /\ n \in Int
    BY <1>1, <1>4, <2>1, <2>2 DEF m
  <2>3. a =< i
    <3> SUFFICES ASSUME a > i PROVE FALSE
      BY <2>0
    <3> DEFINE j == m - a + 1
    <3>1. j \in 1..d
      BY <2>0, <2>2
    <3>2. s[j] = [pdu |-> s[1].pdu, at |-> j]
      BY <3>1, <1>5
    <3>3. 1 \in 1..p.units
      BY <2>2
    <3>4. s[j] = [pdu |-> p, at |-> 1]
      BY <2>2, <3>3
    <3>5. j = 1 /\ p = s[1].pdu
      BY ONLY <3>2, <3>4
    <3>6. p.units = d
      BY <3>5 DEF d
    <3>7. m = a
      BY <3>5, <2>0
    <3>8. a =< p.units
      BY <2>2
    <3> QED
      BY ONLY <3>6, <3>7, <3>8, <2>0, i \in 1..(n - d)
  <2>4. \A k \in 1..p.units : i - a + k \in 1..(n - d)
    BY <2>0, <2>2, <2>3
  <2>5. \A k \in 1..p.units : t[i - a + k] = s[m - a + k]
    <3> TAKE k \in 1..p.units
    <3>1. t[i - a + k] = s[(i - a + k) + d]
      BY <2>4, <1>6
    <3>2. (i - a + k) + d = m - a + k
      BY <2>0
    <3> QED
      BY <3>1, <3>2
  <2>6. t[i].at = a /\ t[i].pdu = p
    BY <2>1 DEF a, p
  <2>7. i - a + p.units =< n - d
    BY <2>2, <2>4
  <2> QED
    BY <2>2, <2>3, <2>5, <2>6, <2>7
<1> QED
  BY <1>4, <1>7 DEF n, t, d

-----------------------------------------------------------------------------
\* push_evicting keeps the newest `cap' elements, in order.
LEMMA PushEvictingFacts ==
    ASSUME NEW T, NEW s \in Seq(T), NEW t \in Seq(T), NEW cap \in Nat
    PROVE  LET all == Len(s) + Len(t)
               out == IF all =< cap THEN 0 ELSE all - cap
               res == PushEvicting(s, t, cap)
           IN  /\ res \in Seq(T)
               /\ Len(res) = all - out
               /\ \A i \in 1..(all - out) : res[i] = (s \o t)[i + out]
<1> DEFINE c == s \o t
           n == Len(s) + Len(t)
           out == IF n =< cap THEN 0 ELSE n - cap
<1>1. c \in Seq(T) /\ Len(c) = n /\ n \in Nat
  OBVIOUS
<1>2. PushEvicting(s, t, cap) = IF n =< cap THEN c ELSE SubSeq(c, (n - cap) + 1, n)
  BY <1>1 DEF PushEvicting
<1> HIDE DEF c, n
<1>3. CASE n =< cap
  BY <1>1, <1>2, <1>3 DEF c, n
<1>4. CASE ~(n =< cap)
  <2>1. out = n - cap /\ out \in 0..Len(c)
    BY <1>1, <1>4
  <2>2. PushEvicting(s, t, cap) = SubSeq(c, out + 1, Len(c))
    BY <1>1, <1>2, <1>4, <2>1
  <2> HIDE DEF out
  <2>3. /\ SubSeq(c, out + 1, Len(c)) \in Seq(T)
        /\ Len(SubSeq(c, out + 1, Len(c))) = Len(c) - out
        /\ \A i \in 1..(Len(c) - out) : SubSeq(c, out + 1, Len(c))[i] = c[i + out]
    BY ONLY <1>1, <2>1, SuffixFacts
  <2> QED
    BY <1>1, <2>2, <2>3 DEF c, n, out
<1> QED
  BY <1>3, <1>4

\* What `retain' leaves: other contexts, still at most one for a syntax.
LEMMA WithoutFacts ==
    ASSUME contexts \in Seq(Context), OnePerSyntax, NEW syntax
    PROVE  LET w == Without(syntax)
           IN  /\ w \in Seq(Context)
               /\ \A i \in 1..Len(w) : w[i].syntax # syntax
               /\ \A i \in 1..Len(w) : \E j \in 1..Len(contexts) : w[i] = contexts[j]
               /\ \A i, j \in 1..Len(w) : w[i].syntax = w[j].syntax => i = j
<1> DEFINE same == { i \in DOMAIN contexts : contexts[i].syntax = syntax }
           n == Len(contexts)
           w == Without(syntax)
<1>1. n \in Nat /\ DOMAIN contexts = 1..n
  OBVIOUS
<1>2. \A i, j \in 1..n : contexts[i].syntax = contexts[j].syntax => i = j
  BY <1>1 DEF OnePerSyntax
<1>3. CASE same = {}
  <2>1. w = contexts
    BY <1>3 DEF Without
  <2>2. \A i \in 1..n : contexts[i].syntax # syntax
    BY <1>1, <1>3
  <2> QED
    BY <1>2, <2>1, <2>2
<1>4. CASE same # {}
  <2> DEFINE m == Min(same)
             l == SubSeq(contexts, 1, m - 1)
             r == SubSeq(contexts, m + 1, n)
  <2>1. same \in SUBSET Nat
    BY <1>1
  <2>2. m \in same
    BY <2>1, <1>4, MinIsLeast
  <2>3. m \in 1..n /\ contexts[m].syntax = syntax
    BY <2>2, <1>1
  <2>4. w = l \o r
    BY <1>4 DEF Without
  <2> HIDE DEF m, same, n
  <2>5. m - 1 \in 0..Len(contexts) /\ m \in 0..Len(contexts)
    BY <2>3, <1>1 DEF n
  <2>6. l \in Seq(Context) /\ Len(l) = m - 1 /\ \A i \in 1..(m - 1) : l[i] = contexts[i]
    BY <2>5, PrefixFacts
  <2>7. r \in Seq(Context) /\ Len(r) = n - m /\ \A i \in 1..(n - m) : r[i] = contexts[i + m]
    BY <2>5, SuffixFacts DEF n
  <2> HIDE DEF l, r
  <2>8. /\ w \in Seq(Context) /\ Len(w) = Len(l) + Len(r)
        /\ \A i \in 1..Len(l) : w[i] = l[i]
        /\ \A i \in 1..Len(r) : w[i + Len(l)] = r[i]
    <3>1. l \in Seq(Context) /\ r \in Seq(Context)
      BY <2>6, <2>7
    <3> HIDE DEF w
    <3> QED
      BY ONLY <2>4, <3>1, ConcatFacts
  <2> HIDE DEF w
  <2>9. Len(w) = n - 1
    BY <2>6, <2>7, <2>8, <2>3, <1>1
  <2> DEFINE at(i) == IF i < m THEN i ELSE i + 1
  <2>10. \A i \in 1..(n - 1) : at(i) \in 1..n /\ at(i) # m
    BY <1>1, <2>3
  <2>11. \A i, j \in 1..(n - 1) : at(i) = at(j) => i = j
    BY <1>1, <2>3
  <2>12. \A i \in 1..(n - 1) : w[i] = contexts[at(i)]
    <3> TAKE i \in 1..(n - 1)
    <3>1. CASE i < m
      <4>1. i \in 1..Len(l) /\ i \in 1..(m - 1)
        BY <3>1, <2>6, <2>3, <1>1
      <4> QED
        BY <4>1, <2>6, <2>8, <3>1
    <3>2. CASE ~(i < m)
      <4> DEFINE k == i - (m - 1)
      <4>1. k \in 1..(n - m) /\ k + Len(l) = i /\ k + m = i + 1
        BY <3>2, <2>6, <2>3, <1>1
      <4>2. w[i] = r[k]
        BY <4>1, <2>7, <2>8
      <4>3. r[k] = contexts[i + 1]
        BY <4>1, <2>7
      <4> QED
        BY <4>2, <4>3, <3>2
    <3> QED
      BY <3>1, <3>2
  <2> HIDE DEF at
  <2>13. \A i \in 1..(n - 1) : w[i].syntax # syntax
    BY <1>2, <2>3, <2>10, <2>12
  <2>14. \A i \in 1..(n - 1) : \E j \in 1..n : w[i] = contexts[j]
    BY <2>10, <2>12
  <2>15. \A i, j \in 1..(n - 1) : w[i].syntax = w[j].syntax => i = j
    <3> TAKE i, j \in 1..(n - 1)
    <3> HAVE w[i].syntax = w[j].syntax
    <3>1. at(i) = at(j)
      BY <1>2, <2>10, <2>12
    <3> QED
      BY <3>1, <2>11
  <2> QED
    BY <2>8, <2>9, <2>13, <2>14, <2>15 DEF w, n
<1> QED
  BY <1>3, <1>4

\* The contexts after one more was accepted: within the capacity, at most one
\* for a syntax, and none that was not there or just accepted.
LEMMA AddContextFacts ==
    ASSUME contexts \in Seq(Context), OnePerSyntax, NEW accepted \in Context
    PROVE  LET a == AddContext(accepted)
           IN  /\ a \in Seq(Context) /\ Len(a) =< MaxContexts
               /\ \A i, j \in 1..Len(a) : a[i].syntax = a[j].syntax => i = j
               /\ \A i \in 1..Len(a) :
                     a[i] = accepted \/ \E j \in 1..Len(contexts) : a[i] = contexts[j]
<1> DEFINE w == Without(accepted.syntax)
           t == <<accepted>>
           c == w \o t
           n == Len(w) + Len(t)
           out == IF n =< MaxContexts THEN 0 ELSE n - MaxContexts
           a == AddContext(accepted)
<1>0. MaxContexts \in Nat \ {0}
  BY ConnectionAssumption
<1>1. /\ w \in Seq(Context)
      /\ \A i \in 1..Len(w) : w[i].syntax # accepted.syntax
      /\ \A i \in 1..Len(w) : \E j \in 1..Len(contexts) : w[i] = contexts[j]
      /\ \A i, j \in 1..Len(w) : w[i].syntax = w[j].syntax => i = j
  BY WithoutFacts
<1>2. t \in Seq(Context) /\ Len(t) = 1 /\ t[1] = accepted
  OBVIOUS
<1> HIDE DEF w, t
<1>3. /\ c \in Seq(Context) /\ Len(c) = Len(w) + 1
      /\ \A i \in 1..Len(w) : c[i] = w[i]
      /\ c[Len(w) + 1] = accepted
  <2>0. w \in Seq(Context) /\ t \in Seq(Context)
    BY <1>1, <1>2
  <2>1. /\ c \in Seq(Context) /\ Len(c) = Len(w) + Len(t)
        /\ \A i \in 1..Len(w) : c[i] = w[i]
        /\ \A i \in 1..Len(t) : c[i + Len(w)] = t[i]
    BY ONLY <2>0, ConcatFacts
  <2> HIDE DEF c
  <2>2. 1 \in 1..Len(t) /\ Len(w) \in Nat
    BY ONLY <2>0, <1>2
  <2>3. c[1 + Len(w)] = t[1]
    BY ONLY <2>1, <2>2
  <2>4. 1 + Len(w) = Len(w) + 1
    BY ONLY <2>2
  <2> QED
    BY ONLY <1>2, <2>1, <2>3, <2>4
<1>4. a = PushEvicting(w, t, MaxContexts)
  BY DEF AddContext, w, t
<1>5. /\ a \in Seq(Context) /\ Len(a) = n - out
      /\ \A i \in 1..(n - out) : a[i] = c[i + out]
  <2>1. w \in Seq(Context) /\ t \in Seq(Context) /\ MaxContexts \in Nat
    BY <1>0, <1>1, <1>2
  <2> HIDE DEF a
  <2> QED
    BY ONLY <2>1, <1>4, PushEvictingFacts
<1> HIDE DEF a, c
<1>6. n = Len(w) + 1 /\ n \in Nat /\ out \in 0..n /\ n - out =< MaxContexts
  BY <1>0, <1>1, <1>2
<1>7. \A i, j \in 1..n : c[i].syntax = c[j].syntax => i = j
  <2>1. \A i \in 1..n : i \in 1..Len(w) \/ i = Len(w) + 1
    BY <1>6, <1>1
  <2> QED
    BY <2>1, <1>1, <1>3
<1>8. \A i \in 1..n : c[i] = accepted \/ \E j \in 1..Len(contexts) : c[i] = contexts[j]
  <2>1. \A i \in 1..n : i \in 1..Len(w) \/ i = Len(w) + 1
    BY <1>6, <1>1
  <2> QED
    BY <2>1, <1>1, <1>3
<1> HIDE DEF n, out
<1>9. \A i \in 1..(n - out) : i + out \in 1..n
  BY <1>6
<1>10. \A i, j \in 1..(n - out) : a[i].syntax = a[j].syntax => i = j
  <2> TAKE i, j \in 1..(n - out)
  <2> HAVE a[i].syntax = a[j].syntax
  <2>1. i + out = j + out
    BY <1>5, <1>7, <1>9
  <2> QED
    BY <2>1, <1>6
<1>11. \A i \in 1..(n - out) :
         a[i] = accepted \/ \E j \in 1..Len(contexts) : a[i] = contexts[j]
  <2> TAKE i \in 1..(n - out)
  <2>1. i + out \in 1..n /\ a[i] = c[i + out]
    BY <1>5, <1>9
  <2> QED
    BY <2>1, <1>8
<1> QED
  BY <1>5, <1>6, <1>10, <1>11 DEF a

\* What bind::decide accepts is a context in one of the two data syntaxes.
LEMMA AcceptedTyped ==
    ASSUME NEW p \in Pdus, ParseOk(p.body),
           NEW accepted \in Decide(Parse(p.body), Ndr64Enabled).accepted_context
    PROVE  accepted \in Context
<1> DEFINE body == p.body
           request == Parse(body)
           n == Considered(body)
           able == Candidates(request, Ndr64Enabled)
<1>1. body.declared \in Nat /\ body.items \in Seq(ContextItem)
  BY PduFacts
<1>2. n \in 0..Len(body.items)
  BY <1>1, BindAssumption DEF Considered, Smaller, ParseOk
<1>3. request.items = SubSeq(body.items, 1, n)
  BY DEF Parse
<1> HIDE DEF n, body
<1>4. request.items \in Seq(ContextItem)
  BY ONLY <1>1, <1>2, <1>3, PrefixFacts
<1> HIDE DEF request
<1>5. accepted \in AcceptedContext(request, Ndr64Enabled)
  BY DEF Decide, request, body
<1>6. able # {} /\ accepted = [context_id |-> request.items[Min(able)].context_id,
                              syntax |-> Preferred(request, Ndr64Enabled)]
  BY <1>5 DEF AcceptedContext
<1>7. able \in SUBSET DOMAIN request.items /\ DOMAIN request.items = 1..Len(request.items)
  BY <1>4 DEF Candidates
<1> HIDE DEF able
<1>8. Min(able) \in 1..Len(request.items)
  <2>1. able \in SUBSET Nat
    BY <1>7
  <2> QED
    BY <1>6, <1>7, <2>1, MinIsLeast
<1>9. request.items[Min(able)] \in ContextItem
  BY <1>4, <1>8
<1>10. request.items[Min(able)].context_id \in Nat
  BY <1>9 DEF ContextItem
<1>11. Preferred(request, Ndr64Enabled) \in DataSyntax
  BY DEF Preferred, DataSyntax
<1> QED
  BY <1>6, <1>10, <1>11 DEF Context

-----------------------------------------------------------------------------
\* The records the connection hands out.
Kinds == Acks \cup {"bind_nak", "fault", "response"}

EventKinds == {"bound", "context_added", "rejected", "faulted", "refused", "activated"}

Details ==
    DataSyntax \cup
    {"none", "protocol_error", "unknown_interface", "invalid_data", "policy",
     "protocol_version_not_supported", "fragment_length", "unsupported_rpc_version",
     "authentication_attempted", "unexpected_packet_type", "reassembly_overflow",
     "v4", "v5", "v6"}

Answers == [kind : Kinds, call : {p.call : p \in Pdus}, context_id : Nat, detail : Details]

Events == [kind : EventKinds, detail : Details]

\* The types, with those of what the observer keeps; between two calls of
\* handle nothing waits to be delivered.
ConnectionType ==
    /\ TypeOK
    /\ events \in Seq(Events)
    /\ client \in Clients
    /\ response \in Seq(Answers) /\ replies \in Seq(Answers)
    /\ control = "reading" => response = <<>>
    /\ taken \in Seq(Pdus)

\* handle has not decided to end the connection.
Open == control \notin {"closing", "closed"}

\* The buffer starts with a PDU, and what the client still has on the way
\* completes it: only a connection that is closed may lose its place.
FrameInv ==
    /\ inbound # <<>> => Head(inbound).at = 1
    /\ Open => WholeFrames(inbound \o wire)

\* The PDU at the front of the buffer.
LEMMA FrontFacts ==
    ASSUME ConnectionType, HeaderHere
    PROVE  /\ inbound \in Seq(Unit) /\ Len(inbound) >= 1
           /\ inbound[1] \in Unit /\ Front = inbound[1].pdu
           /\ Front \in Pdus
<1>1. inbound \in Seq(Unit) /\ Len(inbound) >= HeaderLen
  BY DEF ConnectionType, TypeOK, HeaderHere
<1>2. HeaderLen \in Nat \ {0}
  BY ConnectionAssumption
<1>3. Len(inbound) >= 1
  BY <1>1, <1>2
<1>4. inbound[1] \in Unit /\ Head(inbound) = inbound[1]
  BY <1>1, <1>3
<1> QED
  BY <1>1, <1>3, <1>4 DEF Front, Unit, Pdus

\* A complete PDU taken off a stream in frame leaves it in frame.
LEMMA ConsumedFacts ==
    ASSUME ConnectionType, FrameInv, Framed
    PROVE  /\ Consumed \in Seq(Unit) /\ Len(Consumed) =< MaxPduLen
           /\ Consumed # <<>> => Head(Consumed).at = 1
           /\ WholeFrames(Consumed \o wire)
<1> DEFINE s == inbound \o wire
           d == Front.declared
<1>1. /\ inbound \in Seq(Unit) /\ Len(inbound) >= 1 /\ inbound[1] \in Unit
      /\ Front = inbound[1].pdu /\ Front \in Pdus
  BY FrontFacts DEF Framed, CompletePdu
<1>2. wire \in Seq(Unit) /\ Len(inbound) =< MaxPduLen
  BY DEF ConnectionType, TypeOK
<1>3. d \in Nat /\ d >= HeaderLen /\ d =< MaxPduLen /\ d =< Len(inbound)
  BY <1>1, PduFacts DEF Framed, CompletePdu, InRange
<1>4. HeaderLen \in Nat \ {0} /\ MaxPduLen \in Nat
  BY ConnectionAssumption
<1>5. Front.units = d
  <2>1. d \in HeaderLen..MaxPduLen
    BY <1>3, <1>4
  <2> QED
    BY <1>1, <2>1, PduFacts
<1>6. WholeFrames(s)
  BY DEF FrameInv, Open, Framed
<1>7. /\ s \in Seq(Unit) /\ Len(s) = Len(inbound) + Len(wire)
      /\ \A i \in 1..Len(inbound) : s[i] = inbound[i]
  BY <1>1, <1>2, ConcatFacts
<1>8. s[1] = inbound[1] /\ Len(s) >= 1
  BY <1>1, <1>2, <1>7
<1>9. d \in 0..Len(inbound)
  BY <1>1, <1>3
<1> HIDE DEF d
<1>10. /\ Consumed \in Seq(Unit) /\ Len(Consumed) = Len(inbound) - d
       /\ \A i \in 1..(Len(inbound) - d) : Consumed[i] = inbound[i + d]
  BY ONLY <1>1, <1>9, SuffixFacts DEF Consumed, d
<1>11. Consumed \o wire = SubSeq(s, d + 1, Len(s))
  <2> DEFINE l == Consumed \o wire
             r == SubSeq(s, d + 1, Len(s))
             n == Len(s) - d
  <2>1. d \in 0..Len(s)
    BY <1>2, <1>7, <1>9
  <2>2. r \in Seq(Unit) /\ Len(r) = n /\ \A i \in 1..n : r[i] = s[i + d]
    BY ONLY <1>7, <2>1, SuffixFacts
  <2>3. /\ l \in Seq(Unit) /\ Len(l) = Len(Consumed) + Len(wire)
        /\ \A i \in 1..Len(Consumed) : l[i] = Consumed[i]
        /\ \A i \in 1..Len(wire) : l[i + Len(Consumed)] = wire[i]
    <3>1. Consumed \in Seq(Unit) /\ wire \in Seq(Unit)
      BY <1>2, <1>10
    <3> QED
      BY ONLY <3>1, ConcatFacts
  <2>4. \A i \in 1..Len(wire) : s[i + Len(inbound)] = wire[i]
    BY <1>1, <1>2, ConcatFacts
  <2>5. Len(l) = n
    BY <1>1, <1>2, <1>7, <1>9, <1>10, <2>3
  <2> HIDE DEF l, r, n, s
  <2>6. \A i \in 1..n : l[i] = r[i]
    <3> TAKE i \in 1..n
    <3>1. Len(inbound) \in Int /\ Len(wire) \in Int /\ d \in Int /\ n = Len(inbound) + Len(wire) - d
          /\ d =< Len(inbound) /\ d >= 0
      BY <1>1, <1>2, <1>7, <1>9 DEF n
    <3>2. CASE i =< Len(inbound) - d
      <4>1. i \in 1..(Len(inbound) - d) /\ i + d \in 1..Len(inbound)
        BY <3>1, <3>2
      <4> QED
        BY <4>1, <1>7, <1>10, <2>2, <2>3
    <3>3. CASE i > Len(inbound) - d
      <4> DEFINE k == i - (Len(inbound) - d)
      <4>1. k \in 1..Len(wire) /\ k + (Len(inbound) - d) = i /\ k + Len(inbound) = i + d
        BY <3>1, <3>3
      <4> HIDE DEF k
      <4>2. l[i] = wire[k]
        BY <4>1, <2>3, <1>10
      <4>3. r[i] = wire[k]
        BY <4>1, <2>2, <2>4
      <4> QED
        BY <4>2, <4>3
    <3> QED
      BY <3>1, <3>2, <3>3
  <2>7. l = r
    <3>1. Len(l) = Len(r) /\ \A i \in 1..Len(l) : l[i] = r[i]
      BY <2>2, <2>5, <2>6
    <3>2. l \in Seq(Unit) /\ r \in Seq(Unit)
      BY <2>2, <2>3
    <3> QED
      BY ONLY <3>1, <3>2, SeqEqual
  <2> QED
    BY <2>7 DEF l, r
<1> HIDE DEF s
<1>12. s[1].pdu.units = d
  BY <1>1, <1>5, <1>8
<1>13. WholeFrames(Consumed \o wire)
  BY <1>6, <1>7, <1>8, <1>11, <1>12, WholeFramesDrop
<1>14. ASSUME Consumed # <<>> PROVE Head(Consumed).at = 1
  <2> DEFINE t == Consumed \o wire
  <2>1. Len(Consumed) >= 1 /\ Head(Consumed) = Consumed[1]
    BY <1>10, <1>14
  <2>2. t \in Seq(Unit) /\ Len(t) >= 1 /\ t[1] = Consumed[1]
    BY <1>2, <1>10, <2>1, ConcatFacts
  <2> HIDE DEF t
  <2>3. t[1].at = 1
    BY <1>13, <2>2, WholeFramesDrop DEF t
  <2> QED
    BY <2>1, <2>2, <2>3
<1>15. Len(Consumed) =< MaxPduLen
  BY <1>1, <1>2, <1>4, <1>9, <1>10
<1> QED
  BY <1>10, <1>13, <1>14, <1>15

-----------------------------------------------------------------------------
\* Every step of the loop takes one whole PDU off the buffer, or none and
\* waits, or empties the buffer of a connection it closes.
LEMMA StepFrames ==
    ASSUME Step
    PROVE  /\ control = "stepping"
           /\ control' \in {"stepping", "draining", "closing"}
           /\ UNCHANGED <<wire, client, sent, replies, logged>>
           /\ phase' \in {phase, "bound"}
           /\ \/ inbound' = inbound
              \/ inbound' = <<>> /\ control' = "closing"
              \/ Framed /\ inbound' = Consumed
<1> USE DEF Framed, peer
<1>1. CASE NeedMore
  BY <1>1 DEF NeedMore, machine, history
<1>2. CASE RejectLength
  BY <1>2 DEF RejectLength, Leave
<1>3. CASE BadVersion
  BY <1>3 DEF BadVersion, Leave
<1>4. CASE Authenticated
  BY <1>4 DEF Authenticated, Fault, Send
<1>5. CASE RejectPdu
  BY <1>5 DEF RejectPdu, Ordinary, Leave
<1>6. CASE \E ok \in BOOLEAN : HandleBind(ok)
  BY <1>6 DEF HandleBind, Ordinary, Send, Leave
<1>7. CASE RequestUnbound
  BY <1>7 DEF RequestUnbound, ARequest, Ordinary, Fault, Send
<1>8. CASE StrayContinuation
  BY <1>8 DEF StrayContinuation, ARequest, Ordinary, Fault, Send
<1>9. CASE UnknownContext
  BY <1>9 DEF UnknownContext, Continued, ARequest, Ordinary, Fault, Send
<1>10. CASE ReassemblyOverflow
  BY <1>10 DEF ReassemblyOverflow, Served, Continued, ARequest, Ordinary,
               Fault, Send
<1>11. CASE HoldFragment
  BY <1>11 DEF HoldFragment, Served, Continued, ARequest, Ordinary,
               history
<1>12. CASE BadStub
  BY <1>12 DEF BadStub, Complete, Served, Continued, ARequest, Ordinary,
               CallDone, Fault, Send
<1>13. CASE UnsupportedKms
  BY <1>13 DEF UnsupportedKms, Complete, Served, Continued, ARequest,
               Ordinary, CallDone, Refuse, Send
<1>14. CASE PolicyRefuses
  BY <1>14 DEF PolicyRefuses, Complete, Served, Continued, ARequest,
               Ordinary, CallDone, Refuse, Send
<1>15. CASE \E ok \in BOOLEAN : PolicyGrants(ok)
  BY <1>15 DEF PolicyGrants, Complete, Served, Continued, ARequest,
               Ordinary, CallDone, Send, Leave
<1> QED
  BY <1>1, <1>2, <1>3, <1>4, <1>5, <1>6, <1>7, <1>8, <1>9, <1>10, <1>11, <1>12, <1>13,
     <1>14, <1>15 DEF Step

-----------------------------------------------------------------------------
\* A reply to the PDU at the front joins the response, the PDU leaves for good.
Replied(r) ==
    /\ r \in Answers /\ r.call = Front.call /\ Front \in Pdus
    /\ response' = Append(response, r)
    /\ taken' = Append(taken, Front)

\* The five things a step can come to: it waits; it answers without a grant;
\* it ends the connection without an answer, perhaps over a counted grant; it
\* acknowledges the context it adds; or it delivers a grant on a context it has.
Waits == UNCHANGED <<response, taken, granted, contexts>>

Tells == \E r \in Answers : Replied(r) /\ ~IsGrant(r) /\ UNCHANGED <<granted, contexts>>

Drops ==
    /\ control' = "closing" /\ Front \in Pdus
    /\ response' = response /\ taken' = Append(taken, Front)
    /\ granted' \in {granted, granted + 1}
    /\ contexts' = contexts \/ \E accepted \in Context : contexts' = AddContext(accepted)

Acknowledges ==
    \E r \in Answers, accepted \in Context :
        /\ Replied(r) /\ r.kind \in Acks
        /\ r.context_id = accepted.context_id /\ r.detail = accepted.syntax
        /\ contexts' = AddContext(accepted)
        /\ UNCHANGED granted

Delivers ==
    \E r \in Answers :
        /\ Replied(r) /\ IsGrant(r)
        /\ \E i \in DOMAIN contexts :
              contexts[i].context_id = r.context_id /\ contexts[i].syntax = r.detail
        /\ granted' = granted + 1
        /\ UNCHANGED contexts

\* A reply is well formed.
LEMMA ReplyTyped ==
    ASSUME NEW p \in Pdus, NEW kind \in Kinds, NEW context_id \in Nat, NEW detail \in Details
    PROVE  /\ Reply(kind, p, context_id, detail) \in Answers
           /\ Reply(kind, p, context_id, detail).call = p.call
           /\ Reply(kind, p, context_id, detail).kind = kind
           /\ Reply(kind, p, context_id, detail).detail = detail
           /\ Reply(kind, p, context_id, detail).context_id = context_id
BY DEF Reply, Answers

\* The context a fragment is about is one a fragment named, or 0.
LEMMA FragmentTyped ==
    ASSUME ConnectionType, Continued
    PROVE  FragmentContext \in Nat
<1>1. Front \in Pdus
  BY FrontFacts DEF Continued, ARequest, Ordinary, Framed, CompletePdu
<1>2. Front.context_id \in Nat
  BY <1>1, PduFacts
<1>3. reassembling_context \in SUBSET Nat
  BY DEF ConnectionType, TypeOK
<1>4. CASE Front.first
  BY <1>2, <1>4 DEF FragmentContext
<1>5. CASE ~Front.first
  <2>1. reassembling_context # {}
    BY <1>5 DEF Continued
  <2>2. FragmentContext = CHOOSE c \in reassembling_context : TRUE
    BY <1>5 DEF FragmentContext
  <2> QED
    BY <1>3, <2>1, <2>2
<1> QED
  BY <1>4, <1>5

\* The syntax a fragment is served in is that of an accepted context it names.
LEMMA SyntaxForFacts ==
    ASSUME ConnectionType, NEW context_id, Matching(context_id) # {}
    PROVE  \E i \in DOMAIN contexts :
              /\ contexts[i].context_id = context_id
              /\ contexts[i].syntax = SyntaxFor(context_id)
              /\ SyntaxFor(context_id) \in DataSyntax
<1> DEFINE m == Matching(context_id)
<1>1. contexts \in Seq(Context) /\ DOMAIN contexts = 1..Len(contexts)
  BY DEF ConnectionType, TypeOK
<1>2. m \in SUBSET Nat /\ m # {} /\ m \subseteq DOMAIN contexts
  BY <1>1 DEF Matching
<1> HIDE DEF m
<1>3. Min(m) \in m
  BY <1>2, MinIsLeast
<1>4. Min(m) \in DOMAIN contexts /\ contexts[Min(m)].context_id = context_id
  BY <1>3 DEF m, Matching
<1>5. contexts[Min(m)] \in Context
  BY <1>1, <1>4
<1>6. contexts[Min(m)].syntax \in DataSyntax
  BY <1>5 DEF Context
<1> QED
  BY <1>4, <1>6 DEF SyntaxFor, m

\* A fault or a refusal is an answer without a grant.
LEMMA FaultTells ==
    ASSUME ConnectionType, Framed, NEW context_id \in Nat, NEW status \in Details, NEW before,
           Fault(Front, context_id, status, before), UNCHANGED <<granted, contexts>>
    PROVE  Tells
<1> DEFINE r == Reply("fault", Front, context_id, status)
<1>1. Front \in Pdus
  BY FrontFacts DEF Framed, CompletePdu
<1>2. r \in Answers /\ r.call = Front.call /\ r.kind = "fault"
  <2>1. "fault" \in Kinds /\ context_id \in Nat /\ status \in Details
    BY DEF Kinds
  <2> QED
    BY ONLY <1>1, <2>1, ReplyTyped
<1>3. Replied(r)
  BY <1>1, <1>2 DEF Fault, Send, Take, Replied
<1>4. ~IsGrant(r)
  BY <1>2 DEF IsGrant
<1> HIDE DEF r
<1> QED
  BY <1>2, <1>3, <1>4 DEF Tells

LEMMA RefuseTells ==
    ASSUME ConnectionType, Framed, NEW context_id \in Nat,
           NEW result \in {"invalid_data", "policy"},
           Refuse(Front, context_id, result), UNCHANGED <<granted, contexts>>
    PROVE  Tells
<1> DEFINE r == Reply("response", Front, context_id, result)
<1>1. Front \in Pdus
  BY FrontFacts DEF Framed, CompletePdu
<1>2. r \in Answers /\ r.call = Front.call /\ r.detail = result
  <2>1. "response" \in Kinds /\ context_id \in Nat /\ result \in Details
    BY DEF Kinds, Details
  <2> QED
    BY ONLY <1>1, <2>1, ReplyTyped
<1>3. Replied(r)
  BY <1>1, <1>2 DEF Refuse, Send, Take, Replied
<1>4. ~IsGrant(r)
  BY <1>2 DEF IsGrant, DataSyntax
<1> HIDE DEF r
<1> QED
  BY <1>2, <1>3, <1>4 DEF Tells

\* A bind that is answered is answered with what was accepted, if anything.
LEMMA BindKinds ==
    ASSUME ConnectionType, NEW ok \in BOOLEAN, HandleBind(ok)
    PROVE  Tells \/ Acknowledges \/ Drops
<1> DEFINE decision == Decide(Parse(Front.body), Ndr64Enabled)
           writable == AckWritable(AckDigits(Front), Len(decision.results), Available, ok)
           es(accepted) == <<Event(IF phase = "unbound" THEN "bound" ELSE "context_added",
                                   accepted.syntax)>>
           ack(id, detail) == Reply(AckKind(Front), Front, id, detail)
<1>1. Front \in Pdus
  BY FrontFacts DEF HandleBind, Ordinary, Framed, CompletePdu
<1>2. AckKind(Front) \in Acks /\ Acks \subseteq Kinds
  BY DEF AckKind, Acks, Kinds
<1>3. ParseOk(Front.body) /\ granted' = granted
  BY DEF HandleBind
<1>4. \/ /\ UNCHANGED <<phase, contexts>>
         /\ IF writable THEN Send(ack(0, "none"), <<>>) ELSE Leave(<<>>, <<>>)
      \/ \E accepted \in decision.accepted_context :
            /\ contexts' = AddContext(accepted)
            /\ IF writable THEN Send(ack(accepted.context_id, accepted.syntax), es(accepted))
                           ELSE Leave(<<>>, es(accepted))
  BY DEF HandleBind
<1> HIDE DEF decision, writable, es, ack
<1>5. ASSUME NEW el, Leave(<<>>, el)
      PROVE  control' = "closing" /\ response' = response /\ taken' = Append(taken, Front)
  BY <1>5 DEF Leave, Take, ConnectionType
<1>6. CASE /\ UNCHANGED <<phase, contexts>>
           /\ IF writable THEN Send(ack(0, "none"), <<>>) ELSE Leave(<<>>, <<>>)
  <2>1. CASE writable
    <3> DEFINE r == ack(0, "none")
    <3>1. r \in Answers /\ r.call = Front.call /\ r.kind = AckKind(Front)
      <4>1. AckKind(Front) \in Kinds /\ 0 \in Nat /\ "none" \in Details
        BY <1>2 DEF Details
      <4> QED
        BY ONLY <1>1, <4>1, ReplyTyped DEF ack
    <3>2. Send(r, <<>>)
      BY <1>6, <2>1
    <3> HIDE DEF r
    <3>3. Replied(r)
      BY <1>1, <3>1, <3>2 DEF Send, Take, Replied
    <3>4. ~IsGrant(r)
      BY <1>2, <3>1 DEF IsGrant, Acks
    <3> QED
      BY <1>3, <1>6, <3>1, <3>3, <3>4 DEF Tells
  <2>2. CASE ~writable
    <3>1. Leave(<<>>, <<>>)
      BY <1>6, <2>2
    <3> QED
      BY <1>1, <1>3, <1>5, <1>6, <3>1 DEF Drops
  <2> QED
    BY <2>1, <2>2
<1>7. ASSUME NEW accepted \in decision.accepted_context,
             contexts' = AddContext(accepted),
             IF writable THEN Send(ack(accepted.context_id, accepted.syntax), es(accepted))
                         ELSE Leave(<<>>, es(accepted))
      PROVE  Acknowledges \/ Drops
  <2>1. accepted \in Context
    BY <1>1, <1>3, AcceptedTyped DEF decision
  <2>2. accepted.context_id \in Nat /\ accepted.syntax \in Details
    BY <2>1 DEF Context, Details
  <2>3. CASE writable
    <3> DEFINE r == ack(accepted.context_id, accepted.syntax)
    <3>1. /\ r \in Answers /\ r.call = Front.call /\ r.kind = AckKind(Front)
          /\ r.context_id = accepted.context_id /\ r.detail = accepted.syntax
      <4>1. AckKind(Front) \in Kinds
        BY <1>2
      <4> QED
        BY ONLY <1>1, <2>2, <4>1, ReplyTyped DEF ack
    <3>2. Send(r, es(accepted))
      BY <1>7, <2>3
    <3> HIDE DEF r
    <3>3. Replied(r)
      BY <1>1, <3>1, <3>2 DEF Send, Take, Replied
    <3>4. r.kind \in Acks
      BY <1>2, <3>1
    <3> QED
      BY <1>3, <1>7, <2>1, <3>1, <3>3, <3>4 DEF Acknowledges
  <2>4. CASE ~writable
    <3>1. Leave(<<>>, es(accepted))
      BY <1>7, <2>4
    <3> QED
      BY <1>1, <1>3, <1>5, <1>7, <2>1, <3>1 DEF Drops
  <2> QED
    BY <2>3, <2>4
<1> QED
  BY <1>4, <1>6, <1>7

\* A grant is delivered on an accepted context, or the connection ends over it.
LEMMA GrantKinds ==
    ASSUME ConnectionType, NEW ok \in BOOLEAN, PolicyGrants(ok)
    PROVE  Delivers \/ Drops
<1> DEFINE r == Reply("response", Front, FragmentContext, SyntaxFor(FragmentContext))
<1>1. Front \in Pdus
  BY FrontFacts DEF PolicyGrants, Complete, Served, Continued, ARequest, Ordinary, Framed,
                    CompletePdu
<1>2. Continued /\ Matching(FragmentContext) # {}
  BY DEF PolicyGrants, Complete, Served
<1>3. FragmentContext \in Nat
  BY <1>2, FragmentTyped
<1>4. PICK i \in DOMAIN contexts :
          /\ contexts[i].context_id = FragmentContext
          /\ contexts[i].syntax = SyntaxFor(FragmentContext)
          /\ SyntaxFor(FragmentContext) \in DataSyntax
  BY <1>2, SyntaxForFacts
<1>5. /\ r \in Answers /\ r.call = Front.call /\ r.kind = "response"
      /\ r.context_id = FragmentContext /\ r.detail = SyntaxFor(FragmentContext)
  <2>1. "response" \in Kinds /\ SyntaxFor(FragmentContext) \in Details
    BY <1>4 DEF Kinds, Details
  <2> QED
    BY ONLY <1>1, <1>3, <2>1, ReplyTyped
<1>6. PICK version : IF version # "v4" /\ ~ok THEN Leave(<<>>, <<>>)
                                              ELSE Send(r, <<Event("activated", version)>>)
  BY DEF PolicyGrants
<1>7. granted' = granted + 1 /\ contexts' = contexts
  BY DEF PolicyGrants, CallDone
<1> HIDE DEF r
<1>8. CASE Leave(<<>>, <<>>)
  BY <1>1, <1>7, <1>8 DEF Leave, Take, Drops, ConnectionType
<1>9. CASE Send(r, <<Event("activated", version)>>)
  <2>1. Replied(r)
    BY <1>1, <1>5, <1>9 DEF Send, Take, Replied
  <2>2. IsGrant(r)
    BY <1>4, <1>5 DEF IsGrant
  <2> QED
    BY <1>4, <1>5, <1>7, <2>1, <2>2 DEF Delivers
<1> QED
  BY <1>6, <1>8, <1>9

\* A step comes to one of the five.
LEMMA StepKinds ==
    ASSUME ConnectionType, Step
    PROVE  Waits \/ Tells \/ Drops \/ Acknowledges \/ Delivers
<1>0. ASSUME NEW el, HeaderHere, Leave(<<>>, el), UNCHANGED <<contexts, granted>>
      PROVE  Drops
  BY <1>0, FrontFacts DEF Leave, Take, Drops, ConnectionType
<1>00. {"protocol_error", "unknown_interface"} \subseteq Details /\ 0 \in Nat
  BY DEF Details
<1>1. CASE NeedMore
  BY <1>1 DEF NeedMore, machine, history, Waits
<1>2. CASE RejectLength
  BY <1>0, <1>2 DEF RejectLength
<1>3. CASE BadVersion
  <2> DEFINE r == Reply("bind_nak", Front, 0, "protocol_version_not_supported")
  <2>1. Front \in Pdus
    BY <1>3, FrontFacts DEF BadVersion, Framed, CompletePdu
  <2>2. r \in Answers /\ r.call = Front.call /\ r.kind = "bind_nak"
    <3>1. "bind_nak" \in Kinds /\ 0 \in Nat /\ "protocol_version_not_supported" \in Details
      BY DEF Kinds, Details
    <3> QED
      BY ONLY <2>1, <3>1, ReplyTyped
  <2>3. response' = response \o <<r>> /\ taken' = Append(taken, Front)
        /\ UNCHANGED <<granted, contexts>>
    BY <1>3 DEF BadVersion, Leave, Take
  <2> HIDE DEF r
  <2>4. response \o <<r>> = Append(response, r)
    BY <2>2 DEF ConnectionType
  <2>5. ~IsGrant(r)
    BY <2>2 DEF IsGrant
  <2> QED
    BY <2>1, <2>2, <2>3, <2>4, <2>5 DEF Tells, Replied
<1>4. CASE Authenticated
  BY <1>4, <1>00, FaultTells DEF Authenticated
<1>5. CASE RejectPdu
  BY <1>0, <1>5 DEF RejectPdu, Ordinary, Framed, CompletePdu
<1>6. CASE \E ok \in BOOLEAN : HandleBind(ok)
  BY <1>6, BindKinds
<1>7. CASE RequestUnbound
  BY <1>7, <1>00, FaultTells DEF RequestUnbound, ARequest, Ordinary
<1>8. CASE StrayContinuation
  BY <1>8, <1>00, FaultTells DEF StrayContinuation, ARequest, Ordinary
<1>9. CASE UnknownContext
  BY <1>9, <1>00, FaultTells, FragmentTyped DEF UnknownContext, Continued, ARequest, Ordinary
<1>10. CASE ReassemblyOverflow
  BY <1>10, <1>00, FaultTells, FragmentTyped
     DEF ReassemblyOverflow, Served, Continued, ARequest, Ordinary
<1>11. CASE HoldFragment
  BY <1>11 DEF HoldFragment, history, Waits
<1>12. ASSUME Complete PROVE Framed /\ FragmentContext \in Nat
  BY <1>12, FragmentTyped DEF Complete, Served, Continued, ARequest, Ordinary
<1>13. CASE BadStub
  <2>1. Complete /\ UNCHANGED <<granted, contexts>>
    BY <1>13 DEF BadStub, CallDone
  <2>2. PICK outcome : Fault(Front, FragmentContext,
                             IF outcome = "unknown_operation" THEN "unknown_interface"
                                                              ELSE "protocol_error", <<>>)
    BY <1>13 DEF BadStub
  <2> QED
    BY <2>1, <2>2, <1>00, <1>12, FaultTells
<1>14. CASE UnsupportedKms
  BY <1>12, <1>14, RefuseTells DEF UnsupportedKms, CallDone
<1>15. CASE PolicyRefuses
  BY <1>12, <1>15, RefuseTells DEF PolicyRefuses, CallDone
<1>16. CASE \E ok \in BOOLEAN : PolicyGrants(ok)
  BY <1>16, GrantKinds
<1> QED
  BY <1>1, <1>2, <1>3, <1>4, <1>5, <1>6, <1>7, <1>8, <1>9, <1>10, <1>11, <1>13, <1>14,
     <1>15, <1>16 DEF Step

-----------------------------------------------------------------------------
\* What a step records, if anything, is a sequence of events.
LEMMA StepEvents ==
    ASSUME ConnectionType, Step
    PROVE  \/ UNCHANGED <<events, lost_events, recorded>>
           \/ \E es \in Seq(Events) : Record(es)
<1>1. \A k \in EventKinds, d \in Details : Event(k, d) \in Events
  BY DEF Event, Events
<1>2. \A e \in Events : <<e>> \in Seq(Events)
  OBVIOUS
<1>3. \A s \in Seq(Events), e \in Events : Append(s, e) \in Seq(Events)
  OBVIOUS
<1>4. <<>> \in Seq(Events)
  OBVIOUS
<1>5. /\ Event("rejected", "fragment_length") \in Events
      /\ Event("rejected", "unsupported_rpc_version") \in Events
      /\ Event("rejected", "authentication_attempted") \in Events
      /\ Event("rejected", "unexpected_packet_type") \in Events
      /\ Event("rejected", "reassembly_overflow") \in Events
      /\ Event("faulted", "protocol_error") \in Events
      /\ Event("faulted", "unknown_interface") \in Events
      /\ Event("refused", "invalid_data") \in Events
      /\ Event("refused", "policy") \in Events
  BY <1>1 DEF EventKinds, Details
<1>6. ASSUME NEW context_id, NEW status \in {"protocol_error", "unknown_interface"},
             NEW before \in Seq(Events), Fault(Front, context_id, status, before)
      PROVE  \E es \in Seq(Events) : Record(es)
  <2>1. Append(before, Event("faulted", status)) \in Seq(Events)
    BY <1>3, <1>5
  <2> QED
    BY <1>6, <2>1 DEF Fault, Send
<1>7. ASSUME NEW context_id, NEW result \in {"invalid_data", "policy"},
             Refuse(Front, context_id, result)
      PROVE  \E es \in Seq(Events) : Record(es)
  <2>1. <<Event("refused", result)>> \in Seq(Events)
    BY <1>2, <1>5
  <2> QED
    BY <1>7, <2>1 DEF Refuse, Send
<1>8. ASSUME NEW rs, NEW es \in Seq(Events), Leave(rs, es) \/ Send(rs, es)
      PROVE  \E el \in Seq(Events) : Record(el)
  BY <1>8 DEF Leave, Send
<1>11. CASE NeedMore
  BY <1>11 DEF NeedMore, machine, history
<1>12. CASE RejectLength
  BY <1>2, <1>5, <1>8, <1>12 DEF RejectLength
<1>13. CASE BadVersion
  BY <1>2, <1>5, <1>8, <1>13 DEF BadVersion
<1>14. CASE Authenticated
  <2>1. <<Event("rejected", "authentication_attempted")>> \in Seq(Events)
    BY <1>2, <1>5
  <2> QED
    BY <1>6, <1>14, <2>1 DEF Authenticated
<1>15. CASE RejectPdu
  BY <1>2, <1>5, <1>8, <1>15 DEF RejectPdu
<1>16. ASSUME NEW ok \in BOOLEAN, HandleBind(ok)
       PROVE  \E es \in Seq(Events) : Record(es)
  <2> DEFINE decision == Decide(Parse(Front.body), Ndr64Enabled)
             made(accepted) == <<Event(IF phase = "unbound" THEN "bound" ELSE "context_added",
                                       accepted.syntax)>>
  <2>1. Front \in Pdus /\ ParseOk(Front.body)
    BY <1>16, FrontFacts DEF HandleBind, Ordinary, Framed, CompletePdu
  <2>2. ASSUME NEW accepted \in decision.accepted_context
        PROVE  made(accepted) \in Seq(Events)
    <3>1. accepted \in Context
      BY <2>1, <2>2, AcceptedTyped
    <3>2. accepted.syntax \in Details
      BY <3>1 DEF Context, Details
    <3>3. (IF phase = "unbound" THEN "bound" ELSE "context_added") \in EventKinds
      BY DEF EventKinds
    <3> QED
      BY <3>2, <3>3, <1>1, <1>2
  <2>3. \E rs, es : (es = <<>> \/ \E accepted \in decision.accepted_context : es = made(accepted))
                    /\ (Leave(rs, es) \/ Send(rs, es))
    BY <1>16 DEF HandleBind
  <2> QED
    BY <2>2, <2>3, <1>4, <1>8
<1>17. CASE RequestUnbound
  BY <1>4, <1>6, <1>17 DEF RequestUnbound
<1>18. CASE StrayContinuation
  BY <1>4, <1>6, <1>18 DEF StrayContinuation
<1>19. CASE UnknownContext
  BY <1>4, <1>6, <1>19 DEF UnknownContext
<1>20. CASE ReassemblyOverflow
  <2>1. <<Event("rejected", "reassembly_overflow")>> \in Seq(Events)
    BY <1>2, <1>5
  <2> QED
    BY <1>6, <1>20, <2>1 DEF ReassemblyOverflow
<1>21. CASE HoldFragment
  BY <1>21 DEF HoldFragment, history
<1>22. CASE BadStub
  <2>1. PICK outcome : Fault(Front, FragmentContext,
                             IF outcome = "unknown_operation" THEN "unknown_interface"
                                                              ELSE "protocol_error", <<>>)
    BY <1>22 DEF BadStub
  <2> QED
    BY <2>1, <1>4, <1>6
<1>23. CASE UnsupportedKms
  BY <1>7, <1>23 DEF UnsupportedKms
<1>24. CASE PolicyRefuses
  BY <1>7, <1>24 DEF PolicyRefuses
<1>25. ASSUME NEW ok \in BOOLEAN, PolicyGrants(ok)
       PROVE  \E es \in Seq(Events) : Record(es)
  <2>1. PICK version \in {"v4", "v5", "v6"} :
           Leave(<<>>, <<>>)
           \/ Send(Reply("response", Front, FragmentContext, SyntaxFor(FragmentContext)),
                   <<Event("activated", version)>>)
    BY <1>25 DEF PolicyGrants
  <2>2. Event("activated", version) \in Events
    BY <1>1 DEF EventKinds, Details
  <2> QED
    BY <2>1, <2>2, <1>2, <1>4, <1>8
<1> QED
  BY <1>11, <1>12, <1>13, <1>14, <1>15, <1>16, <1>17, <1>18, <1>19, <1>20, <1>21, <1>22,
     <1>23, <1>24, <1>25 DEF Step

\* The reassembly buffer holds units of stubs, never more than a stub's length.
LEMMA StepReassembly ==
    ASSUME ConnectionType, Step
    PROVE  /\ reassembly' \in Seq(Unit) /\ Len(reassembly') =< MaxStubLen
           /\ reassembling_context' \in SUBSET Nat
<1>1. /\ reassembly \in Seq(Unit) /\ Len(reassembly) =< MaxStubLen
      /\ reassembling_context \in SUBSET Nat
  BY DEF ConnectionType, TypeOK
<1>2. <<>> \in Seq(Unit) /\ Len(<<>>) =< MaxStubLen
  BY ConnectionAssumption DEF MaxStubLen
<1>3. CASE HoldFragment
  <2>1. Continued /\ Framed /\ HeaderHere
    BY <1>3 DEF HoldFragment, Served, Continued, ARequest, Ordinary, Framed, CompletePdu
  <2>2. Front \in Pdus
    BY <2>1, FrontFacts
  <2>3. Front.declared - HeaderLen \in Nat
    <3>1. Front.declared \in Nat
      BY <2>2, PduFacts
    <3>2. HeaderLen \in Nat
      BY ConnectionAssumption
    <3>3. Front.declared >= HeaderLen
      BY <2>1 DEF Framed, CompletePdu, InRange
    <3> QED
      BY ONLY <3>1, <3>2, <3>3
  <2>4. Body(Front) \in Seq(Unit)
    <3>1. \A i \in 1..(Front.declared - HeaderLen) : [pdu |-> Front, at |-> HeaderLen + i] \in Unit
      BY <2>2, <2>3, ConnectionAssumption DEF Unit, Pdus
    <3> QED
      BY <2>3, <3>1 DEF Body
  <2>5. Extended \in Seq(Unit)
    BY <1>1, <1>2, <2>4 DEF Extended
  <2>6. FragmentContext \in Nat
    BY <2>1, FragmentTyped
  <2> QED
    BY <1>3, <2>5, <2>6 DEF HoldFragment
<1>4. CASE ~HoldFragment
  <2>1. CASE NeedMore \/ RejectLength \/ BadVersion \/ Authenticated \/ RejectPdu
    BY <1>1, <2>1 DEF NeedMore, machine, RejectLength, BadVersion, Authenticated, RejectPdu
  <2>2. CASE \E ok \in BOOLEAN : HandleBind(ok)
    BY <1>1, <2>2 DEF HandleBind
  <2>3. CASE RequestUnbound \/ StrayContinuation \/ UnknownContext
    BY <1>1, <2>3 DEF RequestUnbound, StrayContinuation, UnknownContext
  <2>4. CASE ReassemblyOverflow \/ BadStub \/ UnsupportedKms \/ PolicyRefuses
    BY <1>2, <2>4 DEF ReassemblyOverflow, BadStub, UnsupportedKms, PolicyRefuses, CallDone
  <2>5. CASE \E ok \in BOOLEAN : PolicyGrants(ok)
    BY <1>2, <2>5 DEF PolicyGrants, CallDone
  <2> QED
    BY <1>4, <2>1, <2>2, <2>3, <2>4, <2>5 DEF Step
<1> QED
  BY <1>3, <1>4

-----------------------------------------------------------------------------
\* The types hold at the start and are kept.
LEMMA TypeInit == Init => ConnectionType
<1> SUFFICES ASSUME Init PROVE ConnectionType
  OBVIOUS
<1>1. /\ EventCap \in Nat /\ MaxContexts \in Nat /\ MaxPduLen \in Nat /\ MaxSent \in Nat
      /\ 0 =< MaxStubLen
  BY ConnectionAssumption DEF MaxStubLen
<1>2. OnePerSyntax
  BY DEF Init, OnePerSyntax
<1>3. TypeOK
  BY <1>1, <1>2 DEF Init, TypeOK
<1> QED
  BY <1>3 DEF Init, ConnectionType

LEMMA TypeStep ==
    ASSUME ConnectionType, FrameInv, Step
    PROVE  ConnectionType'
<1>1. /\ control' \in {"stepping", "draining", "closing"}
      /\ UNCHANGED <<wire, client, sent, replies, logged>>
      /\ phase' \in {phase, "bound"}
      /\ \/ inbound' = inbound
         \/ inbound' = <<>> /\ control' = "closing"
         \/ Framed /\ inbound' = Consumed
  BY StepFrames
<1>2. inbound' \in Seq(Unit) /\ Len(inbound') =< MaxPduLen
  <2>1. CASE inbound' = inbound
    BY <2>1 DEF ConnectionType, TypeOK
  <2>2. CASE inbound' = <<>>
    BY <2>2, ConnectionAssumption
  <2>3. CASE Framed /\ inbound' = Consumed
    BY <2>3, ConsumedFacts
  <2> QED
    BY <1>1, <2>1, <2>2, <2>3
<1>3. /\ reassembly' \in Seq(Unit) /\ Len(reassembly') =< MaxStubLen
      /\ reassembling_context' \in SUBSET Nat
  BY StepReassembly
<1>4. /\ events' \in Seq(Events) /\ Len(events') =< EventCap
      /\ lost_events' \in Nat /\ recorded' \in Nat
  <2>1. CASE UNCHANGED <<events, lost_events, recorded>>
    BY <2>1 DEF ConnectionType, TypeOK
  <2>2. ASSUME NEW es \in Seq(Events), Record(es)
        PROVE  <1>4!:
    <3>1. events \in Seq(Events) /\ lost_events \in Nat /\ recorded \in Nat /\ EventCap \in Nat
      BY ConnectionAssumption DEF ConnectionType, TypeOK
    <3> DEFINE q == PushEvicting(events, es, EventCap)
               all == Len(events) + Len(es)
    <3>2. q \in Seq(Events) /\ Len(q) = all - (IF all =< EventCap THEN 0 ELSE all - EventCap)
      <4>1. events \in Seq(Events) /\ es \in Seq(Events) /\ EventCap \in Nat
        BY <3>1
      <4> QED
        BY ONLY <4>1, PushEvictingFacts
    <3>3. all \in Nat /\ Len(es) \in Nat
      BY <3>1
    <3>4. events' = q /\ recorded' = recorded + Len(es)
          /\ lost_events' = IF all =< EventCap THEN lost_events ELSE lost_events + all - EventCap
      BY <2>2, <3>1 DEF Record
    <3> HIDE DEF q, all
    <3> QED
      BY <3>1, <3>2, <3>3, <3>4
  <2> QED
    BY <2>1, <2>2, StepEvents
<1>5. /\ contexts \in Seq(Context) /\ Len(contexts) =< MaxContexts /\ OnePerSyntax
      /\ response \in Seq(Answers) /\ taken \in Seq(Pdus) /\ granted \in Nat
  BY DEF ConnectionType, TypeOK
<1>6. /\ contexts' \in Seq(Context) /\ Len(contexts') =< MaxContexts /\ OnePerSyntax'
  <2>1. CASE contexts' = contexts
    BY <1>5, <2>1 DEF OnePerSyntax
  <2>2. ASSUME NEW accepted \in Context, contexts' = AddContext(accepted)
        PROVE  <1>6!:
    <3> DEFINE a == AddContext(accepted)
    <3>1. /\ a \in Seq(Context) /\ Len(a) =< MaxContexts
          /\ \A i, j \in 1..Len(a) : a[i].syntax = a[j].syntax => i = j
      BY <1>5, AddContextFacts
    <3> HIDE DEF a
    <3>2. contexts' = a /\ DOMAIN a = 1..Len(a)
      BY <2>2, <3>1 DEF a
    <3> QED
      BY <3>1, <3>2 DEF OnePerSyntax
  <2> QED
    BY <2>1, <2>2, StepKinds DEF Waits, Tells, Drops, Acknowledges, Delivers
<1>7. ASSUME NEW r \in Answers, Replied(r)
      PROVE  response' \in Seq(Answers) /\ taken' \in Seq(Pdus)
  BY <1>5, <1>7 DEF Replied
<1>8. response' \in Seq(Answers) /\ taken' \in Seq(Pdus) /\ granted' \in Nat
  <2>1. CASE Waits
    BY <1>5, <2>1 DEF Waits
  <2>2. CASE Tells
    BY <1>5, <1>7, <2>2 DEF Tells
  <2>3. CASE Drops
    BY <1>5, <2>3 DEF Drops
  <2>4. CASE Acknowledges
    BY <1>5, <1>7, <2>4 DEF Acknowledges
  <2>5. CASE Delivers
    BY <1>5, <1>7, <2>5 DEF Delivers
  <2> QED
    BY <2>1, <2>2, <2>3, <2>4, <2>5, StepKinds
<1>9. TypeOK'
  BY <1>1, <1>2, <1>3, <1>4, <1>6, <1>8 DEF ConnectionType, TypeOK
<1> QED
  BY <1>1, <1>4, <1>8, <1>9 DEF ConnectionType

\* A read takes at least one unit, and no more than there are.
LEMMA ReadFacts ==
    ASSUME ConnectionType, NEW k \in 1..MaxRead, Receive(k)
    PROVE  /\ wire \in Seq(Unit) /\ k \in 1..Len(wire) /\ k \in 0..Len(wire)
           /\ inbound \in Seq(Unit) /\ Len(inbound) =< MaxPduLen
<1>1. wire \in Seq(Unit) /\ inbound \in Seq(Unit) /\ Len(inbound) =< MaxPduLen
  BY DEF ConnectionType, TypeOK
<1>2. k \in 1..Smaller(MaxRead, Len(wire))
  BY DEF Receive
<1>3. MaxRead \in Nat /\ Len(wire) \in Nat
  BY <1>1, ConnectionAssumption
<1>4. k \in 1..Len(wire) /\ k \in 0..Len(wire)
  BY ONLY <1>2, <1>3 DEF Smaller
<1> QED
  BY <1>1, <1>4

\* The steps that are not the loop's.
LEMMA TypeOther ==
    ASSUME ConnectionType,
           \/ \E p \in client : ClientSend(p)
           \/ \E k \in 1..MaxRead : Receive(k)
           \/ Drain \/ Disconnect \/ UNCHANGED vars
    PROVE  ConnectionType'
<1> USE DEF machine, history, peer
<1>0. OnePerSyntax' \/ ~UNCHANGED contexts
  BY DEF ConnectionType, TypeOK, OnePerSyntax
<1>1. CASE \E p \in client : ClientSend(p)
  <2>1. PICK p \in client : ClientSend(p)
    BY <1>1
  <2>2. p \in Pdus
    BY DEF ConnectionType, Pdus
  <2>3. wire' \in Seq(Unit)
    <3>1. wire \in Seq(Unit) /\ Units(p) \in Seq(Unit)
      BY <2>2, UnitsFacts DEF ConnectionType, TypeOK
    <3>2. wire' = wire \o Units(p)
      BY <2>1 DEF ClientSend
    <3> QED
      BY ONLY <3>1, <3>2, ConcatFacts
  <2>4. sent' \in 0..MaxSent
    <3>1. sent \in 0..MaxSent /\ MaxSent \in Nat
      BY ConnectionAssumption DEF ConnectionType, TypeOK
    <3>2. sent < MaxSent /\ sent' = sent + 1
      BY <2>1 DEF ClientSend
    <3> QED
      BY ONLY <3>1, <3>2
  <2> QED
    BY <1>0, <2>1, <2>3, <2>4 DEF ClientSend, ConnectionType, TypeOK
<1>2. CASE \E k \in 1..MaxRead : Receive(k)
  <2>1. PICK k \in 1..MaxRead : Receive(k)
    BY <1>2
  <2>2. /\ wire \in Seq(Unit) /\ k \in 1..Len(wire) /\ k \in 0..Len(wire)
        /\ inbound \in Seq(Unit) /\ Len(inbound) =< MaxPduLen
    BY <2>1, ReadFacts
  <2>3. wire' \in Seq(Unit)
    BY <2>1, <2>2, SuffixFacts DEF Receive
  <2>4. inbound' \in Seq(Unit) /\ Len(inbound') =< MaxPduLen
    <3>1. SubSeq(wire, 1, k) \in Seq(Unit) /\ Len(SubSeq(wire, 1, k)) = k
      BY <2>2, PrefixFacts
    <3>2. \/ inbound' = inbound
          \/ inbound' = inbound \o SubSeq(wire, 1, k) /\ Len(inbound) + k =< MaxPduLen
      BY <2>1 DEF Receive
    <3>3. CASE inbound' = inbound
      BY <2>2, <3>3
    <3>4. CASE inbound' = inbound \o SubSeq(wire, 1, k) /\ Len(inbound) + k =< MaxPduLen
      <4> DEFINE l == SubSeq(wire, 1, k)
      <4> HIDE DEF l
      <4>1. inbound \o l \in Seq(Unit) /\ Len(inbound \o l) = Len(inbound) + k
        BY ONLY <2>2, <3>1, ConcatFacts DEF l
      <4> QED
        BY <3>4, <4>1 DEF l
    <3> QED
      BY <3>2, <3>3, <3>4
  <2> QED
    BY <1>0, <2>1, <2>3, <2>4 DEF Receive, ConnectionType, TypeOK
<1>3. CASE Drain
  <2>1. /\ logged \in Nat /\ lost_events \in Nat /\ events \in Seq(Events) /\ EventCap \in Nat
        /\ response \in Seq(Answers) /\ replies \in Seq(Answers)
    BY ConnectionAssumption DEF ConnectionType, TypeOK
  <2>2. logged' \in Nat /\ replies' \in Seq(Answers) /\ response' \in Seq(Answers)
        /\ events' \in Seq(Events) /\ Len(events') =< EventCap
    BY <1>3, <2>1 DEF Drain
  <2> QED
    BY <1>0, <1>3, <2>2 DEF Drain, ConnectionType, TypeOK
<1>4. CASE Disconnect
  BY <1>0, <1>4 DEF Disconnect, ConnectionType, TypeOK
<1>5. CASE UNCHANGED vars
  BY <1>0, <1>5 DEF vars, ConnectionType, TypeOK
<1> QED
  BY <1>1, <1>2, <1>3, <1>4, <1>5

\* However the network cuts the stream up, the buffer stays in frame.
LEMMA FrameNext ==
    ASSUME ConnectionType, FrameInv, [Next]_vars
    PROVE  FrameInv'
<1> USE DEF machine, history, peer
<1>1. CASE UNCHANGED <<inbound, wire>> /\ (Open' => Open)
  BY <1>1 DEF FrameInv
<1>2. ASSUME NEW p \in client, ClientSend(p)
      PROVE  FrameInv'
  <2>1. p \in Pdus
    BY DEF ConnectionType, Pdus
  <2>2. wire' = wire \o Units(p) /\ inbound' = inbound /\ control' = control
    BY <1>2 DEF ClientSend
  <2>3. ASSUME Open PROVE WholeFrames(inbound' \o wire')
    <3>1. inbound \in Seq(Unit) /\ wire \in Seq(Unit) /\ Units(p) \in Seq(Unit)
      BY <2>1, UnitsFacts DEF ConnectionType, TypeOK
    <3>2. inbound \o (wire \o Units(p)) = (inbound \o wire) \o Units(p)
      BY ONLY <3>1, ConcatAssociative
    <3>3. WholeFrames(inbound \o wire) /\ inbound \o wire \in Seq(Unit)
      BY <2>3, <3>1, ConcatFacts DEF FrameInv
    <3>4. WholeFrames((inbound \o wire) \o Units(p))
      BY ONLY <2>1, <3>3, WholeFramesAdd
    <3> QED
      BY <2>2, <3>2, <3>4
  <2> QED
    BY <2>2, <2>3 DEF FrameInv, Open
<1>3. ASSUME NEW k \in 1..MaxRead, Receive(k)
      PROVE  FrameInv'
  <2>1. wire \in Seq(Unit) /\ inbound \in Seq(Unit) /\ k \in 1..Len(wire)
    BY <1>3, ReadFacts
  <2>2. wire' = SubSeq(wire, k + 1, Len(wire)) /\ Open
    BY <1>3 DEF Receive, Open
  <2>3. CASE Len(inbound) + k =< MaxPduLen
    <3> DEFINE l == SubSeq(wire, 1, k)
               r == SubSeq(wire, k + 1, Len(wire))
    <3>1. inbound' = inbound \o l /\ Open'
      BY <1>3, <2>3 DEF Receive, Open
    <3>2. l \in Seq(Unit) /\ r \in Seq(Unit)
      BY <2>1
    <3>3. l \o r = wire
      BY <2>1
    <3> HIDE DEF l, r
    <3>4. (inbound \o l) \o r = inbound \o (l \o r)
      BY ONLY <2>1, <3>2, ConcatAssociative
    <3>5. inbound' \o wire' = inbound \o wire
      BY <2>2, <3>1, <3>3, <3>4 DEF r
    <3>6. WholeFrames(inbound \o wire)
      BY <2>2 DEF FrameInv
    <3>7. WholeFrames(inbound' \o wire')
      BY <3>5, <3>6
    <3>8. inbound' \in Seq(Unit) /\ wire' \in Seq(Unit)
      BY <2>1, <2>2, <3>1, <3>2 DEF r
    <3>9. ASSUME inbound' # <<>> PROVE Head(inbound').at = 1
      <4> DEFINE b == inbound'
                 w == wire'
                 t == b \o w
      <4>1. b \in Seq(Unit) /\ w \in Seq(Unit) /\ b # <<>> /\ WholeFrames(t)
        BY <3>7, <3>8, <3>9
      <4> HIDE DEF b, w
      <4>2. t \in Seq(Unit) /\ Len(t) >= 1 /\ t[1] = b[1] /\ Head(b) = b[1]
        BY <4>1
      <4> HIDE DEF t
      <4>3. t[1].at = 1
        BY ONLY <4>1, <4>2, WholeFramesDrop
      <4>4. Head(b).at = 1
        BY <4>2, <4>3
      <4> QED
        BY <4>4 DEF b
    <3> QED
      BY <3>7, <3>9 DEF FrameInv
  <2>4. CASE ~(Len(inbound) + k =< MaxPduLen)
    BY <1>3, <2>4 DEF Receive, FrameInv, Open
  <2> QED
    BY <2>3, <2>4
<1>4. CASE Step
  <2>1. /\ wire' = wire /\ control = "stepping"
        /\ \/ inbound' = inbound
           \/ inbound' = <<>> /\ control' = "closing"
           \/ Framed /\ inbound' = Consumed
    BY <1>4, StepFrames
  <2>2. Open
    BY <2>1 DEF Open
  <2>3. CASE inbound' = inbound
    BY <2>1, <2>2, <2>3 DEF FrameInv
  <2>4. CASE inbound' = <<>> /\ control' = "closing"
    BY <2>4 DEF FrameInv, Open
  <2>5. CASE Framed /\ inbound' = Consumed
    <3>1. Consumed # <<>> => Head(Consumed).at = 1
      BY <2>5, ConsumedFacts
    <3>2. WholeFrames(Consumed \o wire)
      BY <2>5, ConsumedFacts
    <3> QED
      BY <2>1, <2>5, <3>1, <3>2 DEF FrameInv
  <2> QED
    BY <2>1, <2>3, <2>4, <2>5
<1>5. CASE Drain \/ Disconnect \/ UNCHANGED vars
  BY <1>1, <1>5 DEF Drain, Disconnect, vars, Open
<1> QED
  BY <1>2, <1>3, <1>4, <1>5 DEF Next

-----------------------------------------------------------------------------
\* An open connection has acknowledged every context it holds.
AckInv ==
    Open => \A i \in 1..Len(contexts) :
               \E j \in 1..Len(AllReplies) :
                  /\ AllReplies[j].kind \in Acks
                  /\ AllReplies[j].context_id = contexts[i].context_id
                  /\ AllReplies[j].detail = contexts[i].syntax

\* The replies that carry a grant.
GrantReplies(s) == { j \in 1..Len(s) : IsGrant(s[j]) }

\* The four invariants about what is answered.
RepliesInv == AckInv /\ ServedOnAcknowledged /\ EveryPduAnswered /\ GrantsDelivered

\* All replies, as a sequence.
LEMMA AllRepliesTyped ==
    ASSUME ConnectionType
    PROVE  AllReplies \in Seq(Answers) /\ DOMAIN AllReplies = 1..Len(AllReplies)
BY DEF ConnectionType, AllReplies

\* A sequence with one more element.
LEMMA AppendFacts ==
    ASSUME NEW T, NEW s \in Seq(T), NEW e \in T
    PROVE  /\ Append(s, e) \in Seq(T) /\ Len(Append(s, e)) = Len(s) + 1
           /\ \A i \in 1..Len(s) : Append(s, e)[i] = s[i]
           /\ Append(s, e)[Len(s) + 1] = e
OBVIOUS

\* A reply joins all replies at their end.
LEMMA RepliedAppends ==
    ASSUME ConnectionType, NEW r \in Answers, Replied(r), replies' = replies
    PROVE  /\ AllReplies' = Append(AllReplies, r)
           /\ taken' = Append(taken, Front) /\ Front \in Pdus /\ r.call = Front.call
<1>1. response \in Seq(Answers) /\ replies \in Seq(Answers)
  BY DEF ConnectionType
<1>2. replies \o Append(response, r) = Append(replies \o response, r)
  BY <1>1
<1> QED
  BY <1>2 DEF Replied, AllReplies

\* A step that adds no reply, and takes no PDU without closing.
LEMMA RepliesQuiet ==
    ASSUME RepliesInv, ConnectionType, AllReplies' = AllReplies,
           Open' => Open /\ contexts' = contexts,
           \/ taken' = taken /\ granted' = granted
           \/ /\ Open /\ ~Open'
              /\ Front \in Pdus /\ taken' = Append(taken, Front)
              /\ granted' \in {granted, granted + 1}
    PROVE  RepliesInv'
<1>1. AckInv'
  BY DEF RepliesInv, AckInv
<1>2. ServedOnAcknowledged'
  BY DEF RepliesInv, ServedOnAcknowledged
<1>3. taken \in Seq(Pdus) /\ granted \in Nat
  BY DEF ConnectionType, TypeOK
<1>4. AllReplies \in Seq(Answers) /\ DOMAIN AllReplies = 1..Len(AllReplies)
  BY AllRepliesTyped
<1>5. EveryPduAnswered'
  <2>1. CASE taken' = taken
    BY <2>1 DEF RepliesInv, EveryPduAnswered, Open
  <2>2. CASE Open /\ ~Open' /\ Front \in Pdus /\ taken' = Append(taken, Front)
    <3>1. Len(AllReplies) = Len(taken) /\ \A i \in DOMAIN AllReplies : AllReplies[i].call = taken[i].call
      BY <2>2 DEF RepliesInv, EveryPduAnswered, Open
    <3>2. Len(taken') = Len(taken) + 1 /\ \A i \in 1..Len(taken) : taken'[i] = taken[i]
      BY <1>3, <2>2, AppendFacts
    <3>3. \A i \in DOMAIN AllReplies : AllReplies[i].call = taken'[i].call
      BY <1>4, <3>1, <3>2
    <3>4. Len(taken) \in Nat
      BY <1>3
    <3> QED
      BY <2>2, <3>1, <3>2, <3>3, <3>4 DEF EveryPduAnswered, Open
  <2> QED
    BY <2>1, <2>2
<1>6. GrantsDelivered'
  <2> DEFINE answered == Cardinality({ j \in DOMAIN AllReplies : IsGrant(AllReplies[j]) })
  <2>1. granted - answered \in {0, 1} /\ (granted # answered => ~Open)
    BY DEF RepliesInv, GrantsDelivered, Open
  <2>2. answered \in Nat
    <3>1. IsFiniteSet(1..Len(AllReplies))
      BY <1>4, FS_Interval
    <3>2. { j \in DOMAIN AllReplies : IsGrant(AllReplies[j]) } \subseteq 1..Len(AllReplies)
      BY <1>4
    <3> QED
      BY <3>1, <3>2, FS_Subset, FS_CardinalityType
  <2> HIDE DEF answered
  <2>3. granted' - answered \in {0, 1} /\ (granted' # answered => ~Open')
    BY <1>3, <2>1, <2>2
  <2>4. Cardinality({ j \in DOMAIN AllReplies' : IsGrant(AllReplies'[j]) }) = answered
    BY DEF answered
  <2> QED
    BY <2>3, <2>4 DEF GrantsDelivered, Open, IsGrant
<1> QED
  BY <1>1, <1>2, <1>5, <1>6 DEF RepliesInv

\* A step of an open connection that adds a reply: an acknowledgement of the
\* context it adds, or a grant on a context that is held, or neither.
LEMMA RepliesAdd ==
    ASSUME RepliesInv, ConnectionType, Open, NEW r \in Answers, NEW p \in Pdus, r.call = p.call,
           AllReplies' = Append(AllReplies, r), taken' = Append(taken, p),
           granted' = granted + (IF IsGrant(r) THEN 1 ELSE 0),
           IsGrant(r) => \E i \in 1..Len(contexts) : /\ contexts[i].context_id = r.context_id
                                                     /\ contexts[i].syntax = r.detail,
           \/ contexts' = contexts
           \/ \E accepted \in Context :
                 /\ r.kind \in Acks
                 /\ r.context_id = accepted.context_id /\ r.detail = accepted.syntax
                 /\ contexts' = AddContext(accepted)
    PROVE  RepliesInv'
<1> DEFINE s == AllReplies
           n == Len(s)
           t == AllReplies'
<1>1. s \in Seq(Answers) /\ DOMAIN s = 1..n /\ n \in Nat
  BY AllRepliesTyped
<1>2. /\ t \in Seq(Answers) /\ Len(t) = n + 1
      /\ \A i \in 1..n : t[i] = s[i]
      /\ t[n + 1] = r
  BY <1>1, AppendFacts
<1>3. DOMAIN t = 1..(n + 1)
  BY <1>2
<1>4. taken \in Seq(Pdus) /\ granted \in Nat /\ contexts \in Seq(Context) /\ OnePerSyntax
  BY DEF ConnectionType, TypeOK
<1>5. \A i \in 1..Len(contexts) : \E j \in 1..n :
         s[j].kind \in Acks /\ s[j].context_id = contexts[i].context_id
         /\ s[j].detail = contexts[i].syntax
  BY DEF RepliesInv, AckInv
<1>6. \A j \in 1..n : IsGrant(s[j]) =>
         \E i \in 1..(j - 1) : s[i].kind \in Acks /\ s[i].context_id = s[j].context_id
                               /\ s[i].detail = s[j].detail
  BY <1>1 DEF RepliesInv, ServedOnAcknowledged
<1>7. n = Len(taken) /\ \A i \in 1..n : s[i].call = taken[i].call
  BY <1>1 DEF RepliesInv, EveryPduAnswered, Open
<1>8. granted = Cardinality(GrantReplies(s))
  BY <1>1 DEF RepliesInv, GrantsDelivered, Open, GrantReplies
<1> HIDE DEF s, n, t
<1>9. AckInv'
  <2>1. \A i \in 1..Len(contexts) : \E j \in 1..(n + 1) :
           t[j].kind \in Acks /\ t[j].context_id = contexts[i].context_id
           /\ t[j].detail = contexts[i].syntax
    <3> TAKE i \in 1..Len(contexts)
    <3>1. PICK j \in 1..n : s[j].kind \in Acks /\ s[j].context_id = contexts[i].context_id
                            /\ s[j].detail = contexts[i].syntax
      BY <1>5
    <3>2. j \in 1..(n + 1) /\ t[j] = s[j]
      BY <1>1, <1>2
    <3> QED
      BY <3>1, <3>2
  <2>2. \A i \in 1..Len(contexts') : \E j \in 1..(n + 1) :
           t[j].kind \in Acks /\ t[j].context_id = contexts'[i].context_id
           /\ t[j].detail = contexts'[i].syntax
    <3>1. CASE contexts' = contexts
      BY <2>1, <3>1
    <3>2. ASSUME NEW accepted \in Context, r.kind \in Acks, r.context_id = accepted.context_id,
                 r.detail = accepted.syntax, contexts' = AddContext(accepted)
          PROVE  <2>2!:
      <4> DEFINE a == AddContext(accepted)
      <4>1. \A i \in 1..Len(a) :
               a[i] = accepted \/ \E j \in 1..Len(contexts) : a[i] = contexts[j]
        BY <1>4, AddContextFacts
      <4> HIDE DEF a
      <4>2. n + 1 \in 1..(n + 1)
        BY <1>1
      <4>3. \A i \in 1..Len(a) : \E j \in 1..(n + 1) :
               t[j].kind \in Acks /\ t[j].context_id = a[i].context_id
               /\ t[j].detail = a[i].syntax
        <5> TAKE i \in 1..Len(a)
        <5>1. CASE a[i] = accepted
          BY <1>2, <3>2, <4>2, <5>1
        <5>2. CASE \E j \in 1..Len(contexts) : a[i] = contexts[j]
          BY <2>1, <5>2
        <5> QED
          BY <4>1, <5>1, <5>2
      <4>4. contexts' = a
        BY <3>2 DEF a
      <4> QED
        BY <4>3, <4>4
    <3> QED
      BY <3>1, <3>2
  <2> QED
    BY <1>2, <2>2 DEF AckInv, t
<1>10. ServedOnAcknowledged'
  <2>1. ASSUME NEW j \in 1..(n + 1), IsGrant(t[j])
        PROVE  \E i \in 1..(j - 1) : t[i].kind \in Acks /\ t[i].context_id = t[j].context_id
                                     /\ t[i].detail = t[j].detail
    <3>1. CASE j \in 1..n
      <4>1. t[j] = s[j]
        BY <1>2, <3>1
      <4>2. PICK i \in 1..(j - 1) : s[i].kind \in Acks /\ s[i].context_id = s[j].context_id
                                    /\ s[i].detail = s[j].detail
        BY <1>6, <2>1, <3>1, <4>1
      <4>3. i \in 1..n /\ t[i] = s[i]
        BY <1>1, <1>2, <3>1
      <4> QED
        BY <4>1, <4>2, <4>3
    <3>2. CASE j = n + 1
      <4>1. t[j] = r /\ j - 1 = n
        BY <1>1, <1>2, <3>2
      <4>2. PICK c \in 1..Len(contexts) : /\ contexts[c].context_id = r.context_id
                                          /\ contexts[c].syntax = r.detail
        BY <2>1, <4>1
      <4>3. PICK i \in 1..n : s[i].kind \in Acks /\ s[i].context_id = contexts[c].context_id
                              /\ s[i].detail = contexts[c].syntax
        BY <1>5
      <4>4. t[i] = s[i]
        BY <1>2
      <4> QED
        BY <4>1, <4>2, <4>3, <4>4
    <3> QED
      BY <1>1, <3>1, <3>2
  <2> QED
    BY <1>3, <2>1 DEF ServedOnAcknowledged, t, IsGrant
<1>11. EveryPduAnswered'
  <2>1. /\ Len(taken') = n + 1 /\ taken'[n + 1] = p
        /\ \A i \in 1..n : taken'[i] = taken[i]
    BY <1>4, <1>7, AppendFacts
  <2>2. \A i \in 1..(n + 1) : t[i].call = taken'[i].call
    <3> TAKE i \in 1..(n + 1)
    <3>1. CASE i \in 1..n
      BY <1>2, <1>7, <2>1, <3>1
    <3>2. CASE i = n + 1
      BY <1>2, <2>1, <3>2
    <3>3. i \in 1..n \/ i = n + 1
      BY ONLY <1>1, i \in 1..(n + 1)
    <3> QED
      BY <3>1, <3>2, <3>3
  <2> QED
    BY <1>1, <1>2, <1>3, <2>1, <2>2 DEF EveryPduAnswered, t
<1>12. GrantsDelivered'
  <2>1. GrantReplies(s) \subseteq 1..n /\ IsFiniteSet(GrantReplies(s))
    <3>1. GrantReplies(s) \subseteq 1..n
      BY DEF GrantReplies, n
    <3>2. IsFiniteSet(1..n)
      BY <1>1, FS_Interval
    <3> QED
      BY <3>1, <3>2, FS_Subset
  <2>2. granted' = Cardinality(GrantReplies(t))
    <3>1. CASE IsGrant(r)
      <4>1. GrantReplies(t) = GrantReplies(s) \cup {n + 1}
        BY <1>1, <1>2, <3>1 DEF GrantReplies, n
      <4>2. n + 1 \notin GrantReplies(s)
        BY <1>1, <2>1
      <4>3. Cardinality(GrantReplies(s) \cup {n + 1}) = Cardinality(GrantReplies(s)) + 1
        BY <2>1, <4>2, FS_AddElement
      <4> QED
        BY <1>8, <3>1, <4>1, <4>3
    <3>2. CASE ~IsGrant(r)
      <4>1. GrantReplies(t) = GrantReplies(s)
        BY <1>1, <1>2, <3>2 DEF GrantReplies, n
      <4> QED
        BY <1>4, <1>8, <3>2, <4>1
    <3> QED
      BY <3>1, <3>2
  <2>3. granted' \in Nat
    BY <1>4
  <2>4. { j \in DOMAIN t : IsGrant(t[j]) } = GrantReplies(t)
    BY <1>2, <1>3 DEF GrantReplies
  <2>5. Cardinality({ j \in DOMAIN t : IsGrant(t[j]) }) = granted'
    BY <2>2, <2>4
  <2>6. granted' - granted' \in {0, 1}
    BY <2>3
  <2> QED
    BY <2>5, <2>6 DEF GrantsDelivered, t, IsGrant
<1> QED
  BY <1>9, <1>10, <1>11, <1>12 DEF RepliesInv

\* The invariants about replies are kept by every step.
LEMMA RepliesNext ==
    ASSUME RepliesInv, ConnectionType, [Next]_vars
    PROVE  RepliesInv'
<1> USE DEF machine, history, peer
<1>1. CASE Step
  <2>1. replies' = replies /\ Open
    BY <1>1, StepFrames DEF Open
  <2>2. contexts \in Seq(Context) /\ granted \in Nat
    BY DEF ConnectionType, TypeOK
  <2>3. CASE Waits
    <3>1. AllReplies' = AllReplies
      BY <2>1, <2>3 DEF Waits, AllReplies
    <3> QED
      BY <2>1, <2>3, <3>1, RepliesQuiet DEF Waits
  <2>4. CASE Drops
    <3>1. AllReplies' = AllReplies /\ ~Open'
      BY <2>1, <2>4 DEF Drops, AllReplies, Open
    <3> QED
      BY <2>1, <2>4, <3>1, RepliesQuiet DEF Drops
  <2>5. CASE Tells
    <3>1. PICK r \in Answers : Replied(r) /\ ~IsGrant(r) /\ UNCHANGED <<granted, contexts>>
      BY <2>5 DEF Tells
    <3>2. /\ AllReplies' = Append(AllReplies, r)
          /\ taken' = Append(taken, Front) /\ Front \in Pdus /\ r.call = Front.call
      BY <2>1, <3>1, RepliedAppends
    <3>3. granted' = granted + (IF IsGrant(r) THEN 1 ELSE 0)
      BY <2>2, <3>1
    <3> QED
      BY <2>1, <3>1, <3>2, <3>3, RepliesAdd
  <2>6. CASE Acknowledges
    <3>1. PICK r \in Answers, accepted \in Context :
            /\ Replied(r) /\ r.kind \in Acks
            /\ r.context_id = accepted.context_id /\ r.detail = accepted.syntax
            /\ contexts' = AddContext(accepted)
            /\ UNCHANGED granted
      BY <2>6 DEF Acknowledges
    <3>2. /\ AllReplies' = Append(AllReplies, r)
          /\ taken' = Append(taken, Front) /\ Front \in Pdus /\ r.call = Front.call
      BY <2>1, <3>1, RepliedAppends
    <3>3. ~IsGrant(r)
      BY <3>1 DEF IsGrant, Acks
    <3>4. granted' = granted + (IF IsGrant(r) THEN 1 ELSE 0)
      BY <2>2, <3>1, <3>3
    <3> QED
      BY <2>1, <3>1, <3>2, <3>3, <3>4, RepliesAdd
  <2>7. CASE Delivers
    <3>1. PICK r \in Answers :
            /\ Replied(r) /\ IsGrant(r)
            /\ \E i \in DOMAIN contexts :
                  contexts[i].context_id = r.context_id /\ contexts[i].syntax = r.detail
            /\ granted' = granted + 1
            /\ UNCHANGED contexts
      BY <2>7 DEF Delivers
    <3>2. /\ AllReplies' = Append(AllReplies, r)
          /\ taken' = Append(taken, Front) /\ Front \in Pdus /\ r.call = Front.call
      BY <2>1, <3>1, RepliedAppends
    <3>3. \E i \in 1..Len(contexts) :
             contexts[i].context_id = r.context_id /\ contexts[i].syntax = r.detail
      BY <2>2, <3>1
    <3>4. granted' = granted + (IF IsGrant(r) THEN 1 ELSE 0)
      BY <3>1
    <3> QED
      BY <2>1, <3>1, <3>2, <3>3, <3>4, RepliesAdd
  <2> QED
    BY <1>1, <2>3, <2>4, <2>5, <2>6, <2>7, StepKinds
<1>2. CASE Drain
  <2>1. AllReplies' = AllReplies
    <3>1. replies \in Seq(Answers) /\ response \in Seq(Answers)
      BY DEF ConnectionType
    <3>2. (replies \o response) \o <<>> = replies \o response
      BY <3>1
    <3> QED
      BY <1>2, <3>2 DEF Drain, AllReplies
  <2>2. Open' => Open
    BY <1>2 DEF Drain, Open
  <2> QED
    BY <1>2, <2>1, <2>2, RepliesQuiet DEF Drain
<1>3. CASE \E k \in 1..MaxRead : Receive(k)
  <2>1. PICK k \in 1..MaxRead : Receive(k)
    BY <1>3
  <2>2. response' = response
    BY <2>1 DEF Receive, ConnectionType
  <2> QED
    BY <2>1, <2>2, RepliesQuiet DEF Receive, AllReplies, Open
<1>4. CASE (\E p \in client : ClientSend(p)) \/ Disconnect \/ UNCHANGED vars
  <2>1. UNCHANGED <<replies, response, taken, granted, contexts>> /\ (Open' => Open)
    BY <1>4 DEF ClientSend, Disconnect, vars, Open
  <2>2. AllReplies' = AllReplies
    BY <2>1 DEF AllReplies
  <2> QED
    BY <2>1, <2>2, RepliesQuiet
<1> QED
  BY <1>1, <1>2, <1>3, <1>4 DEF Next

\* No event is lost without being counted.
LEMMA EventsNext ==
    ASSUME ConnectionType, EventsAccounted, [Next]_vars
    PROVE  EventsAccounted'
<1> USE DEF machine, history, peer
<1>1. /\ events \in Seq(Events) /\ Len(events) =< EventCap
      /\ lost_events \in Nat /\ recorded \in Nat /\ logged \in Nat /\ EventCap \in Nat
      /\ recorded = logged + Len(events) + lost_events
  BY ConnectionAssumption DEF ConnectionType, TypeOK, EventsAccounted
<1>2. CASE UNCHANGED <<events, lost_events, recorded, logged>>
  BY <1>1, <1>2 DEF EventsAccounted
<1>3. ASSUME NEW es \in Seq(Events), Record(es), logged' = logged
      PROVE  EventsAccounted'
  <2> DEFINE q == PushEvicting(events, es, EventCap)
             all == Len(events) + Len(es)
  <2>1. q \in Seq(Events) /\ Len(q) = all - (IF all =< EventCap THEN 0 ELSE all - EventCap)
    <3>1. events \in Seq(Events) /\ es \in Seq(Events) /\ EventCap \in Nat
      BY <1>1
    <3> QED
      BY ONLY <3>1, PushEvictingFacts
  <2>2. all \in Nat /\ Len(es) \in Nat /\ Len(events) \in Nat /\ all = Len(events) + Len(es)
    BY <1>1
  <2>3. events' = q /\ recorded' = recorded + Len(es)
        /\ lost_events' = IF all =< EventCap THEN lost_events ELSE lost_events + all - EventCap
    BY <1>1, <1>3 DEF Record
  <2> HIDE DEF q, all
  <2>4. recorded' = logged + Len(q) + lost_events'
    <3> DEFINE x == Len(es)
               e == Len(events)
               y == Len(q)
    <3>1. x \in Nat /\ e \in Nat /\ e =< EventCap /\ all = e + x
      BY <1>1, <2>2
    <3>2. y = all - (IF all =< EventCap THEN 0 ELSE all - EventCap)
      BY <2>1
    <3>3. recorded' = recorded + x /\ recorded = logged + e + lost_events
      BY <1>1, <2>3
    <3>4. lost_events' = IF all =< EventCap THEN lost_events ELSE lost_events + all - EventCap
      BY <2>3
    <3>5. EventCap \in Nat /\ lost_events \in Nat /\ logged \in Nat
      BY <1>1
    <3> HIDE DEF x, e, y
    <3>6. recorded' = logged + y + lost_events'
      <4>1. CASE all =< EventCap
        BY ONLY <3>1, <3>2, <3>3, <3>4, <3>5, <4>1
      <4>2. CASE ~(all =< EventCap)
        BY ONLY <3>1, <3>2, <3>3, <3>4, <3>5, <4>2
      <4> QED
        BY <4>1, <4>2
    <3> QED
      BY <3>6 DEF y
  <2> QED
    BY <1>3, <2>3, <2>4 DEF EventsAccounted
<1>4. CASE Step
  BY <1>2, <1>3, <1>4, StepEvents, StepFrames
<1>5. CASE Drain
  BY <1>1, <1>5 DEF Drain, EventsAccounted
<1>6. CASE \/ \E p \in client : ClientSend(p)
           \/ \E k \in 1..MaxRead : Receive(k)
           \/ Disconnect \/ UNCHANGED vars
  BY <1>2, <1>6 DEF ClientSend, Receive, Disconnect, vars
<1> QED
  BY <1>4, <1>5, <1>6 DEF Next

\* The invariant of a connection.
ConnectionInv == ConnectionType /\ FrameInv /\ RepliesInv /\ EventsAccounted

\* It holds before anything was sent.
LEMMA ConnectionInvInit == Init => ConnectionInv
<1> SUFFICES ASSUME Init PROVE ConnectionInv
  OBVIOUS
<1>1. FrameInv
  <2>1. inbound \o wire = <<>>
    BY DEF Init
  <2>2. WholeFrames(inbound \o wire)
    BY <2>1 DEF WholeFrames
  <2> QED
    BY <2>2 DEF Init, FrameInv
<1>2. AllReplies = <<>>
  BY DEF Init, AllReplies
<1>3. AckInv
  BY <1>2 DEF Init, AckInv
<1>4. ServedOnAcknowledged
  BY <1>2 DEF ServedOnAcknowledged
<1>5. EveryPduAnswered
  BY <1>2 DEF Init, EveryPduAnswered
<1>6. GrantsDelivered
  <2>1. { j \in DOMAIN AllReplies : IsGrant(AllReplies[j]) } = {}
    BY <1>2
  <2>2. Cardinality({ j \in DOMAIN AllReplies : IsGrant(AllReplies[j]) }) = 0
    BY <2>1, FS_EmptySet
  <2> QED
    BY <2>2 DEF Init, GrantsDelivered
<1>7. EventsAccounted
  BY DEF Init, EventsAccounted
<1> QED
  BY <1>1, <1>3, <1>4, <1>5, <1>6, <1>7, TypeInit DEF ConnectionInv, RepliesInv

\* ... and every step keeps it.
LEMMA ConnectionInvNext ==
    ASSUME ConnectionInv, [Next]_vars
    PROVE  ConnectionInv'
<1>1. ConnectionType /\ FrameInv /\ RepliesInv /\ EventsAccounted
  BY DEF ConnectionInv
<1>2. ConnectionType'
  BY <1>1, TypeStep, TypeOther DEF Next
<1> QED
  BY <1>1, <1>2, FrameNext, RepliesNext, EventsNext DEF ConnectionInv

\* ConnectionInv is an invariant of a connection.
THEOREM ConnectionInvariant == Spec => []ConnectionInv
BY ConnectionInvInit, ConnectionInvNext, PTL DEF Spec

\* The stream never goes out of frame and no buffer overruns: a step consumes
\* exactly what the PDU's FragLength declares, however the network cut it up.
THEOREM ConnectionInFrame == Spec => []InFrame
<1>1. ConnectionInv => InFrame
  BY DEF ConnectionInv, ConnectionType, FrameInv, InFrame
<1> QED
  BY <1>1, ConnectionInvariant, PTL

\* Every PDU that is not a fragment put aside gets exactly one reply, its own
\* and in order; only the one that closes the connection may go without.
THEOREM ConnectionAnswers == Spec => []EveryPduAnswered
<1>1. ConnectionInv => EveryPduAnswered
  BY DEF ConnectionInv, RepliesInv
<1> QED
  BY <1>1, ConnectionInvariant, PTL

\* A grant is only given on a context, and in a syntax, that an earlier reply
\* acknowledged, through any sequence of binds and alter_contexts.
THEOREM ConnectionServes == Spec => []ServedOnAcknowledged
<1>1. ConnectionInv => ServedOnAcknowledged
  BY DEF ConnectionInv, RepliesInv
<1> QED
  BY <1>1, ConnectionInvariant, PTL

\* Neither a counted grant nor a recorded event disappears without a trace.
THEOREM ConnectionAccounts == Spec => []Accounted
<1>1. ConnectionInv => Accounted
  BY DEF ConnectionInv, RepliesInv, Accounted
<1> QED
  BY <1>1, ConnectionInvariant, PTL
=============================================================================
