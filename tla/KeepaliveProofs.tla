-------------------------- MODULE KeepaliveProofs --------------------------
(***************************************************************************)
(* Proofs about pings and pongs on a server that keeps up with its timers, *)
(* for every value of the constants.                                       *)
(***************************************************************************)
EXTENDS Keepalive, ConnectionProofs, FiniteSetTheorems

-----------------------------------------------------------------------------
(* Sequences *)

\* Sequences are equal if they have the same elements in the same places.
LEMMA SameSeq ==
  ASSUME NEW P, NEW s \in Seq(P), NEW t \in Seq(P),
         Len(s) = Len(t), \A i \in 1 .. Len(s) : s[i] = t[i]
  PROVE  s = t
OBVIOUS

\* The elements of a concatenation, and where they are.
LEMMA ConcatFacts ==
  ASSUME NEW P, NEW s \in Seq(P), NEW t \in Seq(P)
  PROVE  /\ s \o t \in Seq(P)
         /\ Len(s \o t) = Len(s) + Len(t)
         /\ \A i \in 1 .. Len(s) : (s \o t)[i] = s[i]
         /\ \A i \in 1 .. Len(t) : (s \o t)[Len(s) + i] = t[i]
OBVIOUS

\* Appending is concatenating one element, and groups with a concatenation.
LEMMA AppendFacts ==
  ASSUME NEW P, NEW s \in Seq(P), NEW t \in Seq(P), NEW x \in P
  PROVE  /\ Append(s, x) = s \o <<x>>
         /\ Append(s \o t, x) = s \o Append(t, x)
         /\ s \o <<>> = s
<1>1. /\ <<x>> \in Seq(P) /\ Len(<<x>>) = 1 /\ <<x>>[1] = x
      /\ <<>> \in Seq(P) /\ Len(<<>>) = 0
  OBVIOUS
<1>2. Append(s, x) = s \o <<x>>
  BY <1>1, ConcatFacts, SameSeq
<1>3. Append(s \o t, x) = s \o Append(t, x)
  OBVIOUS
<1>4. s \o <<>> = s
  BY <1>1, ConcatFacts, SameSeq
<1> QED
  BY <1>2, <1>3, <1>4

\* Taking the first element of one sequence to the end of the one before it changes
\* nothing in the two together.
LEMMA MoveFirst ==
  ASSUME NEW P, NEW s \in Seq(P), NEW t \in Seq(P), t # <<>>
  PROVE  Append(s, Head(t)) \o Tail(t) = s \o t
OBVIOUS

\* The front of a concatenation is that of its first part, if it has one.
LEMMA TailConcat ==
  ASSUME NEW P, NEW s \in Seq(P), NEW t \in Seq(P), s # <<>>
  PROVE  /\ Tail(s) \o t = Tail(s \o t)
         /\ s \o t # <<>>
         /\ Head(s \o t) = Head(s)
OBVIOUS

\* The payloads of a sequence of pings or items.
LEMMA PayloadsFacts ==
  ASSUME NEW Q, NEW P, \A x \in Q : x.payload \in P, NEW q \in Seq(Q)
  PROVE  /\ PayloadsOf(q) \in Seq(P)
         /\ Len(PayloadsOf(q)) = Len(q)
         /\ \A i \in 1 .. Len(q) : PayloadsOf(q)[i] = q[i].payload
<1>1. DOMAIN q = 1 .. Len(q) /\ Len(q) \in Nat /\ \A i \in 1 .. Len(q) : q[i] \in Q
  OBVIOUS
<1>2. PayloadsOf(q) \in [1 .. Len(q) -> P]
  BY <1>1 DEF PayloadsOf
<1> QED
  BY <1>1, <1>2 DEF PayloadsOf

\* They follow the changes of that sequence.
LEMMA PayloadsSteps ==
  ASSUME NEW Q, NEW P, \A x \in Q : x.payload \in P, NEW q \in Seq(Q), NEW x \in Q
  PROVE  /\ PayloadsOf(Append(q, x)) = Append(PayloadsOf(q), x.payload)
         /\ q # <<>> => PayloadsOf(Tail(q)) = Tail(PayloadsOf(q))
         /\ q # <<>> => Head(PayloadsOf(q)) = Head(q).payload
         /\ q # <<>> => PayloadsOf(q) # <<>>
<1>1. /\ PayloadsOf(q) \in Seq(P)
      /\ Len(PayloadsOf(q)) = Len(q)
      /\ \A i \in 1 .. Len(q) : PayloadsOf(q)[i] = q[i].payload
  BY PayloadsFacts
<1>2. PayloadsOf(Append(q, x)) = Append(PayloadsOf(q), x.payload)
  <2>1. Append(q, x) \in Seq(Q)
    OBVIOUS
  <2>2. /\ PayloadsOf(Append(q, x)) \in Seq(P)
        /\ Len(PayloadsOf(Append(q, x))) = Len(Append(q, x))
        /\ \A i \in 1 .. Len(Append(q, x)) :
             PayloadsOf(Append(q, x))[i] = Append(q, x)[i].payload
    BY <2>1, PayloadsFacts
  <2>3. Append(PayloadsOf(q), x.payload) \in Seq(P)
    BY <1>1
  <2> QED
    BY <1>1, <2>2, <2>3, SameSeq
<1>3. ASSUME q # <<>>
      PROVE  /\ PayloadsOf(Tail(q)) = Tail(PayloadsOf(q))
             /\ Head(PayloadsOf(q)) = Head(q).payload
             /\ PayloadsOf(q) # <<>>
  <2>1. Tail(q) \in Seq(Q) /\ Len(q) > 0
    BY <1>3
  <2>2. /\ PayloadsOf(Tail(q)) \in Seq(P)
        /\ Len(PayloadsOf(Tail(q))) = Len(Tail(q))
        /\ \A i \in 1 .. Len(Tail(q)) : PayloadsOf(Tail(q))[i] = Tail(q)[i].payload
    BY <2>1, PayloadsFacts
  <2>3. PayloadsOf(q) # <<>> /\ Tail(PayloadsOf(q)) \in Seq(P)
    BY <1>1, <2>1
  <2> QED
    BY <1>1, <1>3, <2>1, <2>2, <2>3, SameSeq
<1> QED
  BY <1>2, <1>3

-----------------------------------------------------------------------------
(* Pongs in the order of pings *)

\* "thin" has no pong that "full" has not, and keeps their order.
Thins(thin, full) ==
  \E f \in [DOMAIN thin -> Int] :
    /\ \A i \in DOMAIN thin :
         thin[i] # NoPayload => f[i] \in DOMAIN full /\ full[f[i]] = thin[i]
    /\ \A i, j \in DOMAIN thin :
         i < j /\ thin[i] # NoPayload /\ thin[j] # NoPayload => f[i] < f[j]

\* Fewer pongs, or none in other places, are in the same order.
LEMMA ThinKept ==
  ASSUME NEW P, NEW full \in Seq(P), NEW thin \in Seq(P), NEW pings \in Seq(P),
         Thins(thin, full)
  PROVE  /\ InOrder(full, pings) => InOrder(thin, pings)
         /\ Covered(full, pings) => Covered(thin, pings)
         /\ \A p \in P : p # NoPayload /\ Occurs(p, thin) => Occurs(p, full)
<1>1. PICK f \in [DOMAIN thin -> Int] :
        /\ \A i \in DOMAIN thin :
             thin[i] # NoPayload => f[i] \in DOMAIN full /\ full[f[i]] = thin[i]
        /\ \A i, j \in DOMAIN thin :
             i < j /\ thin[i] # NoPayload /\ thin[j] # NoPayload => f[i] < f[j]
  BY DEF Thins
<1>2. ASSUME InOrder(full, pings) PROVE InOrder(thin, pings)
  BY <1>1, <1>2 DEF InOrder
<1>3. ASSUME Covered(full, pings) PROVE Covered(thin, pings)
  BY <1>1, <1>3 DEF Covered
<1>4. \A p \in P : p # NoPayload /\ Occurs(p, thin) => Occurs(p, full)
  BY <1>1 DEF Occurs
<1> QED
  BY <1>2, <1>3, <1>4

\* An item without payload comes or goes.
LEMMA ThinItem ==
  ASSUME NEW P, NEW s \in Seq(P), NEW t \in Seq(P), NEW u \in Seq(P), NoPayload \in P
  PROVE  /\ t # <<>> /\ Head(t) = NoPayload => Thins(s \o Tail(t) \o u, s \o t \o u)
         /\ Thins(s \o Append(t, NoPayload) \o u, s \o t \o u)
<1> DEFINE full == s \o t \o u
<1>f. /\ full \in Seq(P) /\ DOMAIN full = 1 .. Len(full)
      /\ Len(full) = Len(s) + Len(t) + Len(u)
      /\ Len(s) \in Nat /\ Len(t) \in Nat /\ Len(u) \in Nat
      /\ \A i \in 1 .. Len(s) : full[i] = s[i]
      /\ \A i \in 1 .. Len(t) : full[Len(s) + i] = t[i]
      /\ \A i \in 1 .. Len(u) : full[Len(s) + Len(t) + i] = u[i]
  OBVIOUS
<1>1. ASSUME t # <<>>, Head(t) = NoPayload PROVE Thins(s \o Tail(t) \o u, full)
  <2> DEFINE thin == s \o Tail(t) \o u
             f == [i \in DOMAIN thin |-> IF i <= Len(s) THEN i ELSE i + 1]
  <2>1. /\ Tail(t) \in Seq(P) /\ Len(Tail(t)) = Len(t) - 1 /\ Len(t) > 0
        /\ \A i \in 1 .. Len(t) - 1 : Tail(t)[i] = t[i + 1]
    BY <1>1
  <2>2. /\ thin \in Seq(P) /\ DOMAIN thin = 1 .. Len(thin)
        /\ Len(thin) = Len(s) + Len(Tail(t)) + Len(u)
        /\ \A i \in 1 .. Len(s) : thin[i] = s[i]
        /\ \A i \in 1 .. Len(Tail(t)) : thin[Len(s) + i] = Tail(t)[i]
        /\ \A i \in 1 .. Len(u) : thin[Len(s) + Len(Tail(t)) + i] = u[i]
    BY <2>1
  <2> HIDE DEF thin, full
  <2>3. f \in [DOMAIN thin -> Int]
    BY <1>f, <2>2
  <2>4. ASSUME NEW i \in DOMAIN thin PROVE f[i] \in DOMAIN full /\ full[f[i]] = thin[i]
    <3>1. CASE i <= Len(s)
      BY <1>f, <2>1, <2>2, <3>1
    <3>2. CASE i > Len(s) /\ i <= Len(s) + Len(t) - 1
      <4>1. PICK k \in 1 .. Len(t) - 1 : i = Len(s) + k
        <5>1. i \in Int
          BY <1>f, <2>2
        <5>2. i - Len(s) \in 1 .. Len(t) - 1 /\ i = Len(s) + (i - Len(s))
          BY <1>f, <3>2, <5>1
        <5> QED
          BY <5>2
      <4>2. thin[Len(s) + k] = Tail(t)[k]
        BY <2>1, <2>2, <4>1
      <4>3. full[Len(s) + (k + 1)] = t[k + 1] /\ Tail(t)[k] = t[k + 1]
        BY <1>f, <2>1, <4>1
      <4>4. f[i] = Len(s) + (k + 1)
        BY <1>f, <3>2, <4>1
      <4>5. Len(s) + (k + 1) \in DOMAIN full
        BY <1>f, <4>1
      <4> QED
        BY <4>1, <4>2, <4>3, <4>4, <4>5
    <3>3. CASE i > Len(s) + Len(t) - 1
      <4>1. PICK k \in 1 .. Len(u) : i = Len(s) + Len(Tail(t)) + k
        <5>1. /\ i - (Len(s) + Len(t) - 1) \in 1 .. Len(u)
              /\ i = Len(s) + Len(Tail(t)) + (i - (Len(s) + Len(t) - 1))
          BY <1>f, <2>1, <2>2, <3>3
        <5> QED
          BY <5>1
      <4>2. thin[i] = u[k]
        BY <2>2, <4>1
      <4>3. f[i] = Len(s) + Len(t) + k
        BY <1>f, <2>1, <3>3, <4>1
      <4>4. full[Len(s) + Len(t) + k] = u[k] /\ Len(s) + Len(t) + k \in DOMAIN full
        BY <1>f, <4>1
      <4> QED
        BY <4>2, <4>3, <4>4
    <3> QED
      BY <1>f, <2>2, <3>1, <3>2, <3>3
  <2>5. \A i, j \in DOMAIN thin : i < j => f[i] < f[j]
    BY <1>f, <2>2
  <2> HIDE DEF f
  <2>6. Thins(thin, full)
    BY <2>3, <2>4, <2>5 DEF Thins
  <2> QED
    BY <2>6 DEF thin
<1>2. Thins(s \o Append(t, NoPayload) \o u, full)
  <2> DEFINE thin == s \o Append(t, NoPayload) \o u
             f == [i \in DOMAIN thin |-> IF i <= Len(s) + Len(t) THEN i ELSE i - 1]
  <2>1. /\ Append(t, NoPayload) \in Seq(P) /\ Len(Append(t, NoPayload)) = Len(t) + 1
        /\ \A i \in 1 .. Len(t) : Append(t, NoPayload)[i] = t[i]
        /\ Append(t, NoPayload)[Len(t) + 1] = NoPayload
    OBVIOUS
  <2>2. /\ thin \in Seq(P) /\ DOMAIN thin = 1 .. Len(thin)
        /\ Len(thin) = Len(s) + Len(Append(t, NoPayload)) + Len(u)
        /\ \A i \in 1 .. Len(s) : thin[i] = s[i]
        /\ \A i \in 1 .. Len(Append(t, NoPayload)) :
             thin[Len(s) + i] = Append(t, NoPayload)[i]
        /\ \A i \in 1 .. Len(u) : thin[Len(s) + Len(Append(t, NoPayload)) + i] = u[i]
    BY <2>1
  <2> HIDE DEF thin, full
  <2>n. thin[Len(s) + (Len(t) + 1)] = NoPayload
    <3>1. Len(t) + 1 \in 1 .. Len(Append(t, NoPayload))
      BY <1>f, <2>1
    <3> QED
      BY <2>1, <2>2, <3>1
  <2>3. f \in [DOMAIN thin -> Int]
    BY <1>f, <2>2
  <2>4. ASSUME NEW i \in DOMAIN thin, thin[i] # NoPayload
        PROVE  f[i] \in DOMAIN full /\ full[f[i]] = thin[i]
    <3>1. CASE i <= Len(s)
      BY <1>f, <2>1, <2>2, <3>1
    <3>2. CASE i > Len(s) /\ i <= Len(s) + Len(t)
      <4>1. PICK k \in 1 .. Len(t) : i = Len(s) + k
        <5>1. i - Len(s) \in 1 .. Len(t) /\ i = Len(s) + (i - Len(s))
          BY <1>f, <2>2, <3>2
        <5> QED
          BY <5>1
      <4>2. thin[Len(s) + k] = Append(t, NoPayload)[k] /\ full[Len(s) + k] = t[k]
        BY <1>f, <2>1, <2>2, <4>1
      <4>3. f[i] = i /\ i \in DOMAIN full
        BY <1>f, <2>2, <3>2
      <4> QED
        BY <2>1, <4>1, <4>2, <4>3
    <3>3. CASE i > Len(s) + Len(t) + 1
      <4>1. PICK k \in 1 .. Len(u) : i = Len(s) + Len(Append(t, NoPayload)) + k
        <5>1. /\ i - (Len(s) + Len(t) + 1) \in 1 .. Len(u)
              /\ i = Len(s) + Len(Append(t, NoPayload)) + (i - (Len(s) + Len(t) + 1))
          BY <1>f, <2>1, <2>2, <3>3
        <5> QED
          BY <5>1
      <4>2. thin[i] = u[k]
        BY <2>2, <4>1
      <4>3. f[i] = Len(s) + Len(t) + k
        BY <1>f, <2>1, <3>3, <4>1
      <4>4. full[Len(s) + Len(t) + k] = u[k]
        BY <1>f, <4>1
      <4>5. Len(s) + Len(t) + k \in DOMAIN full
        BY <1>f, <4>1
      <4> QED
        BY <4>2, <4>3, <4>4, <4>5
    <3>4. i # Len(s) + (Len(t) + 1)
      BY <2>4, <2>n
    <3>5. i \in Int
      BY <1>f, <2>2
    <3> QED
      BY <1>f, <3>1, <3>2, <3>3, <3>4, <3>5
  <2>5. ASSUME NEW i \in DOMAIN thin, NEW j \in DOMAIN thin, i < j,
               thin[i] # NoPayload, thin[j] # NoPayload
        PROVE  f[i] < f[j]
    <3>1. i # Len(s) + (Len(t) + 1) /\ j # Len(s) + (Len(t) + 1)
      BY <2>5, <2>n
    <3>2. i \in Int /\ j \in Int
      BY <1>f, <2>2
    <3>3. /\ f[i] = IF i <= Len(s) + Len(t) THEN i ELSE i - 1
          /\ f[j] = IF j <= Len(s) + Len(t) THEN j ELSE j - 1
      OBVIOUS
    <3> HIDE DEF f
    <3> QED
      BY <1>f, <2>5, <3>1, <3>2, <3>3
  <2> HIDE DEF f
  <2>6. Thins(thin, full)
    BY <2>3, <2>4, <2>5 DEF Thins
  <2> QED
    BY <2>6 DEF thin
<1> QED
  BY <1>1, <1>2

\* A new ping goes behind the others; its pong, if there is one, behind the other pongs.
LEMMA NewPingKept ==
  ASSUME NEW P, NEW pongs \in Seq(P), NEW pings \in Seq(P), NEW p \in P, p # NoPayload,
         Distinct(pings), InOrder(pongs, pings),
         ~Occurs(p, pongs), ~Occurs(p, pings)
  PROVE  /\ Distinct(Append(pings, p))
         /\ InOrder(pongs, Append(pings, p))
         /\ Covered(pongs, pings) =>
              /\ Covered(pongs, Append(pings, p))
              /\ InOrder(Append(pongs, p), Append(pings, p))
              /\ Covered(Append(pongs, p), Append(pings, p))
<1> DEFINE more == Append(pings, p)
           full == Append(pongs, p)
<1>1. /\ DOMAIN pings = 1 .. Len(pings) /\ Len(pings) \in Nat
      /\ DOMAIN more = 1 .. Len(pings) + 1
      /\ \A i \in DOMAIN pings : more[i] = pings[i]
      /\ more[Len(pings) + 1] = p
  OBVIOUS
<1>2. /\ DOMAIN pongs = 1 .. Len(pongs) /\ Len(pongs) \in Nat
      /\ DOMAIN full = 1 .. Len(pongs) + 1
      /\ \A i \in DOMAIN pongs : full[i] = pongs[i]
      /\ full[Len(pongs) + 1] = p
  OBVIOUS
<1> HIDE DEF more, full
<1>3. Distinct(more)
  BY <1>1 DEF Distinct, Occurs
<1>4. InOrder(pongs, more)
  <2> SUFFICES ASSUME NEW i \in DOMAIN pongs, NEW j \in DOMAIN pongs, NEW n \in DOMAIN more,
                      i < j, pongs[i] # NoPayload, pongs[j] # NoPayload, pongs[j] = more[n]
               PROVE  \E m \in DOMAIN more : m < n /\ pongs[i] = more[m]
    BY DEF InOrder
  <2>1. n \in DOMAIN pings /\ pongs[j] = pings[n]
    BY <1>1 DEF Occurs
  <2>2. PICK m \in DOMAIN pings : m < n /\ pongs[i] = pings[m]
    BY <2>1 DEF InOrder
  <2> QED
    BY <1>1, <2>2
<1>5. ASSUME Covered(pongs, pings)
      PROVE  Covered(pongs, more) /\ InOrder(full, more) /\ Covered(full, more)
  <2>1. Covered(pongs, more)
    BY <1>1, <1>5 DEF Covered
  <2>2. Covered(full, more)
    BY <1>1, <1>2, <2>1 DEF Covered
  <2>3. ASSUME NEW i \in DOMAIN full, NEW j \in DOMAIN full, NEW n \in DOMAIN more,
               i < j, full[i] # NoPayload, full[j] # NoPayload, full[j] = more[n]
        PROVE  \E m \in DOMAIN more : m < n /\ full[i] = more[m]
    <3>1. i \in DOMAIN pongs /\ full[i] = pongs[i]
      BY <1>2, <2>3
    <3>2. CASE j \in DOMAIN pongs
      <4>1. full[j] = pongs[j]
        BY <1>2, <3>2
      <4> QED
        BY <1>4, <2>3, <3>1, <3>2, <4>1 DEF InOrder
    <3>3. CASE j \notin DOMAIN pongs
      <4>1. full[j] = p
        BY <1>2, <3>3
      <4>2. n \notin DOMAIN pings
        BY <1>1, <2>3, <4>1 DEF Occurs
      <4>3. PICK m \in DOMAIN pings : pongs[i] = pings[m]
        BY <1>5, <2>3, <3>1 DEF Covered
      <4>4. n = Len(pings) + 1 /\ m < n
        BY <1>1, <4>2, <4>3
      <4> QED
        BY <1>1, <3>1, <4>3, <4>4
    <3> QED
      BY <3>2, <3>3
  <2> QED
    BY <2>1, <2>2, <2>3 DEF InOrder
<1> QED
  BY <1>3, <1>4, <1>5 DEF more, full

\* Forgetting the last ping puts no pong out of order.
LEMMA LastPingForgotten ==
  ASSUME NEW P, NEW pongs \in Seq(P), NEW pings \in Seq(P), NEW p \in P,
         Distinct(Append(pings, p)), InOrder(pongs, Append(pings, p))
  PROVE  Distinct(pings) /\ InOrder(pongs, pings)
<1> DEFINE more == Append(pings, p)
<1>1. /\ DOMAIN pings = 1 .. Len(pings) /\ Len(pings) \in Nat
      /\ DOMAIN more = 1 .. Len(pings) + 1
      /\ \A i \in DOMAIN pings : more[i] = pings[i]
  OBVIOUS
<1>2. Distinct(more) /\ InOrder(pongs, more)
  OBVIOUS
<1> HIDE DEF more
<1>3. Distinct(pings)
  BY <1>1, <1>2 DEF Distinct
<1>4. ASSUME NEW i \in DOMAIN pongs, NEW j \in DOMAIN pongs, NEW n \in DOMAIN pings,
             i < j, pongs[i] # NoPayload, pongs[j] # NoPayload, pongs[j] = pings[n]
      PROVE  \E m \in DOMAIN pings : m < n /\ pongs[i] = pings[m]
  <2>1. n \in DOMAIN more /\ pongs[j] = more[n]
    BY <1>1, <1>4
  <2>2. PICK m \in DOMAIN more : m < n /\ pongs[i] = more[m]
    BY <1>2, <1>4, <2>1 DEF InOrder
  <2>3. m \in DOMAIN pings
    BY <1>1, <2>2
  <2> QED
    BY <1>1, <2>2, <2>3
<1> QED
  BY <1>3, <1>4 DEF InOrder

\* Taking the front ping with its pong leaves the others as they were.
LEMMA FrontAnsweredKept ==
  ASSUME NEW P, NEW pongs \in Seq(P), NEW pings \in Seq(P),
         pongs # <<>>, pings # <<>>, Head(pongs) = Head(pings), Head(pings) # NoPayload,
         Distinct(pings), InOrder(pongs, pings)
  PROVE  /\ Distinct(Tail(pings))
         /\ InOrder(Tail(pongs), Tail(pings))
         /\ Covered(pongs, pings) => Covered(Tail(pongs), Tail(pings))
<1> DEFINE less == Tail(pings)
           rest == Tail(pongs)
<1>1. /\ DOMAIN pings = 1 .. Len(pings) /\ Len(pings) \in Nat /\ Len(pings) > 0
      /\ DOMAIN less = 1 .. Len(pings) - 1
      /\ \A i \in DOMAIN less : less[i] = pings[i + 1]
  OBVIOUS
<1>2. /\ DOMAIN pongs = 1 .. Len(pongs) /\ Len(pongs) \in Nat /\ Len(pongs) > 0
      /\ DOMAIN rest = 1 .. Len(pongs) - 1
      /\ \A i \in DOMAIN rest : rest[i] = pongs[i + 1]
  OBVIOUS
<1>3. pongs[1] = pings[1] /\ pings[1] # NoPayload
  OBVIOUS
<1> HIDE DEF less, rest
<1>4. Distinct(less)
  <2>1. ASSUME NEW m \in DOMAIN less, NEW n \in DOMAIN less, less[m] = less[n]
        PROVE  m = n
    <3>1. m + 1 \in DOMAIN pings /\ n + 1 \in DOMAIN pings /\ pings[m + 1] = pings[n + 1]
      BY <1>1, <2>1
    <3>2. m + 1 = n + 1
      BY <3>1 DEF Distinct
    <3> QED
      BY <1>1, <3>2
  <2> QED
    BY <2>1 DEF Distinct
<1>5. ASSUME NEW j \in DOMAIN rest
      PROVE  j + 1 \in DOMAIN pongs /\ rest[j] = pongs[j + 1] /\ j + 1 > 1
  BY <1>2
<1>6. ASSUME NEW m \in DOMAIN pings, m # 1
      PROVE  m - 1 \in DOMAIN less /\ less[m - 1] = pings[m]
  <2>1. m - 1 \in DOMAIN less /\ (m - 1) + 1 = m
    BY <1>1, <1>6
  <2> QED
    BY <1>1, <2>1
\* A second pong of the front ping would need one of a ping before the front.
<1>7. ASSUME NEW j \in DOMAIN rest, rest[j] # NoPayload PROVE rest[j] # pings[1]
  <2>1. ASSUME rest[j] = pings[1] PROVE FALSE
    <3>1. /\ 1 \in DOMAIN pongs /\ 1 \in DOMAIN pings
          /\ j + 1 \in DOMAIN pongs /\ pongs[j + 1] = pings[1] /\ 1 < j + 1
      BY <1>1, <1>2, <1>5, <2>1
    <3>2. \E m \in DOMAIN pings : m < 1 /\ pongs[1] = pings[m]
      BY <1>3, <3>1 DEF InOrder
    <3> QED
      BY <1>1, <3>2
  <2> QED
    BY <2>1
<1>8. InOrder(rest, less)
  <2> SUFFICES ASSUME NEW i \in DOMAIN rest, NEW j \in DOMAIN rest, NEW n \in DOMAIN less,
                      i < j, rest[i] # NoPayload, rest[j] # NoPayload, rest[j] = less[n]
               PROVE  \E m \in DOMAIN less : m < n /\ rest[i] = less[m]
    BY DEF InOrder
  <2>1. /\ i + 1 \in DOMAIN pongs /\ j + 1 \in DOMAIN pongs /\ i + 1 < j + 1
        /\ n + 1 \in DOMAIN pings
        /\ rest[i] = pongs[i + 1] /\ rest[j] = pongs[j + 1] /\ less[n] = pings[n + 1]
    BY <1>1, <1>2
  <2>2. PICK m \in DOMAIN pings : m < n + 1 /\ pongs[i + 1] = pings[m]
    BY <2>1 DEF InOrder
  <2>3. m # 1
    BY <1>7, <2>1, <2>2
  <2>4. m - 1 \in DOMAIN less /\ less[m - 1] = pings[m] /\ m - 1 < n
    BY <1>1, <1>6, <2>2, <2>3
  <2> QED
    BY <2>1, <2>2, <2>4
<1>9. ASSUME Covered(pongs, pings) PROVE Covered(rest, less)
  <2> SUFFICES ASSUME NEW i \in DOMAIN rest, rest[i] # NoPayload
               PROVE  \E m \in DOMAIN less : rest[i] = less[m]
    BY DEF Covered
  <2>1. PICK m \in DOMAIN pings : pongs[i + 1] = pings[m]
    BY <1>5, <1>9 DEF Covered
  <2>2. m # 1
    BY <1>5, <1>7, <2>1
  <2> QED
    BY <1>5, <1>6, <2>1, <2>2
<1> QED
  BY <1>4, <1>8, <1>9 DEF less, rest

\* What is told apart, in order and covered is matched, as the property says.
LEMMA MatchedPairs ==
  ASSUME NEW P, NEW pongs \in Seq(P), NEW pings \in Seq(P),
         Distinct(pings), InOrder(pongs, pings), Covered(pongs, pings),
         NEW i \in DOMAIN pongs, NEW j \in DOMAIN pongs,
         i <= j, pongs[i] # NoPayload, pongs[j] # NoPayload
  PROVE  \E m, n \in DOMAIN pings :
           /\ m <= n /\ (m = n <=> i = j)
           /\ pongs[i] = pings[m] /\ pongs[j] = pings[n]
<1>1. /\ DOMAIN pings = 1 .. Len(pings) /\ Len(pings) \in Nat
      /\ DOMAIN pongs = 1 .. Len(pongs) /\ Len(pongs) \in Nat
  OBVIOUS
<1>2. PICK n \in DOMAIN pings : pongs[j] = pings[n]
  BY DEF Covered
<1>3. CASE i = j
  BY <1>1, <1>2, <1>3
<1>4. CASE i < j
  <2>1. PICK m \in DOMAIN pings : m < n /\ pongs[i] = pings[m]
    BY <1>2, <1>4 DEF InOrder
  <2> QED
    BY <1>1, <1>2, <1>4, <2>1
<1> QED
  BY <1>1, <1>3, <1>4

-----------------------------------------------------------------------------
(* The steps of a server that keeps up *)

\* It takes no step that Connection does not take.
LEMMA TimelyIsNext == [TimelyNext]_keepaliveVars => [Next]_vars
<1>1. OtherStep => Next
  BY DEF OtherStep, Next, Outside
<1>2. TimelyPong => Next
  BY DEF TimelyPong, Next, Outside
<1>3. TimelyTick => Next
  BY DEF TimelyTick, Next
<1> QED
  BY <1>1, <1>2, <1>3 DEF TimelyNext, keepaliveVars

LEMMA TimelyImplements == TimelySpec => Spec
<1>1. KeepaliveInit => Init
  BY DEF KeepaliveInit
<1> QED
  BY <1>1, TimelyIsNext, PTL DEF TimelySpec, Spec

\* A step that has nothing to do with pings and pongs.
Quiet ==
  /\ UNCHANGED <<handleStatus, ping_queue, pong_payload_queue, pingTaskVars, inbox, unanswered>>
  /\ pc'["ping"] = pc["ping"]

\* The steps of OtherStep after which the connection still runs.
LiveStep ==
  \/ PongAccepted \/ RegisterPing \/ Ignore \/ ReadPong
  \/ PingStep \/ \E c \in Closers : CloserNotify(c)
  \/ PeerSend \/ Quiet

\* An ended connection does not start again.
LEMMA LiveSteps ==
  ASSUME TypeOK, [TimelyNext]_keepaliveVars, Running'
  PROVE  Running /\ (TimelyTick \/ TimelyPong \/ (silence' = silence /\ LiveStep))
<1>t. pc \in [Actors -> States]
  BY DEF TypeOK
<1>a. ASSUME NEW a \in Actors, NEW state \in States, Goto(a, state)
      PROVE  \A b \in Actors \ {a} : pc'[b] = pc[b]
  BY <1>a, <1>t, GotoFacts
<1>e. ASSUME NEW result \in {"ok", "error"}, End(result) PROVE FALSE
  <2>1. pc'["conn"] = result
    BY <1>e, <1>t, GotoFacts DEF End, Actors, States
  <2> QED
    BY <2>1 DEF Running
<1>1. CASE TimelyTick
  BY <1>1 DEF TimelyTick, Tick, Running
<1>2. CASE TimelyPong
  BY <1>2 DEF TimelyPong, PeerPong, Arrives
<1>3. CASE OtherStep
  <2>1. silence' = silence
    BY <1>3 DEF OtherStep
  <2>2. CASE ConnStep \/ ConnCancelled
    <3>1. \A kind \in Endings : ResultOf[kind] \in {"ok", "error"}
      BY DEF Endings, ResultOf
    <3>2. PongAccepted \/ RegisterPing \/ Ignore \/ ReadPong
      BY <2>2, <1>e, <3>1
      DEF ConnStep, PongMissed, ClosedByHandle, ReadEnding, ReadNothing, ConnCancelled
    <3>3. Running
      BY <3>2 DEF PongAccepted, RegisterPing, HandleChanged, Ignore, ReadPong, Received, LoopTurn
    <3> QED
      BY <2>1, <3>2, <3>3 DEF LiveStep
  <2>3. CASE SharedStatus \/ SharedGone
    <3>1. pc'["conn"] = pc["conn"] /\ pc'["ping"] = pc["ping"]
      BY <2>3, <1>a DEF SharedStatus, SharedGone, Answer, Leave, Actors, States, Closing
    <3> QED
      BY <2>1, <2>3, <3>1 DEF SharedStatus, SharedGone, Running, LiveStep, Quiet
  <2>4. ASSUME NEW c \in Closers, CloserStep(c)
        PROVE  Running /\ LiveStep
    <3>1. pc'["conn"] = pc["conn"] /\ pc'["ping"] = pc["ping"]
      BY <2>4, <1>a DEF CloserStep, CloserStore, CloserClose, CloserFlushed, CloserNotify,
                        CloseSink, Finish, Closers, Actors, States, Closing
    <3> QED
      BY <2>4, <3>1 DEF CloserStep, CloserStore, CloserClose, CloserFlushed, Running,
                        LiveStep, Quiet
  <2>5. CASE PingStep
    <3>1. ASSUME NEW state \in {"locking", "sending", "sent", "idle", "done"},
                 Goto("ping", state)
          PROVE  pc'["conn"] = pc["conn"]
      BY <3>1, <1>a DEF Actors, States
    <3>2. pc'["conn"] = pc["conn"]
      BY <2>5, <3>1 DEF PingStep, PingTick, PingLocked, PingFlushed, PingNotify, SendPing,
                        PingFails, PingSucceeds
    <3> QED
      BY <2>1, <2>5, <3>2 DEF Running, LiveStep
  <2>6. CASE OwnerWait \/ OwnerSend \/ OwnerDrop
    <3>1. \E state \in States : Goto("owner", state)
      BY <2>6 DEF OwnerWait, OwnerSend, OwnerLocked, OwnerFlushed, OwnerDrop, States, Closing
    <3>2. pc'["conn"] = pc["conn"] /\ pc'["ping"] = pc["ping"]
      BY <3>1, <1>a DEF Actors
    <3> QED
      BY <2>1, <2>6, <3>2 DEF OwnerWait, OwnerSend, OwnerLocked, OwnerFlushed, OwnerDrop,
                              OwnerUnchanged, Running, LiveStep, Quiet
  <2>7. CASE PeerSend
    BY <2>1, <2>7 DEF PeerSend, Arrives, LiveStep
  <2>8. CASE WireBreaks \/ Cancel \/ ReceiverDrop
    BY <2>1, <2>8 DEF WireBreaks, Cancel, ReceiverDrop, Running, LiveStep, Quiet
  <2>9. CASE Finished
    BY <2>9 DEF Finished, vars, Running
  <2> QED
    BY <1>3, <2>1, <2>2, <2>3, <2>4, <2>5, <2>6, <2>7, <2>8, <2>9
    DEF OtherStep, ServerStep, SharedStep, Closers
<1>4. CASE UNCHANGED keepaliveVars
  BY <1>4 DEF keepaliveVars, vars, Running, LiveStep, Quiet, pingTaskVars
<1> QED
  BY <1>1, <1>2, <1>3, <1>4 DEF TimelyNext

\* The loop goes on, or it ends and takes its queues with it.
LEMMA EndsOrStays ==
  ASSUME TypeOK, [Next]_vars
  PROVE  \/ \E result \in {"ok", "error"} : End(result)
         \/ /\ pc'["conn"] = pc["conn"]
            /\ Running \/ UNCHANGED <<pong_payload_queue, inbox>>
<1>t. pc \in [Actors -> States]
  BY DEF TypeOK
<1>a. ASSUME NEW a \in Actors \ {"conn"}, NEW state \in States, Goto(a, state)
      PROVE  pc'["conn"] = pc["conn"]
  BY <1>a, <1>t, GotoFacts DEF Actors
<1>1. CASE ConnStep \/ ConnCancelled
  <2>1. \A kind \in Endings : ResultOf[kind] \in {"ok", "error"}
    BY DEF Endings, ResultOf
  <2> QED
    BY <1>1, <2>1
    DEF ConnStep, PongAccepted, PongMissed, RegisterPing, HandleChanged, ClosedByHandle,
        Ignore, ReadPong, ReadEnding, ReadNothing, ConnCancelled, Received, LoopTurn
<1>2. CASE SharedStatus \/ SharedGone
  BY <1>2, <1>a DEF SharedStatus, SharedGone, Answer, Leave, Actors, States, Closing
<1>3. CASE \E c \in Closers : CloserStep(c)
  BY <1>3, <1>a DEF CloserStep, CloserStore, CloserClose, CloserFlushed, CloserNotify,
                    CloseSink, Finish, Closers, Actors, States, Closing
<1>4. CASE PingStep
  <2>1. ASSUME NEW state \in {"locking", "sending", "sent", "idle", "done"},
               Goto("ping", state)
        PROVE  pc'["conn"] = pc["conn"]
    BY <2>1, <1>a DEF Actors, States
  <2> QED
    BY <1>4, <2>1 DEF PingStep, PingTick, PingLocked, PingFlushed, PingNotify, SendPing,
                      PingFails, PingSucceeds
<1>5. CASE OwnerWait \/ OwnerSend \/ OwnerDrop
  <2>1. \E state \in States : Goto("owner", state)
    BY <1>5 DEF OwnerWait, OwnerSend, OwnerLocked, OwnerFlushed, OwnerDrop, States, Closing
  <2> QED
    BY <1>5, <1>a, <2>1
    DEF OwnerWait, OwnerSend, OwnerLocked, OwnerFlushed, OwnerDrop, OwnerUnchanged, Actors
<1>6. CASE PeerPong \/ PeerSend \/ WireBreaks \/ Cancel \/ ReceiverDrop
  BY <1>6 DEF PeerPong, PeerSend, Arrives, WireBreaks, Cancel, ReceiverDrop
<1>7. CASE Tick \/ Finished \/ UNCHANGED vars
  BY <1>7 DEF Tick, Finished, vars
<1> QED
  BY <1>1, <1>2, <1>3, <1>4, <1>5, <1>6, <1>7
  DEF Next, ServerStep, SharedStep, Outside, Closers

LEMMA EndedEmptyNext == TypeOK /\ EndedEmpty /\ [Next]_vars => EndedEmpty'
<1> SUFFICES ASSUME TypeOK, EndedEmpty, [Next]_vars, ~Running'
             PROVE  pong_payload_queue' = <<>> /\ inbox' = <<>>
  BY DEF EndedEmpty
<1>1. CASE \E result \in {"ok", "error"} : End(result)
  BY <1>1 DEF End
<1>2. CASE /\ pc'["conn"] = pc["conn"]
           /\ Running \/ UNCHANGED <<pong_payload_queue, inbox>>
  BY <1>2 DEF Running, EndedEmpty
<1> QED
  BY <1>1, <1>2, EndsOrStays

\* A closer stores the flag before it asks for the lock, and nobody takes it back.
LEMMA FlagStoredNext == TypeOK /\ FlagStored /\ [Next]_vars => FlagStored'
<1> SUFFICES ASSUME TypeOK, FlagStored, [Next]_vars PROVE FlagStored'
  OBVIOUS
<1>t. pc \in [Actors -> States]
  BY DEF TypeOK
<1> DEFINE Past == {"blocked", "flushing", "closed"}
<1>a. ASSUME NEW a \in Actors, NEW state \in States, Goto(a, state), state \notin Past,
             has_sent_close_frame' = has_sent_close_frame
      PROVE  FlagStored'
  <2>1. \A c \in Closers : pc'[c] \in Past => pc[c] \in Past
    BY <1>a, <1>t, GotoFacts DEF Closers, Actors
  <2> QED
    BY <1>a, <2>1 DEF FlagStored
<1>b. ASSUME UNCHANGED <<pc, has_sent_close_frame>> PROVE FlagStored'
  BY <1>b DEF FlagStored
<1>1. CASE ConnStep \/ ConnCancelled
  <2>1. ASSUME NEW result \in {"ok", "error"}, End(result),
               has_sent_close_frame' = has_sent_close_frame
        PROVE  FlagStored'
    BY <2>1, <1>a DEF End, Actors, States
  <2>2. \A kind \in Endings : ResultOf[kind] \in {"ok", "error"}
    BY DEF Endings, ResultOf
  <2> QED
    BY <1>1, <1>b, <2>1, <2>2
    DEF ConnStep, PongAccepted, PongMissed, RegisterPing, ClosedByHandle, Ignore, ReadPong,
        ReadEnding, ReadNothing, ConnCancelled, sinkVars
<1>2. CASE SharedStatus \/ SharedGone
  BY <1>2, <1>a DEF SharedStatus, SharedGone, Answer, Leave, Actors, States, Closing, sinkVars
<1>3. ASSUME NEW c \in Closers, CloserStep(c) PROVE FlagStored'
  <2>1. CASE CloserStore(c)
    BY <2>1 DEF CloserStore, FlagStored
  <2>2. CASE CloserNotify(c)
    BY <2>2, <1>3, <1>a DEF CloserNotify, Finish, Closers, Actors, States, sinkVars
  <2>3. ASSUME NEW state \in Past, Goto(c, state), pc[c] \in Past,
               has_sent_close_frame' = has_sent_close_frame
        PROVE  FlagStored'
    <3>1. \A d \in Closers : pc'[d] \in Past => pc[d] \in Past
      BY <2>3, <1>t, <1>3, GotoFacts DEF Closers, Actors, States, Closing
    <3> QED
      BY <2>3, <3>1 DEF FlagStored
  <2>4. CASE CloserClose(c) \/ CloserFlushed(c)
    BY <2>3, <2>4 DEF CloserClose, CloserFlushed, CloseSink
  <2> QED
    BY <1>3, <2>1, <2>2, <2>4 DEF CloserStep
<1>4. CASE PingStep
  <2>1. ASSUME NEW state \in {"locking", "sending", "sent", "idle", "done"},
               Goto("ping", state), has_sent_close_frame' = has_sent_close_frame
        PROVE  FlagStored'
    BY <2>1, <1>a DEF Actors, States
  <2> QED
    BY <1>4, <2>1 DEF PingStep, PingTick, PingLocked, PingFlushed, PingNotify, SendPing,
                      PingFails, PingSucceeds, sinkVars
<1>5. CASE OwnerWait \/ OwnerSend \/ OwnerDrop
  <2>1. \E state \in {"locking", "sending", "idle", "checked", "dropped"} : Goto("owner", state)
    BY <1>5 DEF OwnerWait, OwnerSend, OwnerLocked, OwnerFlushed, OwnerDrop
  <2> QED
    BY <1>5, <1>a, <2>1
    DEF OwnerWait, OwnerSend, OwnerLocked, OwnerFlushed, OwnerDrop, OwnerUnchanged, Actors,
        States, Closing
<1>6. CASE PeerPong \/ PeerSend \/ WireBreaks \/ Cancel \/ ReceiverDrop
  BY <1>6, <1>b DEF PeerPong, PeerSend, WireBreaks, Cancel, ReceiverDrop, sinkVars
<1>7. CASE Tick \/ Finished \/ UNCHANGED vars
  BY <1>7, <1>b DEF Tick, Finished, vars, sinkVars
<1> QED
  BY <1>1, <1>2, <1>3, <1>4, <1>5, <1>6, <1>7
  DEF Next, ServerStep, SharedStep, Outside, Closers

\* A tick finds no other ping on its way, and no other step sends one.
LEMMA OneOnItsWayNext ==
  TypeOK /\ TypeOK' /\ LockDiscipline /\ OneOnItsWay /\ [TimelyNext]_keepaliveVars => OneOnItsWay'
<1> SUFFICES ASSUME TypeOK, TypeOK', LockDiscipline, OneOnItsWay,
                    [TimelyNext]_keepaliveVars, Running'
             PROVE  OnTheirWay' <= 1
  BY DEF OneOnItsWay
<1>1. Running /\ OnTheirWay <= 1
  BY LiveSteps DEF OneOnItsWay
<1>2. OnTheirWay \in Int /\ OnTheirWay' \in Int
  BY DEF OnTheirWay
<1>3. CASE TimelyTick
  <2>1. InFlight' = InFlight /\ Told' = Told
    BY <1>3 DEF TimelyTick, Tick, InFlight, Told
  <2>2. interval' = interval \/ interval'.due = interval.due \/ interval.left = 1
    BY <1>3, TickInterval DEF TimelyTick
  <2>3. interval.left = 1 => OnTheirWay = 0
    BY <1>1, <1>3 DEF TimelyTick
  <2> QED
    BY <1>1, <2>1, <2>2, <2>3 DEF OnTheirWay
<1>4. CASE OtherStep \/ TimelyPong
  <2>1. OnTheirWay' <= OnTheirWay
    BY <1>2, <1>4, PingStepPaced, RegisterPaced, OthersPaced
    DEF OtherStep, TimelyPong, ServerStep, Outside
  <2> QED
    BY <1>1, <1>2, <2>1
<1>5. CASE UNCHANGED keepaliveVars
  BY <1>1, <1>5 DEF OnTheirWay, InFlight, Told, keepaliveVars, vars
<1> QED
  BY <1>3, <1>4, <1>5 DEF TimelyNext

LEMMA KeepaliveInvariance == TimelySpec => []KeepaliveInv
<1>1. KeepaliveInit => OneOnItsWay /\ EndedEmpty /\ FlagStored
  <2> SUFFICES ASSUME Init PROVE OneOnItsWay /\ EndedEmpty /\ FlagStored
    BY DEF KeepaliveInit
  <2>1. /\ pc["conn"] = "running" /\ pc["ping"] = "idle"
        /\ pc["shared"] = "watching" /\ pc["owner"] = "idle"
        /\ ~handleStatus.unseen
    BY DEF Init, Actors, InitSharedState, Channel
  <2> QED
    BY <2>1 DEF OneOnItsWay, OnTheirWay, Told, InFlight, EndedEmpty, FlagStored, Running, Closers
<1>2. IInv /\ OneOnItsWay /\ [TimelyNext]_keepaliveVars => OneOnItsWay'
  BY IInvNext, TimelyIsNext, OneOnItsWayNext DEF IInv
<1>3. IInv /\ EndedEmpty /\ [TimelyNext]_keepaliveVars => EndedEmpty'
  BY TimelyIsNext, EndedEmptyNext DEF IInv
<1>4. IInv /\ FlagStored /\ [TimelyNext]_keepaliveVars => FlagStored'
  BY TimelyIsNext, FlagStoredNext DEF IInv
<1> QED
  BY <1>1, <1>2, <1>3, <1>4, TimelyImplements, Invariance, PTL DEF TimelySpec, KeepaliveInv

\* A ping that was sent is awaited, since its notification is read before another.
LEMMA NoneForgotten ==
  ASSUME KeepaliveInv, [TimelyNext]_keepaliveVars, Told, handleStatus'.unseen
  PROVE  handleStatus' = handleStatus \/ handleStatus'.value.type # "SendPing"
<1>t. TypeOK /\ pc \in [Actors -> States] /\ LockDiscipline
  BY DEF KeepaliveInv, IInv, TypeOK
<1>1. Running' => ~InFlight /\ ~interval.due
  <2>1. Running' => Running
    BY <1>t, LiveSteps
  <2> QED
    BY <2>1 DEF KeepaliveInv, OneOnItsWay, OnTheirWay
<1>2. CASE PingNotify
  <2>1. pc'["conn"] = pc["conn"]
    BY <1>2, <1>t, GotoFacts DEF PingNotify, Actors, States
  <2> QED
    BY <1>1, <1>2, <2>1 DEF PingNotify, NotifyConnection, InFlight, Running
<1>3. ASSUME NEW type \in Terminations, NotifyConnection(type, NoPayload)
      PROVE  handleStatus' = handleStatus \/ handleStatus'.value.type # "SendPing"
  <2>1. HandleStatus(type, NoPayload) \in HandleStatusSet /\ type # "SendPing"
    BY DEF HandleStatus, HandleStatusSet, Terminations
  <2>2. Running => handleStatus'.value = HandleStatus(type, NoPayload)
    BY <1>3, <1>t, <2>1, SendFacts DEF NotifyConnection, TypeOK
  <2> QED
    BY <1>3, <2>1, <2>2 DEF NotifyConnection, HandleStatus
<1>4. CASE PingTick \/ PingLocked \/ PingFlushed
  <2>1. PingFails \/ handleStatus' = handleStatus
    BY <1>4 DEF PingTick, PingLocked, PingFlushed, SendPing, PingSucceeds
  <2> QED
    BY <1>3, <2>1 DEF PingFails, Terminations
<1>5. CASE \E c \in Closers : CloserStep(c)
  BY <1>3, <1>5 DEF CloserStep, CloserStore, CloserClose, CloserFlushed, CloserNotify,
                    Terminations
<1>6. CASE ConnStep \/ ConnCancelled
  BY <1>6, <1>t, ReadFacts
  DEF ConnStep, PongAccepted, PongMissed, RegisterPing, ClosedByHandle, Ignore, ReadPong,
      ReadEnding, ReadNothing, ConnCancelled, TypeOK
<1>7. CASE SharedStatus \/ SharedGone \/ OwnerWait \/ Outside \/ Tick \/ Finished
           \/ UNCHANGED vars
  BY <1>7 DEF SharedStatus, SharedGone, OwnerWait, Outside, OwnerSend, OwnerLocked,
              OwnerFlushed, OwnerDrop, OwnerUnchanged, PeerPong, PeerSend, WireBreaks, Cancel,
              ReceiverDrop, Tick, Finished, vars
<1> QED
  BY <1>2, <1>3, <1>4, <1>5, <1>6, <1>7, TimelyIsNext
  DEF Next, ServerStep, SharedStep, PingStep, Closers

\* On a server that keeps up with its timers, the connection reads of every ping that
\* was sent: the watch channel of HandleHalf::notify never drops one for the next.
THEOREM NoPingIsForgotten == TimelySpec => NoPingForgotten
<1>1. KeepaliveInv /\ [TimelyNext]_keepaliveVars
        => [Told => \/ ~handleStatus'.unseen
                    \/ handleStatus' = handleStatus
                    \/ handleStatus'.value.type # "SendPing"]_vars
  BY NoneForgotten
<1> QED
  BY <1>1, KeepaliveInvariance, PTL DEF TimelySpec, NoPingForgotten

-----------------------------------------------------------------------------
(* Pings and their pongs, step by step *)

AnyPayload == Payloads \cup {Bogus, NoPayload}

\* The payloads on the way of pings and pongs.
LEMMA PayloadTypes ==
  TypeOK =>
    /\ ping_queue \in Seq(PingContexts) /\ inbox \in Seq(Items)
    /\ \A x \in PingContexts \cup Items : x.payload \in AnyPayload
    /\ PayloadsOf(ping_queue) \in Seq(AnyPayload)
    /\ pong_payload_queue \in Seq(AnyPayload)
    /\ PayloadsOf(inbox) \in Seq(AnyPayload)
    /\ unanswered \in Seq(AnyPayload)
    /\ Told => handleStatus.value.payload \in Payloads
    /\ InFlight => payload \in Payloads
<1> SUFFICES ASSUME TypeOK
             PROVE  /\ ping_queue \in Seq(PingContexts) /\ inbox \in Seq(Items)
                    /\ \A x \in PingContexts \cup Items : x.payload \in AnyPayload
                    /\ PayloadsOf(ping_queue) \in Seq(AnyPayload)
                    /\ pong_payload_queue \in Seq(AnyPayload)
                    /\ PayloadsOf(inbox) \in Seq(AnyPayload)
                    /\ unanswered \in Seq(AnyPayload)
                    /\ Told => handleStatus.value.payload \in Payloads
                    /\ InFlight => payload \in Payloads
  OBVIOUS
<1>1. ping_queue \in Seq(PingContexts) /\ inbox \in Seq(Items)
  BY DEF TypeOK
<1>2. \A x \in PingContexts \cup Items : x.payload \in AnyPayload
  BY DEF PingContexts, Items, AnyPayload
<1>3. PayloadsOf(ping_queue) \in Seq(AnyPayload) /\ PayloadsOf(inbox) \in Seq(AnyPayload)
  BY <1>1, <1>2, PayloadsFacts
<1>4. pong_payload_queue \in Seq(AnyPayload) /\ unanswered \in Seq(AnyPayload)
  BY DEF TypeOK, AnyPayload
<1>5. Told => handleStatus.value.payload \in Payloads
  BY DEF TypeOK, Channels, HandleStatusSet, Told, Terminations
<1>6. InFlight => payload \in Payloads
  BY DEF TypeOK, InFlight
<1> QED
  BY <1>1, <1>2, <1>3, <1>4, <1>5, <1>6

\* While one ping at most is on its way, it is the last of those awaited.
AwaitedForm ==
  /\ ~Told /\ pc["ping"] # "sent" => Awaited = PayloadsOf(ping_queue)
  /\ ~Told /\ pc["ping"] = "sent" => Awaited = Append(PayloadsOf(ping_queue), payload)
  /\ Told /\ pc["ping"] # "sent"
       => Awaited = Append(PayloadsOf(ping_queue), handleStatus.value.payload)

LEMMA AwaitedForms == TypeOK => AwaitedForm
<1> SUFFICES ASSUME TypeOK PROVE AwaitedForm
  OBVIOUS
<1> DEFINE s == PayloadsOf(ping_queue)
<1>1. s \in Seq(AnyPayload) /\ <<>> \in Seq(AnyPayload)
  BY PayloadTypes
<1> HIDE DEF s
<1>2. s \o <<>> \o <<>> = s
  BY <1>1, AppendFacts
<1>3. ASSUME NEW x \in Payloads
      PROVE  s \o <<x>> \o <<>> = Append(s, x) /\ s \o <<>> \o <<x>> = Append(s, x)
  <2>1. x \in AnyPayload /\ Append(s, x) \in Seq(AnyPayload)
    BY <1>1 DEF AnyPayload
  <2>2. Append(s, x) = s \o <<x>> /\ Append(s, x) \o <<>> = Append(s, x) /\ s \o <<>> = s
    BY <1>1, <2>1, AppendFacts
  <2> QED
    BY <2>2
<1>4. /\ Told => handleStatus.value.payload \in Payloads
      /\ pc["ping"] = "sent" => payload \in Payloads
  BY PayloadTypes DEF InFlight
<1> QED
  BY <1>2, <1>3, <1>4 DEF AwaitedForm, Awaited, s

LEMMA AwaitedTypes == TypeOK /\ OneOnItsWay /\ Running =>
  Awaited \in Seq(AnyPayload) /\ Coming \in Seq(AnyPayload)
<1> SUFFICES ASSUME TypeOK, OneOnItsWay, Running
             PROVE  Awaited \in Seq(AnyPayload) /\ Coming \in Seq(AnyPayload)
  OBVIOUS
<1>1. Coming \in Seq(AnyPayload)
  BY PayloadTypes, ConcatFacts DEF Coming
<1>2. ~(Told /\ pc["ping"] = "sent")
  BY DEF OneOnItsWay, OnTheirWay, InFlight
<1>3. ASSUME NEW x \in Payloads PROVE Append(PayloadsOf(ping_queue), x) \in Seq(AnyPayload)
  BY PayloadTypes DEF AnyPayload
<1> QED
  BY <1>1, <1>2, <1>3, PayloadTypes, AwaitedForms DEF AwaitedForm, InFlight

\* The steps that leave pings and pongs as they are, on their way from one place to
\* the next.
LEMMA PlacesChange ==
  ASSUME KeepaliveInv, KeepaliveInv', Running, Running',
         \/ RegisterPing \/ ReadPong \/ PingNotify \/ PeerPong \/ Tick \/ Quiet
  PROVE  Awaited' = Awaited /\ Coming' = Coming
<1>t. TypeOK /\ TypeOK' /\ pc \in [Actors -> States] /\ OnTheirWay <= 1
  BY DEF KeepaliveInv, IInv, TypeOK, OneOnItsWay
<1>s. ~(Told /\ pc["ping"] = "sent")
  BY <1>t DEF OnTheirWay, InFlight
<1>p. AwaitedForm /\ AwaitedForm'
  BY <1>t, AwaitedForms, PTL
<1>1. CASE RegisterPing
  <2>1. /\ Told /\ ~Told' /\ pc' = pc /\ pc["ping"] # "sent"
        /\ ping_queue' = Append(ping_queue, NewPing)
    BY <1>1, <1>t, <1>s, ReadFacts DEF RegisterPing, HandleChanged, Told, TypeOK, PushPing
  <2>2. NewPing \in PingContexts /\ NewPing.payload = handleStatus.value.payload
    BY <1>t, <2>1, PayloadTypes, TimesAssumption DEF NewPing, PingContexts
  <2>3. PayloadsOf(ping_queue') = Append(PayloadsOf(ping_queue), NewPing.payload)
    BY <1>t, <2>1, <2>2, PayloadTypes, PayloadsSteps
  <2>4. Awaited' = Awaited
    BY <1>p, <2>1, <2>2, <2>3 DEF AwaitedForm
  <2> QED
    BY <1>1, <2>4 DEF RegisterPing, Coming
<1>2. CASE ReadPong
  <2>1. Awaited' = Awaited
    BY <1>2 DEF ReadPong, Awaited, Told, pingTaskVars
  <2>2. /\ inbox # <<>> /\ inbox' = Tail(inbox) /\ unanswered' = unanswered
        /\ pong_payload_queue' = Append(pong_payload_queue, Head(inbox).payload)
    BY <1>2 DEF ReadPong, Received, PushPong
  <2>3. /\ PayloadsOf(inbox') = Tail(PayloadsOf(inbox))
        /\ Head(inbox).payload = Head(PayloadsOf(inbox)) /\ PayloadsOf(inbox) # <<>>
    <3>1. Head(inbox) \in Items
      BY <1>t, <2>2, PayloadTypes
    <3> QED
      BY <1>t, <2>2, <3>1, PayloadTypes, PayloadsSteps
  <2>4. pong_payload_queue' \o PayloadsOf(inbox') = pong_payload_queue \o PayloadsOf(inbox)
    BY <1>t, <2>2, <2>3, PayloadTypes, MoveFirst
  <2> QED
    BY <2>1, <2>2, <2>4 DEF Coming
<1>3. CASE PingNotify
  <2>1. /\ pc["ping"] = "sent" /\ ~Told /\ payload \in Payloads
        /\ UNCHANGED <<ping_queue, pong_payload_queue, inbox, unanswered>>
    BY <1>3, <1>s, <1>t, PayloadTypes DEF PingNotify, InFlight
  <2>2. pc'["ping"] # "sent"
    BY <1>3, <1>t, GotoFacts DEF PingNotify, Actors, States
  <2>3. HandleStatus("SendPing", payload) \in HandleStatusSet
    BY <2>1 DEF HandleStatus, HandleStatusSet
  <2>4. handleStatus'.unseen /\ handleStatus'.value = HandleStatus("SendPing", payload)
    BY <1>3, <1>t, <2>3, SendFacts DEF PingNotify, NotifyConnection, TypeOK
  <2>5. Told' /\ handleStatus'.value.payload = payload
    BY <2>4 DEF Told, HandleStatus
  <2>6. Awaited' = Awaited
    BY <1>p, <2>1, <2>2, <2>5 DEF AwaitedForm
  <2> QED
    BY <2>1, <2>6 DEF Coming
<1>4. CASE PeerPong
  <2>1. Awaited' = Awaited
    BY <1>4 DEF PeerPong, Awaited, Told, pingTaskVars
  <2> DEFINE item == [kind |-> "pong", payload |-> Head(unanswered)]
  <2>2. /\ unanswered # <<>> /\ unanswered' = Tail(unanswered)
        /\ inbox' = Append(inbox, item)
        /\ pong_payload_queue' = pong_payload_queue
    BY <1>4 DEF PeerPong, Arrives
  <2>3. item \in Items /\ Head(unanswered) \in AnyPayload /\ item.payload = Head(unanswered)
    BY <1>t, <2>2 DEF TypeOK, Items, AnyPayload
  <2> HIDE DEF item
  <2>4. PayloadsOf(inbox') = Append(PayloadsOf(inbox), Head(unanswered))
    BY <1>t, <2>2, <2>3, PayloadTypes, PayloadsSteps
  <2>5. pong_payload_queue \o PayloadsOf(inbox')
          = Append(pong_payload_queue \o PayloadsOf(inbox), Head(unanswered))
    BY <1>t, <2>3, <2>4, PayloadTypes, AppendFacts
  <2>6. pong_payload_queue \o PayloadsOf(inbox) \in Seq(AnyPayload)
    BY <1>t, PayloadTypes, ConcatFacts
  <2>7. Append(pong_payload_queue \o PayloadsOf(inbox), Head(unanswered)) \o Tail(unanswered)
          = pong_payload_queue \o PayloadsOf(inbox) \o unanswered
    BY <1>t, <2>2, <2>6, PayloadTypes, MoveFirst
  <2> QED
    BY <2>1, <2>2, <2>5, <2>7 DEF Coming
<1>5. CASE Tick
  <2>1. /\ DOMAIN ping_queue' = DOMAIN ping_queue
        /\ \A i \in DOMAIN ping_queue : ping_queue'[i].payload = ping_queue[i].payload
    <3>1. \A i \in DOMAIN ping_queue : ping_queue[i] \in [payload : Payloads, left : 0 .. PongTimeout]
      <4>1. \A i \in DOMAIN ping_queue : ping_queue[i] \in PingContexts
        BY <1>t DEF TypeOK
      <4> QED
        BY <4>1 DEF PingContexts
    <3>2. ping_queue' = [i \in DOMAIN ping_queue |->
                           [ping_queue[i] EXCEPT !.left = Countdown(ping_queue[i].left)]]
      BY <1>5 DEF Tick
    <3> QED
      BY <3>1, <3>2
  <2>2. PayloadsOf(ping_queue') = PayloadsOf(ping_queue)
    BY <2>1 DEF PayloadsOf
  <2> QED
    BY <1>5, <2>2 DEF Tick, Awaited, Coming, Told
<1>6. CASE Quiet
  BY <1>6 DEF Quiet, Awaited, Coming, Told, pingTaskVars
<1> QED
  BY <1>1, <1>2, <1>3, <1>4, <1>5, <1>6

\* Items that carry nothing come and go between the pongs.
LEMMA ItemsThin ==
  ASSUME KeepaliveInv, Ignore \/ PeerSend, "bogus" \notin PeerSends
  PROVE  Awaited' = Awaited /\ Thins(Coming', Coming)
<1>t. TypeOK
  BY DEF KeepaliveInv, IInv
<1>1. Awaited' = Awaited
  BY DEF Ignore, PeerSend, Awaited, Told, pingTaskVars
<1>2. NoPayload \in AnyPayload
  BY DEF AnyPayload
<1>3. CASE Ignore
  <2>1. /\ inbox # <<>> /\ inbox' = Tail(inbox) /\ Head(inbox).kind \in {"ping", "binary"}
        /\ UNCHANGED <<pong_payload_queue, unanswered>>
    BY <1>3 DEF Ignore, Received
  <2>2. Head(inbox) \in Items
    BY <1>t, <2>1, PayloadTypes
  <2>3. Head(inbox).payload = NoPayload
    BY <2>1, <2>2 DEF Items
  <2>4. /\ PayloadsOf(inbox') = Tail(PayloadsOf(inbox))
        /\ Head(PayloadsOf(inbox)) = NoPayload /\ PayloadsOf(inbox) # <<>>
    BY <1>t, <2>1, <2>2, <2>3, PayloadTypes, PayloadsSteps
  <2> QED
    BY <1>t, <1>1, <1>2, <2>1, <2>4, PayloadTypes, ThinItem DEF Coming
<1>4. CASE PeerSend
  <2>1. PICK kind \in PeerSends \cap Kinds :
          inbox' = Append(inbox, [kind |-> kind, payload |-> NoPayload])
    BY <1>4 DEF PeerSend, Arrives
  <2> DEFINE item == [kind |-> kind, payload |-> NoPayload]
  <2>2. item \in Items /\ item.payload = NoPayload
    BY PeerAssumption DEF Items, Deeds, Kinds, Endings
  <2>3. inbox' = Append(inbox, item)
    BY <2>1
  <2> HIDE DEF item
  <2>4. PayloadsOf(inbox') = Append(PayloadsOf(inbox), NoPayload)
    BY <1>t, <2>2, <2>3, PayloadTypes, PayloadsSteps
  <2>5. UNCHANGED <<pong_payload_queue, unanswered>>
    BY <1>4 DEF PeerSend
  <2> QED
    BY <1>t, <1>1, <1>2, <2>4, <2>5, PayloadTypes, ThinItem DEF Coming
<1> QED
  BY <1>3, <1>4

\* The front ping goes with its pong.
LEMMA FrontLeaves ==
  ASSUME KeepaliveInv, PongAccepted
  PROVE  /\ Awaited # <<>> /\ Awaited' = Tail(Awaited)
         /\ Coming # <<>> /\ Coming' = Tail(Coming)
         /\ Head(Coming) = Head(Awaited) /\ Head(Awaited) # NoPayload
<1>t. TypeOK /\ Running
  BY DEF KeepaliveInv, IInv, PongAccepted, LoopTurn
<1>1. /\ ping_queue # <<>> /\ pong_payload_queue # <<>>
      /\ Head(pong_payload_queue) = Head(ping_queue).payload
      /\ ping_queue' = Tail(ping_queue) /\ pong_payload_queue' = Tail(pong_payload_queue)
      /\ UNCHANGED <<pc, handleStatus, payload, inbox, unanswered>>
  BY DEF PongAccepted, FrontDue, FrontAnswered, PopPong, pingTaskVars
<1>2. Head(ping_queue) \in PingContexts
  BY <1>t, <1>1 DEF TypeOK
<1>3. Head(ping_queue).payload # NoPayload
  BY <1>2, PayloadsAssumption DEF PingContexts
<1> DEFINE pings == PayloadsOf(ping_queue)
           told == IF Told THEN <<handleStatus.value.payload>> ELSE <<>>
           sent == IF pc["ping"] = "sent" THEN <<payload>> ELSE <<>>
<1>4. /\ PayloadsOf(ping_queue') = Tail(pings) /\ pings # <<>>
      /\ Head(pings) = Head(ping_queue).payload /\ pings \in Seq(AnyPayload)
  BY <1>t, <1>1, <1>2, PayloadTypes, PayloadsSteps
<1>5. told \in Seq(AnyPayload) /\ sent \in Seq(AnyPayload)
  <2>1. <<>> \in Seq(AnyPayload) /\ \A x \in Payloads : <<x>> \in Seq(AnyPayload)
    BY DEF AnyPayload
  <2>2. /\ Told => handleStatus.value.payload \in Payloads
        /\ pc["ping"] = "sent" => payload \in Payloads
    BY <1>t, PayloadTypes DEF InFlight
  <2> QED
    BY <2>1, <2>2
<1>6. Awaited = pings \o told \o sent /\ Awaited' = Tail(pings) \o told \o sent
  BY <1>1, <1>4 DEF Awaited, Told
<1> HIDE DEF pings, told, sent
<1>7. Awaited # <<>> /\ Awaited' = Tail(Awaited) /\ Head(Awaited) = Head(pings)
  <2>1. /\ Tail(pings) \o told = Tail(pings \o told) /\ pings \o told # <<>>
        /\ Head(pings \o told) = Head(pings) /\ pings \o told \in Seq(AnyPayload)
    BY <1>4, <1>5, TailConcat, ConcatFacts
  <2> QED
    BY <1>5, <1>6, <2>1, TailConcat
<1> DEFINE read == pong_payload_queue
           items == PayloadsOf(inbox)
<1>8. read \in Seq(AnyPayload) /\ items \in Seq(AnyPayload) /\ unanswered \in Seq(AnyPayload)
  BY <1>t, PayloadTypes
<1>9. Coming = read \o items \o unanswered /\ Coming' = Tail(read) \o items \o unanswered
  BY <1>1 DEF Coming
<1>10. read # <<>> /\ Head(read) = Head(ping_queue).payload
  BY <1>1
<1> HIDE DEF read, items
<1>11. Coming # <<>> /\ Coming' = Tail(Coming) /\ Head(Coming) = Head(read)
  <2>1. /\ Tail(read) \o items = Tail(read \o items) /\ read \o items # <<>>
        /\ Head(read \o items) = Head(read) /\ read \o items \in Seq(AnyPayload)
    BY <1>8, <1>10, TailConcat, ConcatFacts
  <2> QED
    BY <1>8, <1>9, <2>1, TailConcat
<1> QED
  BY <1>3, <1>4, <1>7, <1>10, <1>11

\* What a termination leaves in the channel.
LEMMA StopWritten ==
  ASSUME TypeOK, Running, NEW type \in Terminations, NotifyConnection(type, NoPayload)
  PROVE  ToldToStop' /\ ~Told'
<1>1. HandleStatus(type, NoPayload) \in HandleStatusSet /\ type # "SendPing"
  BY DEF HandleStatus, HandleStatusSet, Terminations
<1>2. handleStatus'.unseen /\ handleStatus'.value = HandleStatus(type, NoPayload)
  BY <1>1, SendFacts DEF NotifyConnection, TypeOK
<1> QED
  BY <1>1, <1>2 DEF ToldToStop, Told, HandleStatus

\* The notification of a close may replace that of a ping, the last one awaited: the
\* sink is closed by then, and no ping follows.
LEMMA CloseForgets ==
  ASSUME KeepaliveInv, KeepaliveInv', Running, Running', NEW c \in Closers, CloserNotify(c)
  PROVE  /\ Coming' = Coming
         /\ ~Told => Awaited' = Awaited
         /\ Told => /\ StopNotified'
                    /\ Awaited' \in Seq(AnyPayload)
                    /\ \E p \in AnyPayload : Awaited = Append(Awaited', p)
<1>t. TypeOK /\ TypeOK' /\ pc \in [Actors -> States] /\ OnTheirWay <= 1
  BY DEF KeepaliveInv, IInv, TypeOK, OneOnItsWay
<1>p. AwaitedForm /\ AwaitedForm'
  BY <1>t, AwaitedForms, PTL
<1>1. /\ pc[c] = "closed" /\ pc'["ping"] = pc["ping"]
      /\ UNCHANGED <<sinkVars, ping_queue, pong_payload_queue, payload, inbox, unanswered>>
  BY <1>t, GotoFacts
  DEF CloserNotify, Finish, Closers, Actors, States, pingTaskVars
<1>2. ToldToStop' /\ ~Told'
  BY <1>t, StopWritten DEF CloserNotify, Terminations
<1>3. Coming' = Coming
  BY <1>1 DEF Coming
<1>4. CASE Told
  <2>1. pc["ping"] \notin {"locking", "sending", "sent"}
    BY <1>t, <1>4 DEF OnTheirWay, InFlight
  <2>2. /\ Awaited = Append(PayloadsOf(ping_queue), handleStatus.value.payload)
        /\ Awaited' = PayloadsOf(ping_queue)
    BY <1>1, <1>2, <1>4, <1>p, <2>1 DEF AwaitedForm
  <2>3. /\ PayloadsOf(ping_queue) \in Seq(AnyPayload)
        /\ handleStatus.value.payload \in AnyPayload
    BY <1>t, <1>4, PayloadTypes DEF AnyPayload
  <2>4. has_sent_close_frame /\ Closed
    BY <1>1 DEF KeepaliveInv, FlagStored, IInv, SignalInv, PastTheLock
  <2>5. StopNotified'
    BY <1>1, <1>2, <2>1, <2>4 DEF StopNotified, Closed, sinkVars
  <2> QED
    BY <1>3, <1>4, <2>2, <2>3, <2>5
<1>5. CASE ~Told
  BY <1>1, <1>2, <1>3, <1>5 DEF Awaited
<1> QED
  BY <1>4, <1>5

\* A payload the ping task draws is none of those in use.
LEMMA DrawnFresh ==
  ASSUME TypeOK, ~Told, pc["ping"] = "idle", NEW p \in Payloads \ Outstanding
  PROVE  ~Occurs(p, Awaited) /\ ~Occurs(p, Coming)
<1>1. Awaited = PayloadsOf(ping_queue)
  BY AwaitedForms DEF AwaitedForm
<1>2. ~Occurs(p, PayloadsOf(ping_queue))
  BY DEF Outstanding, PayloadsOf, Occurs
<1> DEFINE read == pong_payload_queue
           items == PayloadsOf(inbox)
<1>3. read \in Seq(AnyPayload) /\ items \in Seq(AnyPayload) /\ unanswered \in Seq(AnyPayload)
  BY PayloadTypes
<1>4. ~Occurs(p, read) /\ ~Occurs(p, items) /\ ~Occurs(p, unanswered)
  BY DEF Outstanding, PayloadsOf, Occurs
<1> HIDE DEF read, items
<1>5. ASSUME NEW s \in Seq(AnyPayload), NEW t \in Seq(AnyPayload),
             ~Occurs(p, s), ~Occurs(p, t)
      PROVE  ~Occurs(p, s \o t)
  BY <1>5 DEF Occurs
<1>6. ~Occurs(p, read \o items) /\ read \o items \in Seq(AnyPayload)
  BY <1>3, <1>4, <1>5, ConcatFacts
<1>7. ~Occurs(p, read \o items \o unanswered)
  BY <1>3, <1>4, <1>5, <1>6
<1> QED
  BY <1>1, <1>2, <1>7 DEF Coming, read, items

\* The flag is never taken back.
LEMMA FlagStays ==
  ASSUME [Next]_vars, has_sent_close_frame
  PROVE  has_sent_close_frame'
<1> USE DEF sinkVars
<1>1. CASE ConnStep \/ ConnCancelled
  BY <1>1 DEF ConnStep, PongAccepted, PongMissed, RegisterPing, ClosedByHandle, Ignore,
              ReadPong, ReadEnding, ReadNothing, ConnCancelled
<1>2. CASE SharedStatus \/ SharedGone \/ \E c \in Closers : CloserStep(c)
  BY <1>2 DEF SharedStatus, SharedGone, CloserStep, CloserStore, CloserClose, CloserFlushed,
              CloserNotify
<1>3. CASE PingStep
  BY <1>3 DEF PingStep, PingTick, PingLocked, PingFlushed, PingNotify
<1>4. CASE OwnerWait \/ Outside
  BY <1>4 DEF OwnerWait, Outside, OwnerSend, OwnerLocked, OwnerFlushed, OwnerDrop,
              OwnerUnchanged, PeerPong, PeerSend, WireBreaks, Cancel, ReceiverDrop
<1>5. CASE Tick \/ Finished \/ UNCHANGED vars
  BY <1>5 DEF Tick, Finished, vars
<1> QED
  BY <1>1, <1>2, <1>3, <1>4, <1>5 DEF Next, ServerStep, SharedStep, Closers

\* A ping that is sent joins the awaited ones, and its pong those to come; a ping that
\* is not leaves no trace.
LEMMA PingSent ==
  ASSUME KeepaliveInv, KeepaliveInv', PingFresh, Running, Running',
         PingTick \/ PingLocked \/ PingFlushed
  PROVE  \/ /\ Awaited' = Awaited /\ Coming' = Coming
            /\ pc'["ping"] \in {"locking", "sending"}
                 => ~Occurs(payload', Awaited) /\ ~Occurs(payload', Coming)
         \/ /\ ~StopNotified /\ pc'["ping"] = "sent"
            /\ \E p \in Payloads :
                 /\ ~Occurs(p, Awaited) /\ ~Occurs(p, Coming)
                 /\ Awaited' = Append(Awaited, p)
                 /\ Coming' = Coming \/ Coming' = Append(Coming, p)
<1>t. TypeOK /\ TypeOK' /\ pc \in [Actors -> States] /\ OnTheirWay <= 1
  BY DEF KeepaliveInv, IInv, TypeOK, OneOnItsWay
<1>p. AwaitedForm /\ AwaitedForm'
  BY <1>t, AwaitedForms, PTL
<1>g. ASSUME NEW state \in {"locking", "sending", "sent", "done"}, Goto("ping", state)
      PROVE  pc'["ping"] = state
  BY <1>g, <1>t, GotoFacts DEF Actors, States
<1>1. /\ ~Told /\ pc["ping"] # "sent"
      /\ UNCHANGED <<ping_queue, pong_payload_queue, inbox>>
  BY <1>t DEF PingTick, PingLocked, PingFlushed, OnTheirWay, InFlight
<1>2. Awaited = PayloadsOf(ping_queue)
  BY <1>1, <1>p DEF AwaitedForm
<1> DEFINE Goal ==
      \/ /\ Awaited' = Awaited /\ Coming' = Coming
         /\ pc'["ping"] \in {"locking", "sending"}
              => ~Occurs(payload', Awaited) /\ ~Occurs(payload', Coming)
      \/ /\ ~StopNotified /\ pc'["ping"] = "sent"
         /\ \E p \in Payloads :
              /\ ~Occurs(p, Awaited) /\ ~Occurs(p, Coming)
              /\ Awaited' = Append(Awaited, p)
              /\ Coming' = Coming \/ Coming' = Append(Coming, p)
<1>3. ASSUME PingFails PROVE Goal
  <2>1. ~Told' /\ pc'["ping"] = "done" /\ unanswered' = unanswered
    BY <1>3, <1>t, <1>g, StopWritten DEF PingFails, Terminations
  <2>2. Awaited' = Awaited /\ Coming' = Coming
    BY <1>1, <1>2, <1>p, <2>1 DEF AwaitedForm, Coming
  <2> QED
    BY <2>1, <2>2
<1>4. ASSUME NEW p \in Payloads, PingSucceeds(p), ~StopNotified,
             ~Occurs(p, Awaited), ~Occurs(p, Coming)
      PROVE  Goal
  <2>1. ~Told' /\ pc'["ping"] = "sent" /\ payload' = p
    BY <1>1, <1>4, <1>g DEF PingSucceeds, Told
  <2>2. Awaited' = Append(Awaited, p)
    BY <1>1, <1>2, <1>p, <2>1 DEF AwaitedForm
  <2>3. unanswered' = unanswered \/ unanswered' = Append(unanswered, p)
    BY <1>4 DEF PingSucceeds
  <2>4. Coming' = Coming \/ Coming' = Append(Coming, p)
    <3> DEFINE arrived == pong_payload_queue \o PayloadsOf(inbox)
    <3>1. arrived \in Seq(AnyPayload) /\ unanswered \in Seq(AnyPayload) /\ p \in AnyPayload
      BY <1>t, PayloadTypes, ConcatFacts DEF AnyPayload
    <3>2. Coming = arrived \o unanswered /\ Coming' = arrived \o unanswered'
      BY <1>1 DEF Coming
    <3> HIDE DEF arrived
    <3>3. Append(arrived \o unanswered, p) = arrived \o Append(unanswered, p)
      BY <3>1, AppendFacts
    <3> QED
      BY <2>3, <3>2, <3>3
  <2> QED
    BY <1>4, <2>1, <2>2, <2>4
<1>5. ASSUME NEW p \in Payloads, NEW state \in {"locking", "sending"},
             Goto("ping", state), payload' = p, UNCHANGED <<unanswered, handleStatus>>,
             ~Occurs(p, Awaited), ~Occurs(p, Coming)
      PROVE  Goal
  <2>1. ~Told' /\ pc'["ping"] # "sent"
    BY <1>1, <1>5, <1>g DEF Told
  <2>2. Awaited' = Awaited /\ Coming' = Coming
    BY <1>1, <1>2, <1>5, <1>p, <2>1 DEF AwaitedForm, Coming
  <2> QED
    BY <1>5, <2>2
<1>6. ASSUME NEW p \in Payloads, NEW queue, SendPing(p, queue),
             ~Occurs(p, Awaited), ~Occurs(p, Coming)
      PROVE  Goal
  <2>1. wire = "open" => ~StopNotified
    BY DEF StopNotified, Closed
  <2> QED
    BY <1>3, <1>4, <1>5, <1>6, <2>1 DEF SendPing
<1>7. CASE PingTick
  <2>1. ASSUME NEW p \in Payloads \ Outstanding
        PROVE  ~Occurs(p, Awaited) /\ ~Occurs(p, Coming)
    BY <1>1, <1>7, <1>t, DrawnFresh DEF PingTick
  <2> QED
    BY <1>3, <1>5, <1>6, <1>7, <2>1 DEF PingTick
<1>8. CASE PingLocked \/ PingFlushed
  <2>1. payload \in Payloads /\ ~Occurs(payload, Awaited) /\ ~Occurs(payload, Coming)
    BY <1>8, <1>t, PayloadTypes DEF PingLocked, PingFlushed, InFlight, PingFresh
  <2>2. pc["ping"] = "sending" => ~StopNotified
    BY DEF StopNotified
  <2> QED
    BY <1>3, <1>4, <1>6, <1>8, <2>1, <2>2 DEF PingLocked, PingFlushed
<1> QED
  BY <1>7, <1>8

\* Once the close was notified under a running connection, no ping is sent or read of.
LEMMA StopStays ==
  ASSUME KeepaliveInv, [TimelyNext]_keepaliveVars, Running', StopNotified
  PROVE  StopNotified'
<1>t. TypeOK /\ pc \in [Actors -> States]
  BY DEF KeepaliveInv, IInv, TypeOK
<1>1. ToldToStop /\ has_sent_close_frame /\ Closed /\ pc["ping"] \notin {"sending", "sent"}
  BY DEF StopNotified
<1>2. Closed'
  BY <1>1, <1>t, ClosedStays, TimelyIsNext
<1>3. Running
  BY <1>t, LiveSteps
<1>4. has_sent_close_frame'
  BY <1>1, TimelyIsNext, FlagStays
<1>5. ASSUME UNCHANGED handleStatus, pc'["ping"] = pc["ping"] PROVE StopNotified'
  BY <1>1, <1>2, <1>4, <1>5 DEF StopNotified, ToldToStop
<1>g. ASSUME NEW state \in {"locking", "sending", "sent", "done"}, Goto("ping", state)
      PROVE  pc'["ping"] = state
  BY <1>g, <1>t, GotoFacts DEF Actors, States
<1>6. ASSUME PingFails PROVE StopNotified'
  <2>1. ToldToStop' /\ pc'["ping"] = "done"
    BY <1>3, <1>6, <1>t, <1>g, StopWritten DEF PingFails, Terminations
  <2> QED
    BY <1>2, <1>4, <2>1 DEF StopNotified
<1>7. CASE PingStep
  <2>1. wire # "open" /\ ~PingFlushed /\ ~PingNotify
    BY <1>1 DEF Closed, PingFlushed, PingNotify
  <2>2. CASE Goto("ping", "locking") /\ UNCHANGED handleStatus
    <3>1. pc'["ping"] = "locking"
      BY <1>g, <2>2
    <3> QED
      BY <1>1, <1>2, <1>4, <2>2, <3>1 DEF StopNotified, ToldToStop
  <2> QED
    BY <1>6, <1>7, <2>1, <2>2 DEF PingStep, PingTick, PingLocked, SendPing
<1>8. ASSUME NEW c \in Closers, CloserNotify(c) PROVE StopNotified'
  <2>1. ToldToStop'
    BY <1>3, <1>8, <1>t, StopWritten DEF CloserNotify, Terminations
  <2>2. pc'["ping"] = pc["ping"]
    BY <1>8, <1>t, GotoFacts DEF CloserNotify, Finish, Closers, Actors, States
  <2> QED
    BY <1>1, <1>2, <1>4, <2>1, <2>2 DEF StopNotified
<1>9. CASE PongAccepted \/ RegisterPing \/ Ignore \/ ReadPong \/ PeerSend
  <2>1. ~RegisterPing
    BY <1>1 DEF RegisterPing, ToldToStop, Terminations
  <2> QED
    BY <1>5, <1>9, <2>1 DEF PongAccepted, Ignore, ReadPong, PeerSend
<1>10. CASE TimelyTick \/ TimelyPong \/ Quiet
  BY <1>5, <1>10 DEF TimelyTick, Tick, TimelyPong, PeerPong, Quiet
<1> QED
  BY <1>t, <1>7, <1>8, <1>9, <1>10, LiveSteps DEF LiveStep

\* One step of the connection, in terms of the pings awaited and the pongs to come.
LEMMA PingsAndPongs ==
  ASSUME KeepaliveInv, KeepaliveInv', PingFresh, "bogus" \notin PeerSends,
         [TimelyNext]_keepaliveVars, Running'
  PROVE  \/ Awaited' = Awaited /\ Coming' = Coming
         \/ Awaited' = Awaited /\ Thins(Coming', Coming)
         \/ /\ Awaited # <<>> /\ Awaited' = Tail(Awaited)
            /\ Coming # <<>> /\ Coming' = Tail(Coming)
            /\ Head(Coming) = Head(Awaited) /\ Head(Awaited) # NoPayload
         \/ /\ StopNotified' /\ Coming' = Coming
            /\ Awaited' \in Seq(AnyPayload) /\ \E p \in AnyPayload : Awaited = Append(Awaited', p)
         \/ /\ ~StopNotified /\ pc'["ping"] = "sent"
            /\ \E p \in Payloads :
                 /\ ~Occurs(p, Awaited) /\ ~Occurs(p, Coming)
                 /\ Awaited' = Append(Awaited, p)
                 /\ Coming' = Coming \/ Coming' = Append(Coming, p)
<1>t. TypeOK
  BY DEF KeepaliveInv, IInv
<1>1. Running
  BY <1>t, LiveSteps
<1>2. CASE RegisterPing \/ ReadPong \/ PingNotify \/ TimelyPong \/ TimelyTick \/ Quiet
  BY <1>1, <1>2, PlacesChange DEF TimelyPong, TimelyTick
<1>3. CASE Ignore \/ PeerSend
  BY <1>3, ItemsThin
<1>4. CASE PongAccepted
  BY <1>4, FrontLeaves
<1>5. CASE \E c \in Closers : CloserNotify(c)
  BY <1>1, <1>5, CloseForgets
<1>6. CASE PingTick \/ PingLocked \/ PingFlushed
  BY <1>1, <1>6, PingSent
<1> QED
  BY <1>t, <1>2, <1>3, <1>4, <1>5, <1>6, LiveSteps DEF LiveStep, PingStep

\* Only the ping task moves itself and its ping; only the clock its interval.
LEMMA OthersKeepPing ==
  ASSUME TypeOK, [TimelyNext]_keepaliveVars, Running', ~PingStep
  PROVE  /\ payload' = payload /\ pc'["ping"] = pc["ping"]
         /\ TimelyTick \/ interval' = interval
<1>1. ASSUME NEW c \in Closers, CloserNotify(c)
      PROVE  UNCHANGED pingTaskVars /\ pc'["ping"] = pc["ping"]
  <2>1. pc \in [Actors -> States]
    BY DEF TypeOK
  <2> QED
    BY <1>1, <2>1, GotoFacts DEF CloserNotify, Finish, Closers, Actors, States
<1> QED
  BY <1>1, LiveSteps
  DEF LiveStep, PongAccepted, RegisterPing, Ignore, ReadPong, PeerSend, Quiet,
      TimelyPong, PeerPong, TimelyTick, Tick, pingTaskVars

\* A ping on its way to the peer stays unknown until it is sent.
LEMMA PingFreshNext ==
  ASSUME KeepaliveInv, KeepaliveInv', PingFresh, "bogus" \notin PeerSends,
         [TimelyNext]_keepaliveVars
  PROVE  PingFresh'
<1> SUFFICES ASSUME Running', pc'["ping"] \in {"locking", "sending"}
             PROVE  ~Occurs(payload', Awaited') /\ ~Occurs(payload', Coming')
  BY DEF PingFresh
<1>t. TypeOK /\ TypeOK' /\ pc \in [Actors -> States] /\ OneOnItsWay /\ OneOnItsWay'
  BY DEF KeepaliveInv, IInv, TypeOK
<1>1. Running
  BY <1>t, LiveSteps
<1>2. Awaited \in Seq(AnyPayload) /\ Coming \in Seq(AnyPayload)
  BY <1>t, <1>1, AwaitedTypes
<1>3. Coming' \in Seq(AnyPayload) /\ payload' \in Payloads
  <2>1. TypeOK' /\ OneOnItsWay' /\ Running' => (Awaited \in Seq(AnyPayload) /\ Coming \in Seq(AnyPayload))'
    BY AwaitedTypes, PTL
  <2>2. payload' \in Payloads
    BY <1>t DEF TypeOK
  <2> QED
    BY <1>t, <2>1, <2>2
<1>4. CASE PingTick \/ PingLocked \/ PingFlushed
  BY <1>1, <1>4, PingSent
<1>5. CASE ~(PingTick \/ PingLocked \/ PingFlushed)
  <2>1. payload' = payload /\ pc'["ping"] = pc["ping"]
    <3>1. ~PingNotify
      BY <1>t, GotoFacts DEF PingNotify, Actors, States
    <3> QED
      BY <1>t, <1>5, <3>1, OthersKeepPing DEF PingStep
  <2>2. ~Occurs(payload', Awaited) /\ ~Occurs(payload', Coming)
    BY <1>1, <2>1 DEF PingFresh
  <2>3. payload' # NoPayload /\ payload' \in AnyPayload
    BY <1>3, PayloadsAssumption DEF AnyPayload
  <2>4. CASE Thins(Coming', Coming) /\ Awaited' = Awaited
    BY <1>2, <1>3, <2>2, <2>3, <2>4, ThinKept
  <2>5. CASE /\ Awaited # <<>> /\ Awaited' = Tail(Awaited)
             /\ Coming # <<>> /\ Coming' = Tail(Coming)
    BY <1>2, <2>2, <2>5 DEF Occurs
  <2>6. CASE /\ Coming' = Coming /\ Awaited' \in Seq(AnyPayload)
             /\ \E p \in AnyPayload : Awaited = Append(Awaited', p)
    <3>1. PICK p \in AnyPayload : Awaited = Append(Awaited', p)
      BY <2>6
    <3>2. \A i \in DOMAIN Awaited' : i \in DOMAIN Awaited /\ Awaited[i] = Awaited'[i]
      BY <2>6, <3>1
    <3> QED
      BY <2>2, <2>6, <3>2 DEF Occurs
  <2> QED
    BY <2>2, <2>4, <2>5, <2>6, PingsAndPongs
<1> QED
  BY <1>4, <1>5

LEMMA MatchingNext ==
  ASSUME KeepaliveInv, KeepaliveInv', PingFresh, Matching, "bogus" \notin PeerSends,
         [TimelyNext]_keepaliveVars
  PROVE  Matching'
<1> SUFFICES ASSUME Running'
             PROVE  /\ Distinct(Awaited') /\ InOrder(Coming', Awaited')
                    /\ Covered(Coming', Awaited') \/ StopNotified'
  BY DEF Matching
<1>t. TypeOK /\ TypeOK' /\ OneOnItsWay /\ OneOnItsWay'
  BY DEF KeepaliveInv, IInv
<1>1. Running
  BY <1>t, LiveSteps
<1>2. Awaited \in Seq(AnyPayload) /\ Coming \in Seq(AnyPayload)
  BY <1>t, <1>1, AwaitedTypes
<1>3. Coming' \in Seq(AnyPayload)
  <2>1. TypeOK' /\ OneOnItsWay' /\ Running' => (Awaited \in Seq(AnyPayload) /\ Coming \in Seq(AnyPayload))'
    BY AwaitedTypes, PTL
  <2> QED
    BY <1>t, <2>1
<1>4. /\ Distinct(Awaited) /\ InOrder(Coming, Awaited)
      /\ Covered(Coming, Awaited) \/ StopNotified
  BY <1>1 DEF Matching
<1>5. StopNotified => StopNotified'
  BY StopStays
<1>6. CASE Awaited' = Awaited /\ Coming' = Coming
  BY <1>4, <1>5, <1>6
<1>7. CASE Awaited' = Awaited /\ Thins(Coming', Coming)
  BY <1>2, <1>3, <1>4, <1>5, <1>7, ThinKept
<1>8. CASE /\ Awaited # <<>> /\ Awaited' = Tail(Awaited)
           /\ Coming # <<>> /\ Coming' = Tail(Coming)
           /\ Head(Coming) = Head(Awaited) /\ Head(Awaited) # NoPayload
  BY <1>2, <1>4, <1>5, <1>8, FrontAnsweredKept
<1>9. CASE /\ StopNotified' /\ Coming' = Coming
           /\ Awaited' \in Seq(AnyPayload) /\ \E p \in AnyPayload : Awaited = Append(Awaited', p)
  BY <1>2, <1>4, <1>9, LastPingForgotten
<1>10. CASE /\ ~StopNotified
            /\ \E p \in Payloads :
                 /\ ~Occurs(p, Awaited) /\ ~Occurs(p, Coming)
                 /\ Awaited' = Append(Awaited, p)
                 /\ Coming' = Coming \/ Coming' = Append(Coming, p)
  <2>1. PICK p \in Payloads :
          /\ ~Occurs(p, Awaited) /\ ~Occurs(p, Coming)
          /\ Awaited' = Append(Awaited, p)
          /\ Coming' = Coming \/ Coming' = Append(Coming, p)
    BY <1>10
  <2>2. p \in AnyPayload /\ p # NoPayload
    BY PayloadsAssumption DEF AnyPayload
  <2> QED
    BY <1>2, <1>4, <1>10, <2>1, <2>2, NewPingKept
<1> QED
  BY <1>6, <1>7, <1>8, <1>9, <1>10, PingsAndPongs

LEMMA MatchingInvariance ==
  ASSUME "bogus" \notin PeerSends
  PROVE  TimelySpec => [](KeepaliveInv /\ Matching)
<1>1. KeepaliveInit => Matching /\ PingFresh
  <2> SUFFICES ASSUME Init PROVE Matching /\ PingFresh
    BY DEF KeepaliveInit
  <2>1. /\ pc["ping"] = "idle" /\ ~Told /\ inbox = <<>>
        /\ ping_queue = <<>> /\ pong_payload_queue = <<>> /\ unanswered = <<>>
    BY DEF Init, Actors, InitConnection, InitSharedState, Channel, Told
  <2>2. Coming = <<>> /\ Awaited = <<>>
    <3>1. PayloadsOf(<<>>) = <<>>
      BY DEF PayloadsOf
    <3> QED
      BY <2>1, <3>1 DEF Coming, Awaited
  <2>3. Distinct(<<>>) /\ InOrder(<<>>, <<>>) /\ Covered(<<>>, <<>>)
    BY DEF Distinct, InOrder, Covered
  <2> QED
    BY <2>1, <2>2, <2>3 DEF Matching, PingFresh
<1>2. KeepaliveInv /\ KeepaliveInv' /\ PingFresh /\ Matching /\ [TimelyNext]_keepaliveVars
        => PingFresh' /\ Matching'
  BY PingFreshNext, MatchingNext
<1> QED
  BY <1>1, <1>2, KeepaliveInvariance, PTL DEF TimelySpec

\* Without unsolicited pongs, on a server that keeps up with its timers, comparing the
\* fronts of ping_queue and pong_payload_queue compares each pong with its own ping.
THEOREM PongsMatch ==
  ASSUME "bogus" \notin PeerSends
  PROVE  TimelySpec => []PongsMatchPings
<1>1. KeepaliveInv /\ Matching => PongsMatchPings
  <2> SUFFICES ASSUME KeepaliveInv, Matching, Running, ~(ToldToStop /\ has_sent_close_frame),
                      NEW i \in DOMAIN Coming, NEW j \in DOMAIN Coming,
                      i <= j, Coming[i] # NoPayload, Coming[j] # NoPayload
               PROVE  \E m, n \in DOMAIN Awaited :
                        /\ m <= n /\ (m = n <=> i = j)
                        /\ Coming[i] = Awaited[m] /\ Coming[j] = Awaited[n]
    BY DEF PongsMatchPings
  <2>1. Awaited \in Seq(AnyPayload) /\ Coming \in Seq(AnyPayload)
    BY AwaitedTypes DEF KeepaliveInv, IInv
  <2>2. Distinct(Awaited) /\ InOrder(Coming, Awaited) /\ Covered(Coming, Awaited)
    BY DEF Matching, StopNotified
  <2> QED
    BY <2>1, <2>2, MatchedPairs
<1> QED
  BY <1>1, MatchingInvariance, PTL

-----------------------------------------------------------------------------
(* How many pongs are kept *)

\* The pongs read are the first of those to come.
LEMMA ReadComeFirst ==
  TypeOK => \A i \in DOMAIN pong_payload_queue :
              i \in DOMAIN Coming /\ Coming[i] = pong_payload_queue[i]
<1> SUFFICES ASSUME TypeOK
             PROVE  \A i \in DOMAIN pong_payload_queue :
                      i \in DOMAIN Coming /\ Coming[i] = pong_payload_queue[i]
  OBVIOUS
<1> DEFINE read == pong_payload_queue
           items == PayloadsOf(inbox)
<1>1. read \in Seq(AnyPayload) /\ items \in Seq(AnyPayload) /\ unanswered \in Seq(AnyPayload)
  BY PayloadTypes
<1>2. Coming = read \o items \o unanswered
  BY DEF Coming
<1> HIDE DEF items, read
<1>3. \A i \in DOMAIN read : /\ i \in DOMAIN (read \o items)
                             /\ (read \o items)[i] = read[i]
                             /\ read \o items \in Seq(AnyPayload)
  BY <1>1
<1>4. \A i \in DOMAIN read : /\ i \in DOMAIN (read \o items \o unanswered)
                             /\ (read \o items \o unanswered)[i] = read[i]
  BY <1>1, <1>3
<1> QED
  BY <1>2, <1>4 DEF read

\* Pongs of awaited pings, in their order, are no more than those.
LEMMA NoMorePongs ==
  ASSUME NEW P, NEW pongs \in Seq(P), NEW pings \in Seq(P), NEW k \in 0 .. Len(pongs),
         Distinct(pings), InOrder(pongs, pings), Covered(pongs, pings),
         \A i \in 1 .. k : pongs[i] # NoPayload
  PROVE  k <= Len(pings)
<1> DEFINE f == [i \in 1 .. k |-> CHOOSE m \in 1 .. Len(pings) : pongs[i] = pings[m]]
<1>1. /\ DOMAIN pings = 1 .. Len(pings) /\ Len(pings) \in Nat
      /\ DOMAIN pongs = 1 .. Len(pongs) /\ Len(pongs) \in Nat
      /\ k \in Nat /\ 1 .. k \subseteq DOMAIN pongs
  OBVIOUS
<1>2. \A i \in 1 .. k : f[i] \in 1 .. Len(pings) /\ pongs[i] = pings[f[i]]
  BY <1>1 DEF Covered
<1>3. f \in [1 .. k -> 1 .. Len(pings)]
  BY <1>2
<1> HIDE DEF f
<1>4. ASSUME NEW i \in 1 .. k, NEW j \in 1 .. k, i < j PROVE f[i] # f[j]
  <2>1. PICK m \in DOMAIN pings : m < f[j] /\ pongs[i] = pings[m]
    BY <1>1, <1>2, <1>4 DEF InOrder
  <2>2. m = f[i]
    BY <1>1, <1>2, <2>1 DEF Distinct
  <2> QED
    BY <1>1, <2>1, <2>2
<1>5. \A i, j \in 1 .. k : f[i] = f[j] => i = j
  <2>1. \A i, j \in 1 .. k : i = j \/ i < j \/ j < i
    BY <1>1
  <2> QED
    BY <1>4, <2>1
<1>6. f \in Injection(1 .. k, 1 .. Len(pings))
  BY <1>3, <1>5 DEF Injection, IsInjective
<1>7. /\ IsFiniteSet(1 .. Len(pings)) /\ Cardinality(1 .. Len(pings)) = Len(pings)
      /\ Cardinality(1 .. k) = k
  <2>1. \A n \in Nat : IsFiniteSet(1 .. n) /\ Cardinality(1 .. n) = n
    BY FS_Interval
  <2> QED
    BY <1>1, <2>1
<1>8. Cardinality(1 .. k) <= Cardinality(1 .. Len(pings))
  BY <1>6, <1>7, FS_Injection
<1> QED
  BY <1>7, <1>8

\* Those read are pongs of pings in the queue, and of one more at most.
LEMMA PongsFit ==
  KeepaliveInv /\ Matching /\ Running /\ ~ToldToStop => Len(pong_payload_queue) <= Len(ping_queue) + 1
<1> SUFFICES ASSUME KeepaliveInv, Matching, Running, ~ToldToStop
             PROVE  Len(pong_payload_queue) <= Len(ping_queue) + 1
  OBVIOUS
<1>t. TypeOK /\ OneOnItsWay
  BY DEF KeepaliveInv, IInv
<1>1. Distinct(Awaited) /\ InOrder(Coming, Awaited) /\ Covered(Coming, Awaited)
  BY DEF Matching, StopNotified
<1>2. Awaited \in Seq(AnyPayload) /\ Coming \in Seq(AnyPayload)
  BY <1>t, AwaitedTypes
<1>3. /\ pong_payload_queue \in Seq(Payloads \cup {Bogus})
      /\ \A i \in 1 .. Len(pong_payload_queue) : pong_payload_queue[i] # NoPayload
  BY <1>t, PayloadsAssumption DEF TypeOK
<1>4. /\ Len(pong_payload_queue) \in 0 .. Len(Coming)
      /\ \A i \in 1 .. Len(pong_payload_queue) : Coming[i] # NoPayload
  BY <1>t, <1>2, <1>3, ReadComeFirst
<1>5. Len(pong_payload_queue) <= Len(Awaited)
  BY <1>1, <1>2, <1>4, NoMorePongs
<1>6. Len(Awaited) <= Len(ping_queue) + 1
  <2>1. /\ PayloadsOf(ping_queue) \in Seq(AnyPayload)
        /\ Len(PayloadsOf(ping_queue)) = Len(ping_queue) /\ Len(ping_queue) \in Nat
    BY <1>t, PayloadTypes, PayloadsFacts
  <2>2. ~(Told /\ pc["ping"] = "sent")
    BY <1>t DEF OneOnItsWay, OnTheirWay, InFlight
  <2>3. \/ Awaited = PayloadsOf(ping_queue)
        \/ \E x \in AnyPayload : Awaited = Append(PayloadsOf(ping_queue), x)
    BY <1>t, <2>2, AwaitedForms, PayloadTypes DEF AwaitedForm, InFlight, AnyPayload
  <2> QED
    BY <2>1, <2>3
<1> QED
  BY <1>2, <1>3, <1>5, <1>6

LEMMA PongsFitNext ==
  ASSUME KeepaliveInv, KeepaliveInv', Matching', PongQueueBounded,
         [TimelyNext]_keepaliveVars, Running'
  PROVE  Len(pong_payload_queue') <= Len(ping_queue') + 1
<1>t. TypeOK
  BY DEF KeepaliveInv, IInv
<1>1. /\ Running
      /\ ping_queue \in Seq(PingContexts) /\ pong_payload_queue \in Seq(AnyPayload)
      /\ Len(pong_payload_queue) <= Len(ping_queue) + 1
  BY <1>t, LiveSteps, PayloadTypes DEF PongQueueBounded
<1>2. CASE ReadPong
  <2>1. ~ToldToStop'
    BY <1>2 DEF ReadPong, Received, ToldToStop
  <2>2. KeepaliveInv' /\ Matching' /\ Running' /\ ~ToldToStop'
          => (Len(pong_payload_queue) <= Len(ping_queue) + 1)'
    BY PongsFit, PTL
  <2> QED
    BY <2>1, <2>2
<1>3. CASE PongAccepted
  <2>1. /\ ping_queue # <<>> /\ ping_queue' = Tail(ping_queue)
        /\ pong_payload_queue # <<>> /\ pong_payload_queue' = Tail(pong_payload_queue)
    BY <1>3 DEF PongAccepted, FrontDue, FrontAnswered, PopPong
  <2> QED
    BY <1>1, <2>1
<1>4. CASE RegisterPing
  <2>1. ping_queue' = Append(ping_queue, NewPing) /\ pong_payload_queue' = pong_payload_queue
    BY <1>4 DEF RegisterPing, PushPing
  <2> QED
    BY <1>1, <2>1
<1>5. CASE TimelyTick
  <2>1. /\ ping_queue' = [i \in DOMAIN ping_queue |->
                           [ping_queue[i] EXCEPT !.left = Countdown(@)]]
        /\ pong_payload_queue' = pong_payload_queue
    BY <1>5 DEF TimelyTick, Tick
  <2>2. Len(ping_queue') = Len(ping_queue)
    BY <1>1, <2>1
  <2> QED
    BY <1>1, <2>1, <2>2
<1>6. CASE \/ TimelyPong \/ Ignore \/ PeerSend \/ PingStep \/ Quiet
           \/ \E c \in Closers : CloserNotify(c)
  <2>1. UNCHANGED <<ping_queue, pong_payload_queue>>
    BY <1>6 DEF TimelyPong, PeerPong, Ignore, PeerSend, PingStep, PingTick, PingLocked,
                PingFlushed, PingNotify, Quiet, CloserNotify
  <2> QED
    BY <1>1, <2>1
<1> QED
  BY <1>t, <1>2, <1>3, <1>4, <1>5, <1>6, LiveSteps DEF LiveStep

\* Without unsolicited pongs, on a server that keeps up with its timers, the queue of
\* pongs, which the code does not bound, is bounded by that of pings.
THEOREM PongQueueIsBounded ==
  ASSUME "bogus" \notin PeerSends
  PROVE  TimelySpec => []PongQueueBounded
<1>1. KeepaliveInit => PongQueueBounded
  BY DEF KeepaliveInit, Init, InitConnection, PongQueueBounded
<1>2. KeepaliveInv /\ KeepaliveInv' /\ Matching' /\ PongQueueBounded /\ [TimelyNext]_keepaliveVars
        => PongQueueBounded'
  BY PongsFitNext DEF PongQueueBounded
<1> QED
  BY <1>1, <1>2, MatchingInvariance, PTL DEF TimelySpec

-----------------------------------------------------------------------------
(* Who is terminated *)

\* At a deadline, what arrived before it has been read.
LEMMA DeadlineReadNext ==
  ASSUME KeepaliveInv, DeadlineRead, PongTimeout > 0, "bogus" \notin PeerSends,
         [TimelyNext]_keepaliveVars
  PROVE  DeadlineRead'
<1> SUFFICES ASSUME Running', FrontDue' PROVE ~PongUnread'
  BY DEF DeadlineRead
<1>t. TypeOK
  BY DEF KeepaliveInv, IInv
<1>1. Running
  BY <1>t, LiveSteps
<1>2. FrontDue => ~PongUnread
  BY <1>1 DEF DeadlineRead
<1>3. CASE TimelyTick
  BY <1>1, <1>3 DEF TimelyTick, Tick, PongUnread
<1>4. CASE TimelyPong \/ Ignore \/ ReadPong
  <2>1. ~FrontDue /\ ping_queue' = ping_queue
    BY <1>4 DEF TimelyPong, PeerPong, Ignore, ReadPong, Received
  <2> QED
    BY <2>1 DEF FrontDue
<1>5. CASE RegisterPing
  <2>1. ~FrontDue /\ ping_queue' = Append(ping_queue, NewPing) /\ ping_queue \in Seq(PingContexts)
    BY <1>5, <1>t, RegisterPaced DEF TypeOK
  <2>2. NewPing.left = PongTimeout
    BY DEF NewPing
  <2>3. Head(ping_queue').left # 0
    <3>1. CASE ping_queue = <<>>
      <4>1. Head(ping_queue') = NewPing
        BY <2>1, <3>1
      <4> QED
        BY <2>2, <4>1
    <3>2. CASE ping_queue # <<>>
      <4>1. Head(ping_queue') = Head(ping_queue)
        BY <2>1, <3>2
      <4> QED
        BY <2>1, <3>2, <4>1 DEF FrontDue
    <3> QED
      BY <3>1, <3>2
  <2> QED
    BY <2>3 DEF FrontDue
<1>6. CASE PongAccepted
  BY <1>2, <1>6 DEF PongAccepted, PongUnread
<1>7. CASE PeerSend
  <2>1. ~PongUnread /\ inbox \in Seq(Items)
    BY <1>2, <1>7, <1>t, PayloadTypes DEF PeerSend, FrontDue
  <2>2. PICK kind \in PeerSends \cap Kinds :
          inbox' = Append(inbox, [kind |-> kind, payload |-> NoPayload])
    BY <1>7 DEF PeerSend, Arrives
  <2> DEFINE item == [kind |-> kind, payload |-> NoPayload]
  <2>3. item.kind # "pong" /\ inbox' = Append(inbox, item)
    BY <2>2, PeerAssumption DEF Deeds, Kinds, Endings
  <2> HIDE DEF item
  <2> QED
    BY <2>1, <2>3 DEF PongUnread
<1>8. CASE PingStep \/ (\E c \in Closers : CloserNotify(c)) \/ Quiet
  <2>1. UNCHANGED <<ping_queue, inbox>>
    BY <1>8 DEF PingStep, PingTick, PingLocked, PingFlushed, PingNotify, CloserNotify, Quiet
  <2> QED
    BY <1>2, <2>1 DEF FrontDue, PongUnread
<1> QED
  BY <1>t, <1>3, <1>4, <1>5, <1>6, <1>7, <1>8, LiveSteps DEF LiveStep

\* A pong that was read but is not at the front is that of a later ping.
LEMMA MissedMeansAbsent ==
  ASSUME KeepaliveInv, Matching, DeadlineRead, Running, FrontDue, ~FrontAnswered
  PROVE  ~PongArrived(Head(ping_queue).payload)
<1> DEFINE p == Head(ping_queue).payload
           read == pong_payload_queue
<1>t. TypeOK /\ OneOnItsWay /\ ping_queue # <<>>
  BY DEF KeepaliveInv, IInv, FrontDue
<1>1. Head(ping_queue) \in PingContexts /\ p \in Payloads
  <2>1. Head(ping_queue) \in PingContexts
    BY <1>t DEF TypeOK
  <2> QED
    BY <2>1 DEF PingContexts
<1>2. p # NoPayload
  BY <1>1, PayloadsAssumption
<1>3. ASSUME NEW i \in DOMAIN inbox PROVE inbox[i].payload # p
  <2>1. inbox[i].kind # "pong"
    BY DEF DeadlineRead, PongUnread
  <2>2. inbox[i] \in Items
    BY <1>t DEF TypeOK
  <2>3. inbox[i].payload = NoPayload
    BY <2>1, <2>2 DEF Items
  <2> QED
    BY <1>2, <2>3
<1>4. ASSUME NEW k \in DOMAIN read, read[k] = p PROVE FALSE
  <2>1. read \in Seq(Payloads \cup {Bogus}) /\ read \in Seq(AnyPayload)
    BY <1>t, PayloadTypes DEF TypeOK
  <2>2. read[1] # NoPayload /\ 1 \in DOMAIN read /\ k \in Nat /\ k >= 1 /\ Head(read) = read[1]
    BY <2>1, PayloadsAssumption
  <2>3. k # 1
    BY <1>4, <2>1, <2>2 DEF FrontAnswered
  <2>4. /\ PayloadsOf(ping_queue) \in Seq(AnyPayload)
        /\ PayloadsOf(ping_queue) # <<>> /\ Head(PayloadsOf(ping_queue)) = p
    BY <1>t, <1>1, PayloadTypes, PayloadsSteps
  <2>5. 1 \in DOMAIN Awaited /\ Awaited[1] = p /\ DOMAIN Awaited \subseteq Nat \ {0}
    <3> DEFINE pings == PayloadsOf(ping_queue)
    <3>1. ~(Told /\ pc["ping"] = "sent")
      BY <1>t DEF OneOnItsWay, OnTheirWay, InFlight
    <3>2. \/ Awaited = pings
          \/ \E x \in Payloads : Awaited = Append(pings, x)
      BY <1>t, <3>1, AwaitedForms, PayloadTypes DEF AwaitedForm, InFlight
    <3> HIDE DEF pings, p
    <3>3. pings \in Seq(AnyPayload) /\ pings # <<>> /\ Head(pings) = p
      BY <2>4 DEF pings, p
    <3>4. CASE Awaited = pings
      BY <3>3, <3>4
    <3>5. CASE \E x \in Payloads : Awaited = Append(pings, x)
      <4>1. PICK x \in Payloads : Awaited = Append(pings, x)
        BY <3>5
      <4>2. x \in AnyPayload
        BY DEF AnyPayload
      <4> QED
        BY <3>3, <4>1, <4>2
    <3> QED
      BY <3>2, <3>4, <3>5
  <2>6. /\ 1 \in DOMAIN Coming /\ k \in DOMAIN Coming
        /\ Coming[1] = read[1] /\ Coming[k] = read[k]
    BY <1>t, <2>2, ReadComeFirst
  <2>7. \E m \in DOMAIN Awaited : m < 1 /\ Coming[1] = Awaited[m]
    <3>1. 1 < k /\ Coming[k] = Awaited[1] /\ Coming[1] # NoPayload /\ Coming[k] # NoPayload
      BY <1>2, <1>4, <2>2, <2>3, <2>5, <2>6
    <3> QED
      BY <2>5, <2>6, <3>1 DEF Matching, InOrder
  <2> QED
    BY <2>5, <2>7
<1> QED
  BY <1>3, <1>4 DEF PongArrived

LEMMA TerminatedMissed ==
  ASSUME KeepaliveInv, Matching, DeadlineRead, [Next]_vars,
         connectionStatus' # connectionStatus,
         connectionStatus'.value = "ConnectionTerminated"
  PROVE  ~PongArrived(Head(ping_queue).payload)
<1>t. TypeOK /\ SignalInv
  BY DEF KeepaliveInv, IInv
<1>1. CASE PongMissed
  BY <1>1, MissedMeansAbsent DEF PongMissed, LoopTurn
<1>2. ~ReadEnding
  <2> SUFFICES ASSUME ReadEnding PROVE FALSE
    OBVIOUS
  <2>1. PICK kind \in Endings : NotifyHandle(ReportOf[kind])
    BY DEF ReadEnding
  <2>2. ReportOf[kind] \in ConnectionStatuses \ {"ConnectionTerminated"}
    BY DEF Endings, ReportOf, ConnectionStatuses
  <2>3. connectionStatus'.value = ReportOf[kind]
    BY <1>t, <2>1, <2>2, SendFacts DEF NotifyHandle, TypeOK
  <2> QED
    BY <2>2, <2>3
<1>3. CASE SharedStatus
  <2>1. connectionStatus.value = "ConnectionTerminated"
    BY <1>3, <1>t, ReadFacts DEF SharedStatus, TypeOK
  <2>2. ~Running
    BY <1>t, <2>1 DEF SignalInv, ReportIsLast
  <2>3. pong_payload_queue = <<>> /\ inbox = <<>>
    BY <2>2 DEF KeepaliveInv, EndedEmpty
  <2> QED
    BY <2>3 DEF PongArrived
<1>4. PongMissed \/ SharedStatus
  <2>1. CASE ConnStep \/ ConnCancelled
    BY <1>2, <2>1 DEF ConnStep, PongAccepted, RegisterPing, ClosedByHandle, Ignore, ReadPong,
                      ReadNothing, ConnCancelled
  <2>2. CASE SharedGone \/ \E c \in Closers : CloserStep(c)
    BY <2>2 DEF SharedGone, CloserStep, CloserStore, CloserClose, CloserFlushed, CloserNotify
  <2>3. CASE PingStep
    BY <2>3 DEF PingStep, PingTick, PingLocked, PingFlushed, PingNotify
  <2>4. CASE OwnerWait \/ Outside
    BY <2>4 DEF OwnerWait, Outside, OwnerSend, OwnerLocked, OwnerFlushed, OwnerDrop,
                OwnerUnchanged, PeerPong, PeerSend, WireBreaks, Cancel, ReceiverDrop
  <2>5. CASE Tick \/ Finished \/ UNCHANGED vars
    BY <2>5 DEF Tick, Finished, vars
  <2> QED
    BY <2>1, <2>2, <2>3, <2>4, <2>5 DEF Next, ServerStep, SharedStep, Closers
<1> QED
  BY <1>1, <1>3, <1>4

\* Without unsolicited pongs, on a server that keeps up with its timers, the pong of the
\* ping a connection is terminated for did not arrive in time.  A timeout of zero leaves
\* no time to read one.
THEOREM OnlyUnresponsive ==
  ASSUME "bogus" \notin PeerSends, PongTimeout > 0
  PROVE  TimelySpec => OnlyUnresponsiveTerminated
<1>1. KeepaliveInit => DeadlineRead
  BY DEF KeepaliveInit, Init, InitConnection, DeadlineRead, FrontDue
<1>2. KeepaliveInv /\ DeadlineRead /\ [TimelyNext]_keepaliveVars => DeadlineRead'
  BY DeadlineReadNext
<1>3. KeepaliveInv /\ Matching /\ DeadlineRead /\ [TimelyNext]_keepaliveVars
        => [connectionStatus' # connectionStatus
              /\ connectionStatus'.value = "ConnectionTerminated"
            => ~PongArrived(Head(ping_queue).payload)]_vars
  BY TerminatedMissed, TimelyIsNext
<1> QED
  BY <1>1, <1>2, <1>3, MatchingInvariance, PTL DEF TimelySpec, OnlyUnresponsiveTerminated

-----------------------------------------------------------------------------
(* How long a silent peer keeps its connection *)

\* No step but the peer's answer brings the pong of a ping.
LEMMA NoPongArrives ==
  ASSUME TypeOK, Running, LiveStep \/ Tick, NEW p \in Payloads, ~PongArrived(p)
  PROVE  ~PongArrived(p)'
<1>1. pong_payload_queue \in Seq(Payloads \cup {Bogus}) /\ inbox \in Seq(Items)
  BY DEF TypeOK
<1>2. CASE PongAccepted
  BY <1>1, <1>2 DEF PongAccepted, FrontAnswered, PopPong, PongArrived
<1>3. CASE Ignore
  BY <1>1, <1>3 DEF Ignore, Received, PongArrived
<1>4. CASE ReadPong
  <2>1. /\ inbox # <<>> /\ inbox' = Tail(inbox)
        /\ pong_payload_queue' = Append(pong_payload_queue, Head(inbox).payload)
    BY <1>4 DEF ReadPong, Received, PushPong
  <2>2. Head(inbox) = inbox[1] /\ 1 \in DOMAIN inbox
    BY <1>1, <2>1
  <2>3. \A i \in DOMAIN inbox' : i + 1 \in DOMAIN inbox /\ inbox'[i] = inbox[i + 1]
    BY <1>1, <2>1
  <2>4. \A i \in DOMAIN pong_payload_queue' :
          \/ i \in DOMAIN pong_payload_queue /\ pong_payload_queue'[i] = pong_payload_queue[i]
          \/ pong_payload_queue'[i] = inbox[1].payload
    BY <1>1, <2>1, <2>2
  <2> QED
    BY <2>2, <2>3, <2>4 DEF PongArrived
<1>5. CASE PeerSend
  <2>1. PICK item : inbox' = Append(inbox, item) /\ item.payload \in {NoPayload, Bogus}
    <3>1. CASE \E kind \in PeerSends \cap Kinds :
                 inbox' = Append(inbox, [kind |-> kind, payload |-> NoPayload])
      BY <3>1
    <3>2. CASE inbox' = Append(inbox, [kind |-> "pong", payload |-> Bogus])
      BY <3>2
    <3> QED
      BY <1>5, <3>1, <3>2 DEF PeerSend, Arrives
  <2>2. \A i \in DOMAIN inbox' : \/ i \in DOMAIN inbox /\ inbox'[i] = inbox[i]
                                 \/ inbox'[i] = item
    BY <1>1, <2>1
  <2>3. pong_payload_queue' = pong_payload_queue
    BY <1>5 DEF PeerSend
  <2> QED
    BY <2>1, <2>2, <2>3, PayloadsAssumption DEF PongArrived
<1>6. CASE RegisterPing \/ PingStep \/ (\E c \in Closers : CloserNotify(c)) \/ Quiet \/ Tick
  <2>1. UNCHANGED <<pong_payload_queue, inbox>>
    BY <1>6 DEF RegisterPing, PingStep, PingTick, PingLocked, PingFlushed, PingNotify,
                CloserNotify, Quiet, Tick
  <2> QED
    BY <2>1 DEF PongArrived
<1> QED
  BY <1>2, <1>3, <1>4, <1>5, <1>6 DEF LiveStep

\* The numbers the silence is counted with.
LEMMA SilenceTypes ==
  ASSUME TypeOK
  PROVE  /\ PingInterval \in Nat \ {0} /\ PongTimeout \in Nat
         /\ interval.left \in 1 .. PingInterval
         /\ \A i \in DOMAIN ping_queue : /\ ping_queue[i].left \in Nat
                                         /\ ping_queue[i].left <= PongTimeout
                                         /\ ping_queue[i].payload \in Payloads
<1>1. \A i \in DOMAIN ping_queue : ping_queue[i] \in PingContexts
  BY DEF TypeOK
<1> QED
  BY <1>1, TimesAssumption DEF TypeOK, PingContexts, Intervals

\* A ping that no pong answers stays in the queue, at its place or the one before it.
LEMMA PingWaits ==
  ASSUME TypeOK, Running, LiveStep, NEW i \in DOMAIN ping_queue,
         ~PongArrived(ping_queue[i].payload)
  PROVE  \E j \in DOMAIN ping_queue' : ping_queue'[j] = ping_queue[i]
<1>1. ping_queue \in Seq(PingContexts)
  BY DEF TypeOK
<1>2. CASE PongAccepted
  <2>1. ping_queue # <<>> /\ ping_queue' = Tail(ping_queue)
    BY <1>2 DEF PongAccepted, FrontDue
  <2>2. i # 1
    <3>1. Head(ping_queue) = ping_queue[1]
      BY <1>1, <2>1
    <3>2. pong_payload_queue[1] = ping_queue[1].payload /\ 1 \in DOMAIN pong_payload_queue
      BY <1>2, <3>1 DEF PongAccepted, FrontAnswered, TypeOK
    <3> QED
      BY <3>2 DEF PongArrived
  <2>3. i - 1 \in DOMAIN ping_queue' /\ ping_queue'[i - 1] = ping_queue[i]
    BY <1>1, <2>1, <2>2
  <2> QED
    BY <2>3
<1>3. CASE RegisterPing
  BY <1>1, <1>3, RegisterPaced
<1>4. CASE \/ Ignore \/ ReadPong \/ PingStep \/ PeerSend \/ Quiet
           \/ \E c \in Closers : CloserNotify(c)
  BY <1>4 DEF Ignore, ReadPong, PingStep, PingTick, PingLocked, PingFlushed, PingNotify,
              PeerSend, Quiet, CloserNotify
<1> QED
  BY <1>2, <1>3, <1>4 DEF LiveStep

\* From the tick on which it is sent, a ping that no pong answers goes from the ping
\* task to the connection's queue, unless it is not sent, or forgotten for a close.
LEMMA UnansweredMoves ==
  ASSUME KeepaliveInv, KeepaliveInv', Running, Running', [TimelyNext]_keepaliveVars,
         LiveStep, Unanswered, pc'["ping"] # "done"
  PROVE  \/ Unanswered'
         \/ StopNotified'
         \/ /\ RegisterPing /\ Told /\ ~PongArrived(handleStatus.value.payload)
<1>t. TypeOK /\ TypeOK' /\ pc \in [Actors -> States] /\ OnTheirWay <= 1
  BY DEF KeepaliveInv, IInv, TypeOK, OneOnItsWay
<1>a. \A p \in Payloads : ~PongArrived(p) => ~PongArrived(p)'
  BY <1>t, NoPongArrives
<1>g. ASSUME NEW state \in {"locking", "sending", "sent", "idle", "done"}, Goto("ping", state)
      PROVE  pc'["ping"] = state
  BY <1>g, <1>t, GotoFacts DEF Actors, States
<1>1. CASE PingTick
  <2>1. PICK p \in Payloads \ Outstanding :
          payload' = p /\ pc'["ping"] \in {"locking", "sending", "sent"}
    BY <1>1, <1>g DEF PingTick, PingFails, SendPing, PingSucceeds
  <2>2. ~PongArrived(p)
    BY DEF PongArrived, Outstanding
  <2> QED
    BY <1>a, <2>1, <2>2 DEF Unanswered, InFlight, PongArrived
<1>2. CASE PingLocked \/ PingFlushed
  <2>1. pc["ping"] \in {"locking", "sending"} /\ payload \in Payloads
    BY <1>2, <1>t DEF PingLocked, PingFlushed, TypeOK
  <2>2. pc'["ping"] \in {"sending", "sent"} /\ payload' = payload
    BY <1>2, <1>g DEF PingLocked, PingFlushed, PingFails, SendPing, PingSucceeds
  <2>3. ~interval.due /\ ~Told
    BY <1>t, <2>1 DEF OnTheirWay, InFlight
  <2>4. ~PongArrived(payload)
    BY <2>3 DEF Unanswered
  <2> QED
    BY <1>a, <2>1, <2>2, <2>4 DEF Unanswered, InFlight, PongArrived
<1>3. CASE PingNotify
  <2>1. pc["ping"] = "sent" /\ payload \in Payloads
    BY <1>3, <1>t DEF PingNotify, TypeOK
  <2>2. ~interval.due /\ ~Told
    BY <1>t, <2>1 DEF OnTheirWay, InFlight
  <2>3. HandleStatus("SendPing", payload) \in HandleStatusSet
    BY <2>1 DEF HandleStatus, HandleStatusSet
  <2>4. handleStatus'.unseen /\ handleStatus'.value = HandleStatus("SendPing", payload)
    BY <1>3, <1>t, <2>3, SendFacts DEF PingNotify, NotifyConnection, TypeOK
  <2>5. ~PongArrived(payload)
    BY <2>2 DEF Unanswered
  <2> QED
    BY <1>a, <2>1, <2>4, <2>5 DEF Unanswered, Told, HandleStatus, PongArrived
<1>4. CASE ~PingStep
  <2>1. payload' = payload /\ pc'["ping"] = pc["ping"]
    BY <1>4, <1>t, OthersKeepPing
  <2>2. interval' = interval
    BY <1>4 DEF LiveStep, PongAccepted, RegisterPing, Ignore, ReadPong, CloserNotify, PeerSend,
                Quiet, pingTaskVars
  <2>3. CASE interval.due
    BY <2>2, <2>3 DEF Unanswered
  <2>4. CASE InFlight /\ ~PongArrived(payload)
    <3>1. payload \in Payloads
      BY <1>t, <2>4, PayloadTypes
    <3> QED
      BY <1>a, <2>1, <2>4, <3>1 DEF Unanswered, InFlight, PongArrived
  <2>5. CASE Told /\ ~PongArrived(handleStatus.value.payload)
    <3>1. handleStatus.value.payload \in Payloads
      BY <1>t, <2>5, PayloadTypes
    <3>2. CASE \E c \in Closers : CloserNotify(c)
      BY <2>5, <3>2, CloseForgets
    <3>3. CASE UNCHANGED handleStatus
      BY <1>a, <2>5, <3>1, <3>3 DEF Unanswered, Told, PongArrived
    <3> QED
      BY <1>4, <2>5, <3>2, <3>3
      DEF LiveStep, PongAccepted, Ignore, ReadPong, PeerSend, Quiet
  <2> QED
    BY <2>3, <2>4, <2>5 DEF Unanswered
<1> QED
  BY <1>1, <1>2, <1>3, <1>4 DEF PingStep

LEMMA SilencePacedNext ==
  ASSUME KeepaliveInv, KeepaliveInv', DeadlinesOrdered, silence \in Nat, SilencePaced,
         [TimelyNext]_keepaliveVars
  PROVE  SilencePaced'
<1> SUFFICES ASSUME Running', pc'["ping"] # "done" PROVE SilencePaced'
  BY DEF SilencePaced
<1>t. TypeOK /\ TypeOK' /\ OneOnItsWay /\ SignalInv
  BY DEF KeepaliveInv, IInv
<1>1. Running
  BY <1>t, LiveSteps
<1>2. pc["ping"] # "done"
  BY <1>t, OthersKeepPing DEF PingStep, PingTick, PingLocked, PingFlushed, PingNotify
<1>3. /\ PingInterval \in Nat \ {0} /\ PongTimeout \in Nat
      /\ interval.left \in 1 .. PingInterval /\ interval'.left \in 1 .. PingInterval
  BY <1>t, SilenceTypes DEF TypeOK, Intervals
\* The three promises, one of which is kept until the silence ends or the connection.
<1> DEFINE Waiting == \E i \in DOMAIN ping_queue :
                        ~PongArrived(ping_queue[i].payload) /\ silence + ping_queue[i].left <= Limit
           Leaving == Unanswered /\ silence + (interval.left - 1) + PongTimeout <= Limit
           Expected == silence + (interval.left - 1) + PingInterval + PongTimeout <= Limit
<1>4. Waiting \/ Leaving \/ Expected \/ StopNotified
  BY <1>1, <1>2 DEF SilencePaced
<1>5. ASSUME Waiting' \/ Leaving' \/ Expected' \/ StopNotified' PROVE SilencePaced'
  BY <1>5 DEF SilencePaced
<1>6. CASE TimelyPong
  <2>1. silence' = 0
    BY <1>6 DEF TimelyPong
  <2>2. Expected'
    BY <1>3, <2>1 DEF Limit
  <2> QED
    BY <1>5, <2>2
<1>7. CASE TimelyTick
  <2>1. /\ Tick /\ silence' = silence + 1 /\ ~FrontDue /\ ~ToldToStop
        /\ interval.left = 1 => OnTheirWay = 0
    BY <1>1, <1>7 DEF TimelyTick
  <2>2. \/ /\ interval.left > 1
           /\ interval'.left = interval.left - 1 /\ interval'.due = interval.due
        \/ interval.left = 1 /\ interval'.left = PingInterval /\ interval'.due
    BY <1>2, <1>t, <2>1, TickInterval
  <2>3. CASE Waiting
    <3>1. PICK i \in DOMAIN ping_queue :
            ~PongArrived(ping_queue[i].payload) /\ silence + ping_queue[i].left <= Limit
      BY <2>3
    <3>2. /\ ping_queue[i].left \in Nat /\ ping_queue[i].payload \in Payloads
          /\ ping_queue[1].left \in Nat
          /\ 1 \in DOMAIN ping_queue /\ Head(ping_queue) = ping_queue[1] /\ (i = 1 \/ 1 < i)
          /\ ping_queue # <<>>
      BY <1>t, SilenceTypes DEF TypeOK
    <3>3. ping_queue[1].left # 0
      BY <2>1, <3>2 DEF FrontDue
    <3>4. ping_queue[i].left > 0
      BY <3>2, <3>3 DEF DeadlinesOrdered
    <3>5. /\ i \in DOMAIN ping_queue'
          /\ ping_queue'[i].payload = ping_queue[i].payload
          /\ ping_queue'[i].left = ping_queue[i].left - 1
      <4>1. ping_queue[i] \in [payload : Payloads, left : 0 .. PongTimeout]
        <5>1. ping_queue[i] \in PingContexts
          BY <1>t DEF TypeOK
        <5> QED
          BY <5>1 DEF PingContexts
      <4>2. ping_queue' = [k \in DOMAIN ping_queue |->
                             [ping_queue[k] EXCEPT !.left = Countdown(ping_queue[k].left)]]
        BY <2>1 DEF Tick
      <4> QED
        BY <3>4, <4>1, <4>2 DEF Countdown
    <3>6. ~PongArrived(ping_queue[i].payload)'
      <4>1. UNCHANGED <<pong_payload_queue, inbox>>
        BY <2>1 DEF Tick
      <4> QED
        BY <3>1, <3>5, <4>1 DEF PongArrived
    <3>7. silence' + ping_queue'[i].left <= Limit
      BY <1>3, <2>1, <3>1, <3>2, <3>5 DEF Limit
    <3>8. Waiting'
      BY <3>5, <3>6, <3>7 DEF Limit
    <3> QED
      BY <1>5, <3>8
  <2>4. CASE Leaving
    <3>1. interval.left # 1
      BY <2>1, <2>4 DEF Unanswered, OnTheirWay
    <3>2. Unanswered'
      <4>1. UNCHANGED <<pc, handleStatus, payload, pong_payload_queue, inbox>>
        BY <2>1 DEF Tick
      <4> QED
        BY <2>2, <2>4, <3>1, <4>1 DEF Unanswered, InFlight, Told, PongArrived
    <3>3. silence' + (interval'.left - 1) + PongTimeout <= Limit
      BY <1>3, <2>1, <2>2, <2>4, <3>1 DEF Limit
    <3>4. Leaving'
      BY <3>2, <3>3 DEF Limit
    <3> QED
      BY <1>5, <3>4
  <2>5. CASE Expected /\ interval.left > 1
    <3>1. Expected'
      BY <1>3, <2>1, <2>2, <2>5 DEF Limit
    <3> QED
      BY <1>5, <3>1
  <2>6. CASE Expected /\ interval.left = 1
    <3>1. Leaving'
      BY <1>3, <2>1, <2>2, <2>6 DEF Limit, Unanswered
    <3> QED
      BY <1>5, <3>1
  <2>7. ~StopNotified
    BY <2>1 DEF StopNotified
  <2> QED
    BY <1>3, <1>4, <2>3, <2>4, <2>5, <2>6, <2>7
<1>8. CASE silence' = silence /\ LiveStep
  <2>1. interval'.left = interval.left
    <3>1. CASE PingStep
      BY <1>t, <3>1, PingStepPaced
    <3>2. CASE ~PingStep
      BY <1>8, <3>2 DEF LiveStep, PongAccepted, RegisterPing, Ignore, ReadPong, CloserNotify,
                        PeerSend, Quiet, pingTaskVars
    <3> QED
      BY <3>1, <3>2
  <2>2. CASE Waiting
    <3>1. PICK i \in DOMAIN ping_queue :
            ~PongArrived(ping_queue[i].payload) /\ silence + ping_queue[i].left <= Limit
      BY <2>2
    <3>2. PICK j \in DOMAIN ping_queue' : ping_queue'[j] = ping_queue[i]
      BY <1>1, <1>8, <1>t, <3>1, PingWaits
    <3>3. PICK p \in Payloads : p = ping_queue[i].payload
      BY <1>t, SilenceTypes
    <3>4. ~PongArrived(p)'
      BY <1>1, <1>8, <1>t, <3>1, <3>3, NoPongArrives
    <3>5. ~PongArrived(ping_queue[j].payload)'
      BY <3>2, <3>3, <3>4 DEF PongArrived
    <3>6. silence' + ping_queue'[j].left <= Limit
      BY <1>8, <3>1, <3>2
    <3>7. Waiting'
      BY <3>2, <3>5, <3>6 DEF Limit
    <3> QED
      BY <1>5, <3>7
  <2>3. CASE Leaving
    <3>1. \/ Unanswered' \/ StopNotified'
          \/ RegisterPing /\ Told /\ ~PongArrived(handleStatus.value.payload)
      BY <1>1, <1>8, <2>3, UnansweredMoves
    <3>2. CASE Unanswered'
      BY <1>5, <1>8, <2>1, <2>3, <3>2 DEF Limit
    <3>3. CASE RegisterPing /\ Told /\ ~PongArrived(handleStatus.value.payload)
      <4>1. /\ ping_queue' = Append(ping_queue, NewPing) /\ ping_queue \in Seq(PingContexts)
            /\ NewPing.payload = handleStatus.value.payload /\ NewPing.left = PongTimeout
        BY <1>t, <3>3, RegisterPaced DEF NewPing, TypeOK
      <4>2. /\ Len(ping_queue) + 1 \in DOMAIN ping_queue'
            /\ ping_queue'[Len(ping_queue) + 1] = NewPing
        BY <4>1
      <4>3. UNCHANGED <<pong_payload_queue, inbox>>
        BY <3>3 DEF RegisterPing
      <4>4. silence' + PongTimeout <= Limit
        BY <1>3, <1>8, <2>3 DEF Limit
      <4> QED
        BY <1>5, <3>3, <4>1, <4>2, <4>3, <4>4 DEF PongArrived, Limit
    <3> QED
      BY <1>5, <3>1, <3>2, <3>3
  <2>4. CASE Expected
    BY <1>5, <1>8, <2>1, <2>4 DEF Limit
  <2>5. CASE StopNotified
    BY <1>5, <2>5, StopStays
  <2> QED
    BY <1>4, <2>2, <2>3, <2>4, <2>5
<1> QED
  BY <1>t, <1>6, <1>7, <1>8, LiveSteps

\* The count never passes the limit while the connection runs: a connection that is
\* told to stop is stopped before the next tick.
LEMMA SilenceNext ==
  ASSUME KeepaliveInv, SilencePaced', silence \in Nat, Running => silence <= Limit,
         KeepaliveInv', [TimelyNext]_keepaliveVars
  PROVE  silence' \in Nat /\ (Running' => silence' <= Limit)
<1>t. TypeOK /\ TypeOK' /\ SignalInv /\ SignalInv'
  BY DEF KeepaliveInv, IInv
<1>1. silence' \in Nat
  BY DEF TimelyNext, OtherStep, TimelyPong, TimelyTick, keepaliveVars
<1>2. ASSUME Running' PROVE silence' <= Limit
  <2>1. Running
    BY <1>2, <1>t, LiveSteps
  <2>2. CASE TimelyTick
    <3>1. ~ToldToStop'
      BY <2>1, <2>2 DEF TimelyTick, Tick, ToldToStop
    <3>2. pc'["ping"] # "done" /\ ~StopNotified'
      BY <1>2, <1>t, <3>1 DEF SignalInv, TerminationSignalled, StopNotified
    <3>3. /\ PingInterval \in Nat \ {0} /\ PongTimeout \in Nat
          /\ interval'.left \in 1 .. PingInterval
          /\ \A i \in DOMAIN ping_queue' : ping_queue'[i].left \in Nat
      <4>1. \A i \in DOMAIN ping_queue' : ping_queue'[i] \in PingContexts
        BY <1>t DEF TypeOK
      <4> QED
        BY <1>t, <4>1, TimesAssumption DEF TypeOK, PingContexts, Intervals
    <3> QED
      BY <1>1, <1>2, <3>2, <3>3 DEF SilencePaced, Limit
  <2>3. CASE TimelyPong
    BY <2>3, TimesAssumption DEF TimelyPong, Limit
  <2>4. CASE silence' = silence
    BY <2>1, <2>4
  <2> QED
    BY <1>2, <1>t, <2>2, <2>3, <2>4, LiveSteps
<1> QED
  BY <1>1, <1>2

\* On a server that keeps up with its timers, a connection outlives its peer's last
\* pong by less than two intervals and a timeout, whatever else happens to it.
THEOREM SilenceIsBounded == TimelySpec => []SilenceBounded
<1> DEFINE Counted == silence \in Nat /\ (Running => silence <= Limit)
<1>1. KeepaliveInit => Counted /\ SilencePaced
  <2> SUFFICES ASSUME Init, silence = 0 PROVE Counted /\ SilencePaced
    BY DEF KeepaliveInit
  <2>1. interval = [left |-> PingInterval, due |-> TRUE]
    BY DEF Init, InitHandle
  <2>2. Unanswered /\ interval.left = PingInterval
    BY <2>1 DEF Unanswered
  <2> QED
    BY <2>2, TimesAssumption DEF SilencePaced, Limit
<1>2. /\ KeepaliveInv /\ KeepaliveInv' /\ DeadlinesOrdered
      /\ Counted /\ SilencePaced /\ [TimelyNext]_keepaliveVars
      => Counted' /\ SilencePaced'
  BY SilencePacedNext, SilenceNext DEF Limit
<1>3. Counted => SilenceBounded
  BY TimesAssumption DEF SilenceBounded, Limit
<1> QED
  BY <1>1, <1>2, <1>3, KeepaliveInvariance, DeadlinesAreOrdered, TimelyImplements, PTL
  DEF TimelySpec
=============================================================================
