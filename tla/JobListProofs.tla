---------------------------- MODULE JobListProofs ----------------------------
(* What append and deleteJob do to the number of entries of Dispatcher.Jobs. *)
EXTENDS JobList, FiniteSetTheorems, SequenceTheorems, WellFoundedInduction, TLAPS

LEMMA EntriesFinite ==
  ASSUME NEW jobs \in Seq(Job), NEW v, NEW k
  PROVE  /\ IsFiniteSet(Entries(jobs, v, k))
         /\ Cardinality(Entries(jobs, v, k)) \in Nat
         /\ Entries(jobs, v, k) \subseteq 1..Len(jobs)
<1>1. Entries(jobs, v, k) \subseteq 1..Len(jobs)
  BY DEF Entries
<1>2. IsFiniteSet(1..Len(jobs))
  BY FS_Interval
<1> QED
  BY <1>1, <1>2, FS_Subset, FS_CardinalityType

\* An appended job is one more entry of its own video and kind.
LEMMA EntriesAppend ==
  ASSUME NEW jobs \in Seq(Job), NEW j \in Job, NEW v, NEW k
  PROVE  Cardinality(Entries(Append(jobs, j), v, k)) =
           Cardinality(Entries(jobs, v, k))
             + IF j.video = v /\ j.kind = k THEN 1 ELSE 0
<1> DEFINE new == Append(jobs, j)
           n == Len(jobs) + 1
<1>1. /\ Len(new) = n /\ new[n] = j /\ new \in Seq(Job)
      /\ \A i \in 1..Len(jobs) : new[i] = jobs[i]
  BY AppendProperties
<1>2. DOMAIN new = 1..n /\ DOMAIN jobs = 1..Len(jobs) /\ Len(jobs) \in Nat
  BY <1>1
<1>3. Entries(new, v, k) =
        IF j.video = v /\ j.kind = k THEN Entries(jobs, v, k) \cup {n}
                                     ELSE Entries(jobs, v, k)
  BY <1>1, <1>2 DEF Entries
<1>4. n \notin Entries(jobs, v, k)
  BY EntriesFinite
<1>5. /\ IsFiniteSet(Entries(jobs, v, k))
      /\ Cardinality(Entries(jobs, v, k)) \in Nat
  BY EntriesFinite
<1> HIDE DEF new, n
<1>6. Cardinality(Entries(jobs, v, k) \cup {n}) = Cardinality(Entries(jobs, v, k)) + 1
  BY <1>4, <1>5, FS_AddElement
<1>7. CASE j.video = v /\ j.kind = k
  BY <1>3, <1>6, <1>7 DEF new
<1>8. CASE ~(j.video = v /\ j.kind = k)
  BY <1>3, <1>5, <1>8 DEF new
<1> QED
  BY <1>7, <1>8

\* A nonempty set of positions has a first one.
LEMMA FirstPosition ==
  ASSUME NEW S \in SUBSET Nat, S # {}
  PROVE  \E i \in S : \A j \in S : i <= j
<1>1. PICK i \in S : \A j \in S : <<j, i>> \notin OpToRel(<, Nat)
  BY WFMin, NatLessThanWellFounded, Zenon
<1>2. \A j \in S : ~ (j < i)
  BY <1>1 DEF OpToRel
<1> QED
  BY <1>2

LEMMA RemoveAtProperties ==
  ASSUME NEW jobs \in Seq(Job), NEW m \in 1..Len(jobs)
  PROVE  /\ RemoveAt(jobs, m) \in Seq(Job)
         /\ Len(RemoveAt(jobs, m)) = Len(jobs) - 1
         /\ \A i \in 1..Len(jobs) - 1 :
                RemoveAt(jobs, m)[i] = IF i < m THEN jobs[i] ELSE jobs[i + 1]
<1> DEFINE front == SubSeq(jobs, 1, m - 1)
           back  == SubSeq(jobs, m + 1, Len(jobs))
<1>0. /\ m \in Int /\ Len(jobs) \in Nat /\ 1 <= m /\ m <= Len(jobs)
      /\ \A i \in 1..Len(jobs) : jobs[i] \in Job
  OBVIOUS
<1>1. /\ front \in Seq(Job) /\ Len(front) = m - 1
      /\ \A i \in 1..m - 1 : front[i] = jobs[i]
  <2>1. \A i \in 1..m - 1 : jobs[i] \in Job
    BY <1>0
  <2>2. /\ SubSeq(jobs, 1, m - 1) \in Seq(Job)
        /\ Len(SubSeq(jobs, 1, m - 1)) = IF 1 <= m - 1 THEN m - 1 - 1 + 1 ELSE 0
        /\ \A i \in 1..m - 1 - 1 + 1 :
              SubSeq(jobs, 1, m - 1)[i] = jobs[1 + i - 1]
    BY <1>0, <2>1, SubSeqProperties
  <2> QED
    BY <1>0, <2>2
<1>2. /\ back \in Seq(Job) /\ Len(back) = Len(jobs) - m
      /\ \A i \in 1..Len(jobs) - m : back[i] = jobs[m + i]
  <2>1. \A i \in m + 1..Len(jobs) : jobs[i] \in Job
    BY <1>0
  <2>2. /\ back \in Seq(Job)
        /\ Len(back) = IF m + 1 <= Len(jobs) THEN Len(jobs) - (m + 1) + 1 ELSE 0
        /\ \A i \in 1..Len(jobs) - (m + 1) + 1 : back[i] = jobs[m + 1 + i - 1]
    BY <1>0, <2>1, SubSeqProperties
  <2> QED
    BY <1>0, <2>2
<1>3. RemoveAt(jobs, m) = front \o back
  BY DEF RemoveAt
<1> HIDE DEF front, back
<1>4. /\ front \o back \in Seq(Job)
      /\ Len(front \o back) = Len(front) + Len(back)
      /\ \A i \in 1..Len(front) + Len(back) :
            (front \o back)[i] =
               IF i <= Len(front) THEN front[i] ELSE back[i - Len(front)]
  BY <1>1, <1>2, ConcatProperties
<1>5. ASSUME NEW i \in 1..Len(jobs) - 1
      PROVE  (front \o back)[i] = IF i < m THEN jobs[i] ELSE jobs[i + 1]
  <2>1. CASE i < m
    BY <1>0, <1>1, <1>2, <1>4, <2>1
  <2>2. CASE ~(i < m)
    <3>1. i - (m - 1) \in 1..Len(jobs) - m /\ m + (i - (m - 1)) = i + 1
      BY <1>0, <2>2
    <3>2. (front \o back)[i] = back[i - (m - 1)]
      BY <1>0, <1>1, <1>2, <1>4, <2>2
    <3> QED
      BY <1>2, <2>2, <3>1, <3>2
  <2> QED
    BY <2>1, <2>2
<1> QED
  BY <1>0, <1>1, <1>2, <1>3, <1>4, <1>5

\* Removing position m leaves the entries other than m, shifted.
LEMMA EntriesRemoveAt ==
  ASSUME NEW jobs \in Seq(Job), NEW m \in 1..Len(jobs), NEW v, NEW k
  PROVE  Cardinality(Entries(RemoveAt(jobs, m), v, k)) =
           Cardinality(Entries(jobs, v, k) \ {m})
<1> DEFINE new == RemoveAt(jobs, m)
           S == Entries(new, v, k)
           T == Entries(jobs, v, k) \ {m}
           f == [i \in S |-> IF i < m THEN i ELSE i + 1]
<1>1. /\ new \in Seq(Job) /\ Len(new) = Len(jobs) - 1
      /\ \A i \in 1..Len(jobs) - 1 :
            new[i] = IF i < m THEN jobs[i] ELSE jobs[i + 1]
  BY RemoveAtProperties
<1>2. DOMAIN new = 1..Len(jobs) - 1 /\ DOMAIN jobs = 1..Len(jobs)
      /\ Len(jobs) \in Nat /\ m \in Nat
  BY <1>1
<1> HIDE DEF new
<1>3. \A i \in S : f[i] \in T
  BY <1>1, <1>2 DEF Entries
<1>4. \A i, j \in S : f[i] = f[j] => i = j
  BY <1>1, <1>2 DEF Entries
<1>5. \A t \in T : \E i \in S : f[i] = t
  <2> SUFFICES ASSUME NEW t \in T PROVE \E i \in S : f[i] = t
    OBVIOUS
  <2>1. t \in 1..Len(jobs) /\ t # m /\ jobs[t].video = v /\ jobs[t].kind = k
    BY <1>2 DEF Entries
  <2>2. CASE t < m
    <3>1. t \in S
      BY <1>1, <1>2, <2>1, <2>2 DEF Entries
    <3> QED
      BY <2>2, <3>1
  <2>3. CASE t > m
    <3>1. t - 1 \in 1..Len(jobs) - 1 /\ ~(t - 1 < m) /\ t - 1 + 1 = t
      BY <1>2, <2>1, <2>3
    <3>2. t - 1 \in S
      BY <1>1, <1>2, <2>1, <3>1 DEF Entries
    <3> QED
      BY <3>1, <3>2
  <2> QED
    BY <1>2, <2>1, <2>2, <2>3
<1>7. IsFiniteSet(S)
  BY <1>1, EntriesFinite
<1> HIDE DEF S, T, f
<1>8. f \in [S -> T]
  <2>1. f = [i \in S |-> f[i]]
    BY DEF f
  <2> QED
    BY <1>3, <2>1
<1>9. f \in Bijection(S, T)
  <2>1. f \in Injection(S, T)
    <3>1. DOMAIN f = S
      BY <1>8
    <3>2. IsInjective(f)
      BY <1>4, <3>1 DEF IsInjective
    <3> QED
      BY <1>8, <3>2 DEF Injection
  <2>2. f \in Surjection(S, T)
    BY <1>5, <1>8 DEF Surjection
  <2> QED
    BY <2>1, <2>2 DEF Bijection
<1>10. Cardinality(S) = Cardinality(T)
  BY <1>7, <1>9, FS_Bijection DEF ExistsBijection
<1> QED
  BY <1>10 DEF S, T, new

\* deleteJob takes one entry of that video and kind, if there is one, and none
\* of any other.
LEMMA EntriesDelete ==
  ASSUME NEW jobs \in Seq(Job), NEW video, NEW kind
  PROVE  /\ DeleteJob(jobs, video, kind) \in Seq(Job)
         /\ Entries(jobs, video, kind) # {} =>
              Cardinality(Entries(DeleteJob(jobs, video, kind), video, kind)) =
                Cardinality(Entries(jobs, video, kind)) - 1
         /\ \A v, k : v # video \/ k # kind =>
              Cardinality(Entries(DeleteJob(jobs, video, kind), v, k)) =
                Cardinality(Entries(jobs, v, k))
<1> DEFINE matching == Entries(jobs, video, kind)
           m == CHOOSE i \in matching : \A j \in matching : i <= j
<1>1. CASE matching = {}
  BY <1>1 DEF DeleteJob
<1>2. CASE matching # {}
  <2>1. matching \in SUBSET Nat
    BY EntriesFinite
  <2>2. m \in matching
    BY <1>2, <2>1, FirstPosition
  <2>3. m \in 1..Len(jobs) /\ jobs[m].video = video /\ jobs[m].kind = kind
    BY <2>2 DEF Entries
  <2>4. DeleteJob(jobs, video, kind) = RemoveAt(jobs, m)
    BY <1>2 DEF DeleteJob
  <2> HIDE DEF m
  <2>5. Cardinality(matching \ {m}) = Cardinality(matching) - 1
    BY <2>2, EntriesFinite, FS_RemoveElement
  <2>6. ASSUME NEW v, NEW k, v # video \/ k # kind
        PROVE  Entries(jobs, v, k) \ {m} = Entries(jobs, v, k)
    BY <2>3, <2>6 DEF Entries
  <2>7. RemoveAt(jobs, m) \in Seq(Job)
    BY <2>3, RemoveAtProperties
  <2> QED
    BY <2>3, <2>4, <2>5, <2>6, <2>7, EntriesRemoveAt
<1> QED
  BY <1>1, <1>2

LEMMA DeleteLength ==
  ASSUME NEW jobs \in Seq(Job), NEW video, NEW kind, Entries(jobs, video, kind) # {}
  PROVE  Len(DeleteJob(jobs, video, kind)) = Len(jobs) - 1
<1> DEFINE matching == Entries(jobs, video, kind)
           m == CHOOSE i \in matching : \A j \in matching : i <= j
<1>1. matching \in SUBSET Nat
  BY EntriesFinite
<1>2. m \in matching
  BY <1>1, FirstPosition
<1>3. m \in 1..Len(jobs)
  BY <1>2 DEF Entries
<1>4. DeleteJob(jobs, video, kind) = RemoveAt(jobs, m)
  BY DEF DeleteJob
<1> HIDE DEF m
<1> QED
  BY <1>3, <1>4, RemoveAtProperties

-----------------------------------------------------------------------------
(* What the operations on a sequence of payloads or jobs do to the requests *)
(* it stands for.                                                          *)

LEMMA RequestsIndex ==
  ASSUME NEW S, NEW s \in Seq(S), NEW r
  PROVE  r \in Requests(s) <=> \E i \in 1..Len(s) : r = RequestOf(s[i])
BY DEF Requests

LEMMA RequestsEmpty == Requests(<< >>) = {}
<1>1. DOMAIN << >> = {}
  OBVIOUS
<1> QED
  BY <1>1 DEF Requests

LEMMA RequestsAppend ==
  ASSUME NEW S, NEW s \in Seq(S), NEW e \in S
  PROVE  Requests(Append(s, e)) = Requests(s) \cup {RequestOf(e)}
<1> DEFINE new == Append(s, e)
<1>1. /\ new \in Seq(S) /\ Len(new) = Len(s) + 1 /\ new[Len(s) + 1] = e
      /\ \A i \in 1..Len(s) : new[i] = s[i]
  BY AppendProperties
<1>2. DOMAIN new = 1..(Len(s) + 1) /\ DOMAIN s = 1..Len(s) /\ Len(s) \in Nat
  BY <1>1
<1> HIDE DEF new
<1>3. Requests(new) = Requests(s) \cup {RequestOf(e)}
  BY <1>1, <1>2 DEF Requests
<1> QED
  BY <1>3 DEF new

LEMMA RequestsTail ==
  ASSUME NEW S, NEW s \in Seq(S), s # << >>
  PROVE  /\ Head(s) \in S /\ Tail(s) \in Seq(S)
         /\ Requests(s) = Requests(Tail(s)) \cup {RequestOf(Head(s))}
<1>1. /\ Head(s) = s[1] /\ Tail(s) \in Seq(S) /\ Len(Tail(s)) = Len(s) - 1
      /\ \A i \in 1..Len(Tail(s)) : Tail(s)[i] = s[i + 1]
      /\ Len(s) \in Nat \ {0}
  BY HeadTailProperties, EmptySeq
<1>2. \A i \in 1..Len(s) : i = 1 \/ (i - 1 \in 1..Len(Tail(s)) /\ s[i] = Tail(s)[i - 1])
  BY <1>1
<1>3. \A i \in 1..Len(Tail(s)) : i + 1 \in 1..Len(s)
  BY <1>1
<1>4. ASSUME NEW r
      PROVE  r \in Requests(s) <=> r \in Requests(Tail(s)) \cup {RequestOf(Head(s))}
  <2>1. ASSUME r \in Requests(s)
        PROVE  r \in Requests(Tail(s)) \cup {RequestOf(Head(s))}
    <3>1. PICK i \in 1..Len(s) : r = RequestOf(s[i])
      BY <2>1, RequestsIndex
    <3> QED
      BY <1>1, <1>2, <3>1, RequestsIndex
  <2>2. ASSUME r \in Requests(Tail(s)) PROVE r \in Requests(s)
    <3>1. PICK i \in 1..Len(Tail(s)) : r = RequestOf(Tail(s)[i])
      BY <1>1, <2>2, RequestsIndex
    <3> QED
      BY <1>1, <1>3, <3>1, RequestsIndex
  <2>3. RequestOf(Head(s)) \in Requests(s)
    BY <1>1, RequestsIndex
  <2> QED
    BY <2>1, <2>2, <2>3
<1>5. Head(s) \in S
  BY <1>1
<1> QED
  BY <1>1, <1>4, <1>5

LEMMA FrontProperties ==
  ASSUME NEW S, NEW s \in Seq(S), s # << >>
  PROVE  /\ Front(s) \in Seq(S) /\ Len(Front(s)) = Len(s) - 1
         /\ \A i \in 1..Len(Front(s)) : Front(s)[i] = s[i]
<1>0. Len(s) \in Nat \ {0} /\ \A i \in 1..Len(s) : s[i] \in S
  BY EmptySeq
<1>1. 1 \in Int /\ Len(s) - 1 \in Int /\ \A i \in 1..(Len(s) - 1) : s[i] \in S
  BY <1>0
<1>2. /\ SubSeq(s, 1, Len(s) - 1) \in Seq(S)
      /\ Len(SubSeq(s, 1, Len(s) - 1)) =
           IF 1 <= Len(s) - 1 THEN Len(s) - 1 - 1 + 1 ELSE 0
      /\ \A i \in 1..(Len(s) - 1 - 1 + 1) :
           SubSeq(s, 1, Len(s) - 1)[i] = s[1 + i - 1]
  BY <1>1, SubSeqProperties
<1> DEFINE n == Len(s)
           m == Len(SubSeq(s, 1, Len(s) - 1))
<1>3. Len(Front(s)) = Len(s) - 1
  <2>1. n \in Nat \ {0} /\ m = IF 1 <= n - 1 THEN n - 1 - 1 + 1 ELSE 0
    BY <1>0, <1>2
  <2> HIDE DEF n, m
  <2>2. m = n - 1
    BY <2>1
  <2> QED
    BY <2>2 DEF Front, m, n
<1>4. ASSUME NEW i \in 1..Len(Front(s)) PROVE Front(s)[i] = s[i]
  <2>1. i \in 1..(Len(s) - 1 - 1 + 1) /\ 1 + i - 1 = i
    BY <1>0, <1>3
  <2> QED
    BY <1>2, <2>1 DEF Front
<1> QED
  BY <1>2, <1>3, <1>4 DEF Front

LEMMA RequestsFront ==
  ASSUME NEW S, NEW s \in Seq(S), s # << >>
  PROVE  /\ Last(s) \in S /\ Front(s) \in Seq(S)
         /\ Requests(s) = Requests(Front(s)) \cup {RequestOf(Last(s))}
<1>1. Len(s) \in Nat \ {0} /\ \A i \in 1..Len(s) : s[i] \in S
  BY EmptySeq
<1>2. /\ Front(s) \in Seq(S) /\ Len(Front(s)) = Len(s) - 1
      /\ \A i \in 1..Len(Front(s)) : Front(s)[i] = s[i]
  BY FrontProperties
<1>3. ASSUME NEW r
      PROVE  r \in Requests(s) <=> r \in Requests(Front(s)) \cup {RequestOf(Last(s))}
  <2>1. r \in Requests(s) <=> \E i \in 1..Len(s) : r = RequestOf(s[i])
    BY RequestsIndex
  <2>2. r \in Requests(Front(s)) <=>
          \E i \in 1..Len(Front(s)) : r = RequestOf(Front(s)[i])
    BY <1>2, RequestsIndex
  <2>3. \A i \in 1..Len(s) : i = Len(s) \/ i \in 1..Len(Front(s))
    BY <1>1, <1>2
  <2> QED
    BY <1>1, <1>2, <2>1, <2>2, <2>3 DEF Last
<1> QED
  BY <1>1, <1>2, <1>3 DEF Last

\* The part of a sequence that begins after position n.
LEMMA RequestsRest ==
  ASSUME NEW S, NEW s \in Seq(S), NEW n \in 0..Len(s), NEW r
  PROVE  /\ SubSeq(s, n + 1, Len(s)) \in Seq(S)
         /\ r \in Requests(SubSeq(s, n + 1, Len(s)))
              <=> \E i \in n + 1..Len(s) : r = RequestOf(s[i])
<1> DEFINE rest == SubSeq(s, n + 1, Len(s))
<1>1. Len(s) \in Nat /\ \A i \in 1..Len(s) : s[i] \in S
  OBVIOUS
<1>2. /\ rest \in Seq(S) /\ Len(rest) = Len(s) - n
      /\ \A i \in 1..(Len(s) - n) : rest[i] = s[n + i]
  BY <1>1, SubSeqProperties
<1> HIDE DEF rest
<1>3. r \in Requests(rest) <=> \E i \in 1..(Len(s) - n) : r = RequestOf(s[n + i])
  <2>1. r \in Requests(rest) <=> \E i \in 1..Len(rest) : r = RequestOf(rest[i])
    BY <1>2, RequestsIndex
  <2> QED
    BY <1>2, <2>1
<1>4. ASSUME NEW i \in n + 1..Len(s), r = RequestOf(s[i])
      PROVE  \E m \in 1..(Len(s) - n) : r = RequestOf(s[n + m])
  <2>1. i - n \in 1..(Len(s) - n) /\ n + (i - n) = i
    BY <1>1
  <2> QED
    BY <1>4, <2>1
<1>5. ASSUME NEW m \in 1..(Len(s) - n), r = RequestOf(s[n + m])
      PROVE  \E i \in n + 1..Len(s) : r = RequestOf(s[i])
  <2>1. n + m \in n + 1..Len(s)
    BY <1>1
  <2> QED
    BY <1>5, <2>1
<1> QED
  BY <1>2, <1>3, <1>4, <1>5 DEF rest

\* deleteJob takes no request away but one of that video, and adds none.
LEMMA RequestsDelete ==
  ASSUME NEW jobs \in Seq(Job), NEW v, NEW k
  PROVE  /\ Requests(DeleteJob(jobs, v, k)) \subseteq Requests(jobs)
         /\ \A r \in Requests(jobs) :
              r \in Requests(DeleteJob(jobs, v, k)) \/ r[2] = v
<1> DEFINE matching == Entries(jobs, v, k)
           first == CHOOSE i \in matching : \A j \in matching : i <= j
<1>1. CASE matching = {}
  BY <1>1 DEF DeleteJob
<1>2. CASE matching # {}
  <2>1. matching \subseteq 1..Len(jobs) /\ matching \subseteq Nat
    BY EntriesFinite
  <2>2. first \in matching
    BY <1>2, <2>1, FirstPosition
  <2>3. first \in 1..Len(jobs) /\ jobs[first].video = v
    BY <2>1, <2>2 DEF Entries
  <2>4. DeleteJob(jobs, v, k) = RemoveAt(jobs, first)
    BY <1>2 DEF DeleteJob
  <2> HIDE DEF first, matching
  <2> DEFINE new == RemoveAt(jobs, first)
  <2>5. /\ new \in Seq(Job) /\ Len(new) = Len(jobs) - 1
        /\ \A i \in 1..Len(new) :
             new[i] = IF i < first THEN jobs[i] ELSE jobs[i + 1]
    BY <2>3, RemoveAtProperties
  <2> HIDE DEF new
  <2>6. Requests(new) \subseteq Requests(jobs)
    <3> SUFFICES ASSUME NEW r \in Requests(new) PROVE r \in Requests(jobs)
      OBVIOUS
    <3>1. PICK i \in 1..Len(new) : r = RequestOf(new[i])
      BY <2>5, RequestsIndex
    <3>2. i \in 1..Len(jobs) /\ i + 1 \in 1..Len(jobs)
      BY <2>5
    <3> QED
      BY <2>5, <3>1, <3>2, RequestsIndex
  <2>7. ASSUME NEW r \in Requests(jobs), r[2] # v PROVE r \in Requests(new)
    <3>1. PICK i \in 1..Len(jobs) : r = RequestOf(jobs[i])
      BY RequestsIndex
    <3>2. i # first
      BY <2>3, <2>7, <3>1 DEF RequestOf
    <3>3. CASE i < first
      <4>1. i \in 1..Len(new) /\ new[i] = jobs[i]
        BY <2>3, <2>5, <3>3
      <4> QED
        BY <2>5, <3>1, <4>1, RequestsIndex
    <3>4. CASE i > first
      <4>1. i - 1 \in 1..Len(new) /\ new[i - 1] = jobs[i]
        BY <2>3, <2>5, <3>4
      <4> QED
        BY <2>5, <3>1, <4>1, RequestsIndex
    <3> QED
      BY <2>3, <3>2, <3>3, <3>4
  <2> QED
    BY <2>4, <2>6, <2>7 DEF new
<1> QED
  BY <1>1, <1>2

=============================================================================
